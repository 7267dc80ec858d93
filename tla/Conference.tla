----------------------------- MODULE Conference ------------------------------
(*************************************************************************)
(* The controller of a merged conference call: ConferenceController and  *)
(* its subclass MergeController, the ConferenceOperationQueue they work  *)
(* off, the participant list, the REFERs (ConferenceReference) and the   *)
(* subscription to the conference events (ConferenceSubscription).       *)
(*                                                                       *)
(* A command fills the queue with operations.  The operation in front    *)
(* has been started; an event completes it when type and user fit, and   *)
(* the next one starts.  Everything arrives in any order: answers to     *)
(* REFERs, R-NOTIFYs of REFERs done with long ago, C-NOTIFYs, calls that *)
(* end, timers.                                                          *)
(*                                                                       *)
(* Left out: COPYCONTROL, one REFER for several users, REFER without     *)
(* subscription, and every failure to send but those of a REFER on an    *)
(* ended call, of UNSUBSCRIBE and of a SUBSCRIBE that repeats another.   *)
(* What the engine posts about the subscription is dispatched as it is   *)
(* posted; a server that has ended a subscription sends no C-NOTIFY of   *)
(* it any more, and no 403 or 423.  How often a SUBSCRIBE is repeated is *)
(* not counted: any repetition may be the one too many.                  *)
(*************************************************************************)
EXTENDS Naturals, Sequences, FiniteSets, SequencesExt

CONSTANTS Flows,        \* the carriers' orders of REFER and SUBSCRIBE
          MaxUsers,     \* bound: users, each of them asked in once at most
          MaxAsked,     \* bound: users the UI asks in, by flow
          MaxCommands   \* bound: commands of the UI

ASSUME FlowsAssumption == Flows \subseteq {"refer_first", "subscribe_first", "notify_refer"}
ASSUME BoundAssumption == /\ MaxUsers \in Nat
                          /\ MaxAsked \in [Flows -> 0..MaxUsers]
                          /\ MaxCommands \in Nat

VARIABLES flow,         \* that of this carrier
          ctl,          \* the controller with what belongs to it
          conf,         \* the conference call
          call,         \* per user: the call with this user is up
          commands,     \* how many commands the UI has given
          asked         \* how many users the UI has asked in

vars == <<flow, ctl, conf, call, commands, asked>>

-----------------------------------------------------------------------------
(*************************************************************************)
(* An operation, a participant, and the references of a user: "unsent"   *)
(* when the REFER could not be sent, "gone" once deleted, "silent" when  *)
(* its end came without a code.                                          *)
(*************************************************************************)
Users == 1..MaxUsers     \* in the order in which they are asked in
NoUser == 0              \* IMS_NULL for a ConfUser

States == {"CREATED", "MERGING", "JOINING", "DROPPING", "IDLE"}
Immediate == {"NOTIFY_RESULT_TO_UI", "NOTIFY_RESULT_TO_MTCCALL", "TERMINATE_1TO1_CALL",
              "TERMINATE_CONFERENCE"}
Lasting == {"CREATE_CONFERENCE_CALL", "SUBSCRIBE", "UNSUBSCRIBE", "REFER_INVITE",
            "REFER_BYE", "CHECK_CONNECTED", "DESTROY_CONTROLLER"}
References == {"invite", "bye"}

Op(type, u) == [type |-> type, user |-> u, delayed |-> FALSE]
Delayed(type) == [Op(type, NoUser) EXCEPT !.delayed = TRUE]

Absent == [in |-> FALSE, status |-> "connecting", updated |-> FALSE, ref |-> "none"]
NoReferences == [r \in References |-> "none"]

(*************************************************************************)
(* delay: the timer of the delayed operation in front; wait: the final   *)
(* sipfrag timer; part: the participant list, ref the reference a        *)
(* participant is linked to; refs: those that live.  sub is m_nState of  *)
(* the subscription, "none" without one; eng the engine's subscription:  *)
(* "none" when released, the operation pending, or its state; notified:  *)
(* the list has a version.  open, twice: a command waits for its result, *)
(* a result was told without one; stale: an event of a reference without *)
(* its user, or of another one than the operation in front waits for,    *)
(* went on to that operation; lost: the subscription ended, or was not   *)
(* ended, against the controller's will.                                 *)
(*************************************************************************)
PendingRequests == {"CREATE", "REFRESH", "REMOVE"}

ControllerType ==
    [state : States,
     queue : Seq([type : Immediate \cup Lasting, user : Users \cup {NoUser},
                  delayed : BOOLEAN]),
     delay : BOOLEAN, wait : BOOLEAN,
     part : [Users -> [in : BOOLEAN, status : {"connecting", "connected", "disconnected"},
                       updated : BOOLEAN, ref : References \cup {"none"}]],
     refs : [Users -> [References -> {"none", "unsent", "sent", "accepted", "gone", "silent"}]],
     sub : {"none", "SUBSCRIBING", "ACTIVE", "UNSUBSCRIBING", "IDLE"},
     eng : PendingRequests \cup {"none", "INACTIVE", "ACTIVE"},
     notified : BOOLEAN, closed : BOOLEAN, open : BOOLEAN, twice : BOOLEAN,
     stale : BOOLEAN, lost : BOOLEAN]

NewController ==
    [state |-> "CREATED", queue |-> << >>, delay |-> FALSE, wait |-> FALSE,
     part |-> [u \in Users |-> Absent], refs |-> [u \in Users |-> NoReferences],
     sub |-> "none", eng |-> "none", notified |-> FALSE,
     closed |-> FALSE, open |-> FALSE, twice |-> FALSE, stale |-> FALSE, lost |-> FALSE]

Init ==
    /\ flow \in Flows
    /\ ctl = NewController
    /\ conf = "IDLE"
    /\ call = [u \in Users |-> TRUE]
    /\ commands = 0
    /\ asked = 0

-----------------------------------------------------------------------------
(*************************************************************************)
(* The participant list.  NotifyUsersInfo forgets who has been           *)
(* disconnected.                                                         *)
(*************************************************************************)
Participants(c) == {u \in Users : c.part[u].in}
Connected(c) == {u \in Participants(c) : c.part[u].status = "connected"}
Connecting(c) == {u \in Participants(c) : c.part[u].status # "disconnected"}

Joined(c, us) == [c EXCEPT !.part = [u \in Users |->
                     IF u \in us THEN [Absent EXCEPT !.in = TRUE] ELSE @[u]]]
Removed(c, us) == [c EXCEPT !.part = [u \in Users |-> IF u \in us THEN Absent ELSE @[u]]]
NotifyUsersInfo(c) == Removed(c, Participants(c) \ Connecting(c))

(* GetConfUser(reference): u when still linked to this reference         *)
Linked(c, u, r) == c.part[u].in /\ c.part[u].ref = r
GetConfUser(c, u, r) == IF Linked(c, u, r) THEN u ELSE NoUser
Status(c, u, status) == IF u = NoUser THEN c ELSE [c EXCEPT !.part[u].status = status]
Unlinked(c, u, r) == IF Linked(c, u, r) THEN [c EXCEPT !.part[u].ref = "none"] ELSE c
RemoveReferenceOnly(c, u, r) ==     \* wrong: the participant keeps its link
    [c EXCEPT !.refs[u][r] = "gone"]
RemoveReference(c, u, r) == [Unlinked(c, u, r) EXCEPT !.refs[u][r] = "gone"]

(* A result for the UI                                                   *)
Told(c) == [c EXCEPT !.open = FALSE, !.twice = @ \/ ~c.open]

(*************************************************************************)
(* The queue, and the final sipfrag timer.                               *)
(*************************************************************************)
FrontIs(c, type) == c.queue # << >> /\ Head(c.queue).type = type
HasPendingOperation(c) == \E i \in DOMAIN c.queue : c.queue[i].delayed
Cleared(c) == [c EXCEPT !.queue = << >>, !.delay = FALSE]
Popped(c) == [c EXCEPT !.queue = Tail(@), !.delay = FALSE]
Appended(c, ops) == [c EXCEPT !.queue = @ \o ops]

(* The conditions are forgotten as the timer starts: none outlives the   *)
(* call that sets it but SIPFRAG_100_RECEIVED, which starts nothing.     *)
StopFinalSipfragWaitTimer(c) == [c EXCEPT !.wait = FALSE]
CheckNStart(c, condition) ==
    IF condition = "CONDITION_1TO1_TERMINATED" THEN [c EXCEPT !.wait = TRUE] ELSE c
OneToOneTerminated(c) == CheckNStart(c, "CONDITION_1TO1_TERMINATED")

SendClosedUnlessPending(c) ==       \* wrong: a pending operation is reason enough to stay
    IF HasPendingOperation(c) THEN c ELSE [c EXCEPT !.closed = TRUE]
SendClosed(c) ==
    IF HasPendingOperation(c) THEN Appended(c, <<Op("DESTROY_CONTROLLER", NoUser)>>)
    ELSE [c EXCEPT !.closed = TRUE]

MergeFailedKeeping(c) == Told(c)    \* wrong: the queue is not cleared
MergeFailed(c) == Cleared(Told(c))

-----------------------------------------------------------------------------
(*************************************************************************)
(* The controller with the two kinds of calls it drives, x = [c, conf,   *)
(* call], because Terminate tells the controller before it returns.      *)
(*************************************************************************)
ConferenceStates == {"IDLE", "STARTING", "UP", "ENDED"}
WorldType == [c : ControllerType, conf : ConferenceStates, call : [Users -> BOOLEAN]]
World(c) == [c |-> c, conf |-> conf, call |-> call]

(* OnCallUpdated(CALL_TERMINATED) after Recover, nothing else being in   *)
(* front                                                                 *)
ConferenceOver(c) ==
    LET waits == c.sub = "ACTIVE"
    IN  SendClosed([c EXCEPT !.queue = IF waits THEN Append(@, Delayed("UNSUBSCRIBE")) ELSE @,
                             !.delay = @ \/ (waits /\ c.queue = << >>)])

(*************************************************************************)
(* InviteParticipants: forgets the REFERs for BYE, links a new           *)
(* reference, and recovers when the conference call has ended, which is  *)
(* all that can make SendInvite fail.                                    *)
(*************************************************************************)
InviteParticipants(x, u) ==
    LET Bye(v) == x.c.refs[v]["bye"] \in {"unsent", "sent", "accepted"}
        cleared == [StopFinalSipfragWaitTimer(x.c) EXCEPT
                       !.refs = [v \in Users |->
                                   IF Bye(v) THEN [@[v] EXCEPT !["bye"] = "gone"] ELSE @[v]],
                       !.part = [v \in Users |->
                                   IF Bye(v) /\ @[v].ref = "bye"
                                   THEN [@[v] EXCEPT !.ref = "none"] ELSE @[v]]]
        linked == [cleared EXCEPT !.part[u].ref = IF cleared.part[u].in THEN "invite" ELSE @]
    IN  IF x.conf = "UP" THEN [linked EXCEPT !.refs[u]["invite"] = "sent"]
        ELSE MergeFailed([linked EXCEPT !.refs[u]["invite"] = "unsent"])

RemoveParticipants(x, u) ==
    [x.c EXCEPT !.refs[u]["bye"] = IF x.conf = "UP" THEN "sent" ELSE "unsent",
                !.part[u].ref = IF x.c.part[u].in THEN "bye" ELSE @]

NotifyCmdResult(c) ==
    LET told == IF c.state = "DROPPING" THEN NotifyUsersInfo(Told(c)) ELSE Told(c)
    IN  [Popped(told) EXCEPT !.state = "IDLE"]

(* Terminate of a call that is over does nothing                         *)
TerminateIndividualCall(x, u) ==
    [x EXCEPT !.call[u] = FALSE,
              !.c = Popped(IF x.call[u] THEN OneToOneTerminated(@) ELSE @)]
TerminateConference(x) ==
    [x EXCEPT !.conf = "ENDED",
              !.c = Popped(IF x.conf = "ENDED" THEN @ ELSE ConferenceOver(@))]

(* Unsubscribe is refused unless the engine's subscription is active,    *)
(* and the state is UNSUBSCRIBING all the same.                          *)
StopSubscription(c) ==
    IF c.sub \in {"SUBSCRIBING", "ACTIVE"} /\ c.eng # "none"
    THEN [c EXCEPT !.sub = "UNSUBSCRIBING", !.eng = IF @ = "ACTIVE" THEN "REMOVE" ELSE @]
    ELSE c

(* DoNextOperation for the operation o in front.  CHECK_CONNECTED waits  *)
(* for the next C-NOTIFY: only the notify_refer flow has it.             *)
Started(x, o) ==
    CASE o.type = "CREATE_CONFERENCE_CALL" -> [x EXCEPT !.conf = "STARTING"]
      [] o.type = "SUBSCRIBE" -> [x EXCEPT !.c.sub = "SUBSCRIBING", !.c.eng = "CREATE"]
      [] o.type = "UNSUBSCRIBE" -> [x EXCEPT !.c = StopSubscription(@)]
      [] o.type = "REFER_INVITE" -> [x EXCEPT !.c = InviteParticipants(x, o.user)]
      [] o.type = "REFER_BYE" -> [x EXCEPT !.c = RemoveParticipants(x, o.user)]
      [] o.type = "CHECK_CONNECTED" -> x
      [] o.type = "NOTIFY_RESULT_TO_UI" -> [x EXCEPT !.c = NotifyCmdResult(@)]
      [] o.type = "NOTIFY_RESULT_TO_MTCCALL" -> [x EXCEPT !.c = Popped(@)]
      [] o.type = "TERMINATE_1TO1_CALL" -> TerminateIndividualCall(x, o.user)
      [] o.type = "TERMINATE_CONFERENCE" -> TerminateConference(x)
      [] o.type = "DESTROY_CONTROLLER" -> [x EXCEPT !.c = SendClosed(@)]

(* GetNextOperation arms the timer of a delayed operation instead.       *)
(* Operations follow one another until one of them lasts.                *)
DoNextOperation[x \in WorldType] ==
    IF x.c.queue = << >> THEN x
    ELSE LET o == Head(x.c.queue)
         IN  IF o.delayed THEN [x EXCEPT !.c.delay = TRUE]
             ELSE IF o.type \in Immediate THEN DoNextOperation[Started(x, o)]
             ELSE Started(x, o)

(* CompleteCurrentAndDoNextOperation: the user need only fit if there is *)
(* one                                                                   *)
FitsAnyUser(c, type, u) == FrontIs(c, type)     \* wrong: the user is not compared
Fits(c, type, u) == FrontIs(c, type) /\ u \in {NoUser, Head(c.queue).user}
CompleteOnly(x, type, u) ==     \* wrong: the next operation is not started
    IF Fits(x.c, type, u) THEN [x EXCEPT !.c = Popped(@)] ELSE x
Complete(x, type, u) ==
    IF Fits(x.c, type, u) THEN DoNextOperation[[x EXCEPT !.c = Popped(@)]] ELSE x

(* Put starts the operations only when the queue was empty               *)
Put(x, ops) ==
    LET filled == [x EXCEPT !.c = Appended(@, ops)]
    IN  IF x.c.queue = << >> THEN DoNextOperation[filled] ELSE filled

(*************************************************************************)
(* Recover, by the operation in front.  RecoverOnReferring: the          *)
(* conference has ended; the member got in after all; nobody is in; this *)
(* member failed and is one of two; or the merge is given up.  A user    *)
(* deleted from the list is read all the same, status being what the     *)
(* memory says, and one whom a C-NOTIFY has reported as connected may be *)
(* on hold, which does not count here.                                   *)
(*************************************************************************)
GiveUp(x) == [x EXCEPT !.c = [MergeFailed(@) EXCEPT !.state = "IDLE"]]

RecoverOnReferring(x, status) ==
    LET u == Head(x.c.queue).user
    IN  CASE x.conf # "UP" -> [x EXCEPT !.c = MergeFailed(@)]
          [] x.conf = "UP" /\ status = "connected" -> Complete(x, "REFER_INVITE", u)
          [] x.conf = "UP" /\ status # "connected" ->
                 IF Connected(x.c) = {} \/ Cardinality(Participants(x.c)) > 2 THEN GiveUp(x)
                 ELSE LET out == IF x.c.part[u].in THEN Status(x.c, u, "disconnected") ELSE x.c
                      IN  Complete([x EXCEPT !.c = out], "REFER_INVITE", u)

Statuses(c, u) ==
    LET p == c.part[u]
    IN  IF p.in THEN {p.status} \cup IF p.status = "connected" /\ p.updated THEN {"on_hold"} ELSE {}
        ELSE {"connecting", "connected", "on_hold", "disconnected"}

Recover(x) ==
    CASE FrontIs(x.c, "CREATE_CONFERENCE_CALL") -> {[x EXCEPT !.c = MergeFailed(@)]}
      [] FrontIs(x.c, "REFER_INVITE") ->
             {RecoverOnReferring(x, st) : st \in Statuses(x.c, Head(x.c.queue).user)}
      [] OTHER -> {x}

(* ReleaseController deletes the controller with all that belongs to it  *)
Released(c) == [NewController EXCEPT !.closed = TRUE, !.twice = c.twice, !.stale = c.stale]

Becomes(x) ==
    /\ ctl' = IF x.c.closed THEN Released(x.c) ELSE x.c
    /\ conf' = x.conf
    /\ call' = x.call
    /\ UNCHANGED flow

Event(x) == ~ctl.closed /\ Becomes(x) /\ UNCHANGED <<commands, asked>>

-----------------------------------------------------------------------------
(*************************************************************************)
(* The commands of the UI, which reach the controller through its        *)
(* conference call.  The first merge makes the controller.  A merge      *)
(* refused changes nothing.                                              *)
(*************************************************************************)
Commanded ==
    /\ ~ctl.closed
    /\ conf # "ENDED"
    /\ commands < MaxCommands
    /\ commands' = commands + 1

IsReadyToPerformCmd == ctl.state \in {"CREATED", "IDLE"}
SetOf(us) == {us[i] : i \in DOMAIN us}

InvitesOf(us) ==
    LET OpsOf(u) == <<Op("REFER_INVITE", u), Op("TERMINATE_1TO1_CALL", u)>>
                       \o IF flow = "notify_refer" THEN <<Op("CHECK_CONNECTED", u)>> ELSE << >>
    IN  FlattenSeq([i \in DOMAIN us |-> OpsOf(us[i])])

MergeOps(us) ==
    LET Alone(type, when) == IF when THEN <<Op(type, NoUser)>> ELSE << >>
        first == ctl.state = "CREATED"
    IN  Alone("CREATE_CONFERENCE_CALL", first)
           \o Alone("SUBSCRIBE", first /\ flow # "refer_first")
           \o InvitesOf(us)
           \o Alone("NOTIFY_RESULT_TO_UI", TRUE)
           \o Alone("SUBSCRIBE", first /\ flow = "refer_first")
           \o Alone("NOTIFY_RESULT_TO_MTCCALL", TRUE)

ProcessMerge(us) ==
    /\ Commanded
    /\ IsReadyToPerformCmd
    /\ asked' = asked + Len(us)
    /\ LET listed == [Joined(ctl, SetOf(us)) EXCEPT !.state = "MERGING", !.open = TRUE]
       IN  Becomes(IF ctl.state = "CREATED" /\ Len(us) < 2 THEN World(SendClosed(ctl))
                   ELSE Put(World(listed), MergeOps(us)))

(* Users are listed before the controller is found busy                  *)
ProcessJoin(u) ==
    /\ Commanded
    /\ ctl.state # "CREATED"
    /\ asked' = asked + 1
    /\ LET listed == Joined(ctl, {u})
       IN  Becomes(IF ~IsReadyToPerformCmd THEN World(NotifyUsersInfo(listed))
                   ELSE Put(World([listed EXCEPT !.state = "JOINING", !.open = TRUE]),
                            <<Op("REFER_INVITE", u)>>))

ProcessDrop(u) ==
    /\ Commanded
    /\ ctl.state # "CREATED"
    /\ ctl.refs[u]["bye"] = "none"
    /\ asked' = asked
    /\ Becomes(IF ~ctl.part[u].in \/ ~IsReadyToPerformCmd THEN World(NotifyUsersInfo(ctl))
               ELSE Put(World([ctl EXCEPT !.state = "DROPPING", !.open = TRUE]),
                        <<Op("REFER_BYE", u), Op("NOTIFY_RESULT_TO_UI", NoUser)>>))

-----------------------------------------------------------------------------
(*************************************************************************)
(* The calls.                                                            *)
(*************************************************************************)
ConferenceEstablished ==
    /\ conf = "STARTING"
    /\ Event(Complete([World(ctl) EXCEPT !.conf = "UP"], "CREATE_CONFERENCE_CALL", NoUser))

ConferenceTerminated ==
    /\ conf \in {"STARTING", "UP"}
    /\ \E x \in Recover([World(ctl) EXCEPT !.conf = "ENDED"]) :
          Event([x EXCEPT !.c = ConferenceOver(@)])

IndividualCallTerminated(u) ==
    /\ call[u]
    /\ u <= asked
    /\ Event([World(OneToOneTerminated(ctl)) EXCEPT !.call[u] = FALSE])

-----------------------------------------------------------------------------
(*************************************************************************)
(* REFERs: the answer, the failure, and R-NOTIFYs with a sipfrag code    *)
(* and maybe the end of the subscription.  code "none" is the end        *)
(* without any.                                                          *)
(*************************************************************************)
Userless(c, type, user) == [c EXCEPT !.stale = @ \/ (user = NoUser /\ FrontIs(c, type))]
Foreign(c, type, u) ==
    [c EXCEPT !.stale = @ \/ (FrontIs(c, type) /\ Head(c.queue).user # u)]

OnReferenceStarted(u, r) ==
    LET user == GetConfUser(ctl, u, r)
        arrived == [ctl EXCEPT !.refs[u][r] = "accepted"]
    IN  /\ ctl.refs[u][r] = "sent"
        /\ \/ /\ r = "bye"
              /\ Event(Complete(World(Status(Userless(arrived, "REFER_BYE", user), user,
                                             "disconnected")), "REFER_BYE", user))
           \/ /\ r = "invite"
              /\ Event(IF ctl.state # "JOINING" THEN World(arrived)
                       ELSE Complete(World(Userless(arrived, "REFER_INVITE", user)),
                                     "REFER_INVITE", user))

OnReferenceStartFailed(u, r) ==
    LET stopped == StopFinalSipfragWaitTimer(ctl)
        late == ~FrontIs(ctl, "REFER_BYE") \/ Head(ctl.queue).user # u
        dropped == [Cleared(NotifyUsersInfo(Told(stopped))) EXCEPT !.state = "IDLE",
                                                                  !.stale = @ \/ late]
        Gone(c) == RemoveReference(IF Linked(c, u, r) /\ r = "invite" THEN Removed(c, {u})
                                   ELSE c, u, r)
    IN  /\ ctl.refs[u][r] = "sent"
        /\ \/ /\ r = "bye"
              /\ Event(World(Gone(dropped)))
           \/ /\ r = "invite"
              /\ \E x \in Recover(World(Foreign(stopped, "REFER_INVITE", u))) :
                    Event([x EXCEPT !.c = Gone(@)])

(* x after the R-NOTIFY, with its reference deleted when that was the    *)
(* last one                                                              *)
Ended(x, u, r, last) == IF last THEN [x EXCEPT !.c = RemoveReference(@, u, r)] ELSE x

OnReferenceUpdated(u, r, code, last) ==
    LET user == GetConfUser(ctl, u, r)
        type == IF r = "bye" THEN "REFER_BYE" ELSE "REFER_INVITE"
        told == Userless(ctl, type, user)
        Set(c, status) == Status(c, user, status)
    IN  /\ ctl.refs[u][r] \in {"sent", "accepted"}
        /\ \/ /\ r = "bye"
              /\ Event(Ended(Complete(World(IF code = "ok" THEN Set(told, "disconnected")
                                            ELSE told), type, user), u, r, last))
           \/ /\ r = "invite" /\ code = "ok"
              /\ Event(Ended(Complete(World(StopFinalSipfragWaitTimer(Set(told, "connected"))),
                                      type, user), u, r, last))
           \/ /\ r = "invite" /\ code = "failure"
              /\ \E x \in Recover(World(StopFinalSipfragWaitTimer(Foreign(ctl, type, u)))) :
                    Event(Ended(x, u, r, last))
           \/ /\ r = "invite" /\ code = "trying"
              /\ Event(Ended(World(CheckNStart(Set(ctl, "connecting"),
                                           "CONDITION_SIPFRAG_100_RECEIVED")), u, r, last))
           \/ /\ r = "invite" /\ code = "none"
              /\ Event(World([RemoveReference(ctl, u, r) EXCEPT !.refs[u][r] = "silent"]))

(* What a server sends: provisional codes with the subscription active,  *)
(* final ones that end it, or the end alone.                             *)
SipFrags == {[code |-> "trying", last |-> FALSE], [code |-> "ok", last |-> TRUE],
             [code |-> "failure", last |-> TRUE], [code |-> "none", last |-> TRUE]}

Reference(u, r) ==
    \/ OnReferenceStarted(u, r)
    \/ OnReferenceStartFailed(u, r)
    \/ \E f \in SipFrags : OnReferenceUpdated(u, r, f.code, f.last)

-----------------------------------------------------------------------------
(*************************************************************************)
(* The subscription.  Unless the operation was REMOVE,                   *)
(* SubscriptionStartFailed does nothing without a response, and after    *)
(* 403 or 423 a new subscription is made, whose SUBSCRIBE may fail       *)
(* unnoticed.  FAILED completes SUBSCRIBE before the subscription is     *)
(* deleted.                                                              *)
(*************************************************************************)
SubscriptionStarted ==
    /\ ctl.eng \in PendingRequests
    /\ LET Active(sub) == World([ctl EXCEPT !.sub = sub, !.eng = "ACTIVE"])
       IN  \/ /\ ctl.sub = "SUBSCRIBING"
              /\ Event(IF flow = "notify_refer" THEN Active("ACTIVE")
                       ELSE Complete(Active("ACTIVE"), "SUBSCRIBE", NoUser))
           \/ /\ ctl.sub = "UNSUBSCRIBING"
              /\ Event(Complete(Active("IDLE"), "UNSUBSCRIBE", NoUser))
           \/ /\ ctl.sub = "IDLE"
              /\ Event(Active("IDLE"))

SubscriptionFailed(c) ==
    LET x == Complete(World([c EXCEPT !.eng = "none", !.lost = TRUE]), "SUBSCRIBE", NoUser)
    IN  [x EXCEPT !.c.sub = "none"]

SubscriptionStartFailed ==
    \/ /\ ctl.eng \in {"CREATE", "REFRESH"}
       /\ Event(World([ctl EXCEPT !.eng = "INACTIVE", !.lost = TRUE]))
    \/ /\ ctl.eng \in {"CREATE", "REFRESH"}
       /\ ctl.sub = "SUBSCRIBING"
       /\ Event(World([ctl EXCEPT !.eng = "CREATE"]))
    \/ /\ ctl.eng \in PendingRequests
       /\ Event(IF ctl.sub # "UNSUBSCRIBING" THEN SubscriptionFailed(ctl)
                ELSE Complete(World([ctl EXCEPT !.eng = "none"]), "UNSUBSCRIBE", NoUser))

(* The network ends a subscription it has accepted, with an answer under *)
(* way or not                                                            *)
SubscriptionTerminated ==
    /\ ctl.eng = "ACTIVE" \/ (ctl.eng \in {"REFRESH", "REMOVE"} /\ ctl.sub # "IDLE")
    /\ LET over == [ctl EXCEPT !.sub = "IDLE", !.eng = IF @ = "ACTIVE" THEN "INACTIVE" ELSE @,
                               !.lost = @ \/ ~FrontIs(ctl, "UNSUBSCRIBE")]
       IN  Event(Put(Complete(World(over), "UNSUBSCRIBE", NoUser),
                     <<Op("TERMINATE_CONFERENCE", NoUser)>>))

(* A version that does not follow the last one: SUBSCRIBE again, which   *)
(* the engine refuses while an answer is pending, and which fails when   *)
(* it cannot be sent or MAX_RESUBS_COUNT is reached: how often it has    *)
(* been sent is not counted.                                             *)
ReSubscribe ==
    /\ ctl.notified
    /\ \/ /\ ctl.eng = "ACTIVE"
          /\ Event(World([ctl EXCEPT !.sub = "SUBSCRIBING", !.eng = "REFRESH"]))
       \/ Event(SubscriptionFailed(ctl))

(*************************************************************************)
(* A C-NOTIFY with the new status of u (connected or on hold:            *)
(* connected), or with nothing new or a wrong version: nobody comes      *)
(* back, and who never was reported as connected cannot leave.  When no  *)
(* participant is left the conference is terminated.                     *)
(*************************************************************************)
Reported(c, u, status) ==
    [c EXCEPT !.part[u].status = status, !.part[u].updated = TRUE]

NotifyReceived(x) ==
    LET first == IF flow = "notify_refer" THEN Complete(x, "SUBSCRIBE", NoUser) ELSE x
        alone == IF Connecting(first.c) = {}
                 THEN Put(first, <<Op("TERMINATE_CONFERENCE", NoUser)>>) ELSE first
    IN  IF Participants(first.c) = {} THEN first
        ELSE Complete([alone EXCEPT !.c = NotifyUsersInfo(@)], "CHECK_CONNECTED", NoUser)

SubscriptionNotify ==
    LET known == [ctl EXCEPT !.notified = TRUE]
    IN  /\ ctl.eng \in PendingRequests \cup {"ACTIVE"}
        /\ ctl.sub # "IDLE"
        /\ \/ Event(NotifyReceived(World(known)))
           \/ \E u \in Connecting(ctl) :
                \/ /\ ctl.refs[u]["invite"] # "none"
                   /\ Event(NotifyReceived(World(Reported(known, u, "connected"))))
                \/ /\ ctl.part[u].updated
                   /\ Event(NotifyReceived(World(Reported(known, u, "disconnected"))))
           \/ ReSubscribe

Subscription ==
    \/ SubscriptionStarted
    \/ SubscriptionStartFailed
    \/ SubscriptionTerminated
    \/ SubscriptionNotify

-----------------------------------------------------------------------------
(*************************************************************************)
(* The timers.                                                           *)
(*************************************************************************)
DelayedOperationTimer ==
    /\ ctl.delay
    /\ LET x == DoNextOperation[World([ctl EXCEPT !.delay = FALSE,
                                                  !.queue[1].delayed = FALSE])]
       IN  \/ Event(x)
           \/ /\ x.c.eng # ctl.eng    \* UNSUBSCRIBE could not be sent
              /\ Event([x EXCEPT !.c.eng = ctl.eng, !.c.lost = TRUE])

FinalSipfragWaitTimer ==
    /\ ctl.wait
    /\ \E x \in Recover(World([ctl EXCEPT !.wait = FALSE])) : Event(x)

(* The next users that the UI asks in                                    *)
Fresh(n) == [i \in 1..n |-> asked + i]

Next ==
    \/ asked + 1 <= MaxAsked[flow] /\ (ProcessMerge(Fresh(1)) \/ ProcessJoin(asked + 1))
    \/ asked + 2 <= MaxAsked[flow] /\ ProcessMerge(Fresh(2))
    \/ \E u \in Users : ProcessDrop(u)
    \/ ConferenceEstablished
    \/ ConferenceTerminated
    \/ \E u \in Users : IndividualCallTerminated(u)
    \/ \E u \in Users, r \in References : Reference(u, r)
    \/ Subscription
    \/ DelayedOperationTimer
    \/ FinalSipfragWaitTimer

(* Timers expire, and a SUBSCRIBE is answered or times out               *)
Fairness ==
    /\ WF_vars(DelayedOperationTimer)
    /\ WF_vars(FinalSipfragWaitTimer)
    /\ WF_vars(SubscriptionStarted \/ SubscriptionStartFailed)

Spec == Init /\ [][Next]_vars /\ Fairness

-----------------------------------------------------------------------------
(* Every part of the state keeps its type, and no participant is linked  *)
(* to a reference that has been deleted (m_pReference outlived by        *)
(* nobody).                                                              *)
TypeOK ==
    /\ flow \in Flows
    /\ ctl \in ControllerType
    /\ conf \in ConferenceStates
    /\ call \in [Users -> BOOLEAN]
    /\ commands \in 0..MaxCommands
    /\ asked \in 0..MaxUsers
    /\ \A u \in Users, r \in References :
           Linked(ctl, u, r) => ctl.refs[u][r] \notin {"none", "gone"}

(* The queue never waits for something that was not started: the         *)
(* operation in front has been, and what brings its event is there to    *)
(* bring it (a call being set up, a REFER that lives, an answer pending, *)
(* a subscription that notifies), or has been lost in one of the ways of *)
(* Lost, and in no other.                                                *)
UnderWay(o) ==
    CASE o.type = "CREATE_CONFERENCE_CALL" -> conf = "STARTING"
      [] o.type = "SUBSCRIBE" -> \/ ctl.eng \in {"CREATE", "REFRESH"}
                                 \/ flow = "notify_refer" /\ ctl.eng = "ACTIVE"
      [] o.type = "UNSUBSCRIBE" -> ctl.sub = "UNSUBSCRIBING" /\ ctl.eng \in PendingRequests
      [] o.type = "CHECK_CONNECTED" -> ctl.eng \in {"CREATE", "REFRESH", "ACTIVE"}
      [] o.type = "REFER_INVITE" -> ctl.refs[o.user]["invite"] \in {"sent", "accepted"}
      [] o.type = "REFER_BYE" -> ctl.refs[o.user]["bye"] = "sent"
      [] OTHER -> FALSE

(* No answer to SUBSCRIBE, or a subscription that ends before its first  *)
(* C-NOTIFY (after FAILED nothing waits for it); a subscription that     *)
(* ended, or could not be ended, under the operations that need one; the *)
(* end of a REFER without a code; and a REFER for BYE that could not be  *)
(* sent, which nobody checks.                                            *)
Lost(o) ==
    CASE o.type = "SUBSCRIBE" -> ctl.lost /\ ctl.sub # "none"
      [] o.type \in {"UNSUBSCRIBE", "CHECK_CONNECTED"} -> ctl.lost
      [] o.type = "REFER_INVITE" -> ctl.refs[o.user]["invite"] = "silent"
      [] o.type = "REFER_BYE" -> ctl.refs[o.user]["bye"] = "unsent"
      [] OTHER -> FALSE

FrontUnderWay ==
    IF ctl.queue = << >> THEN ~ctl.delay
    ELSE LET o == Head(ctl.queue)
         IN  /\ ctl.delay <=> o.delayed
             /\ o.delayed \/ UnderWay(o) \/ Lost(o)

(* A command gets one result: Merged, MergeFailed, Dropped or DropFailed *)
(* is told only while a command waits for it, whatever meets (the end of *)
(* the conference, a REFER that fails, the sipfrag timer), unless an     *)
(* event of a reference reached an operation it does not belong to.      *)
AnsweredOnce == ctl.twice => ctl.stale

(* The controller terminates the call with a member only when the REFER  *)
(* of this very member has been decided, not when another member's       *)
(* answer comes late.                                                    *)
OwnAnswer ==
    [][\A u \in Users :
         (call[u] /\ ~call'[u] /\ ctl'.queue # ctl.queue) =>
             \/ ctl'.stale
             \/ /\ FrontIs(ctl, "REFER_INVITE")
                /\ Head(ctl.queue).user = u
                /\ ctl'.part[u].in => ctl'.part[u].status \in {"connected", "disconnected"}]_vars

(* Once the conference has ended and its subscription is the next to go, *)
(* the controller is closed, whatever arrives meanwhile, with two        *)
(* exceptions: the failure of a REFER for BYE, which clears the queue    *)
(* with the operation that closes, and a subscription that UNSUBSCRIBE   *)
(* cannot end (lost): it fails on a wrong version, SUBSCRIBE has no      *)
(* answer, or UNSUBSCRIBE is refused.                                    *)
EndedCloses ==
    (/\ conf = "ENDED"
     /\ FrontIs(ctl, "UNSUBSCRIBE")
     /\ ctl.sub = "ACTIVE"
     /\ \A u \in Users : ctl.refs[u]["bye"] # "sent") ~> (ctl.closed \/ ctl.lost)
=============================================================================
