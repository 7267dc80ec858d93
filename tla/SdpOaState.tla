---------------------------- MODULE SdpOaState ------------------------------
(***************************************************************************)
(* The offer/answer state of a session (SdpOaState.cpp): which side owes an   *)
(* answer, the view in force and the view proposed.  A pure module: every      *)
(* method is an operator from state to state; Session composes them.          *)
(*                                                                         *)
(* A session description is a number, the identity of the offer it belongs to: *)
(* an answer carries the number of its offer.  Left out: malformed and         *)
(* unnegotiable answers, the last offer made and the peer view (input of the   *)
(* negotiation only), and reliable provisional responses, which an established *)
(* dialog does without.                                                      *)
(***************************************************************************)
EXTENDS Naturals

None == 0           \* no SDP, no view

States == {"IDLE", "OFFER_SENT", "OFFER_RECEIVED", "ESTABLISHED",
           "OFFER_CHANGE_SENT", "OFFER_CHANGE_RECEIVED"}
Modes == {"IDLE", "OFFERER", "ANSWERER"}

OaType == [st : States, cur : Nat, prop : Nat, mode : Modes,
           changed : BOOLEAN, progress : BOOLEAN]

Agreed(view) == [st |-> "ESTABLISHED", cur |-> view, prop |-> None, mode |-> "IDLE",
                 changed |-> FALSE, progress |-> FALSE]

Stable(st) == st \in {"IDLE", "ESTABLISHED"}
OfferSent(st) == st \in {"OFFER_SENT", "OFFER_CHANGE_SENT"}
OfferReceived(st) == st \in {"OFFER_RECEIVED", "OFFER_CHANGE_RECEIVED"}

-----------------------------------------------------------------------------
(***************************************************************************)
(* The two transition tables.  A trigger is the method of a request or the    *)
(* class of a response.                                                      *)
(***************************************************************************)
Triggers == {"INVITE", "ACK", "PRACK", "UPDATE", "SUCCESS", "FAILURE"}
Offering == {"INVITE", "PRACK", "UPDATE", "SUCCESS"}
Answering == {"ACK", "PRACK", "SUCCESS"}

OnSent(st, tr) ==
    CASE st = "IDLE" -> IF tr \in Offering THEN "OFFER_SENT" ELSE st
      [] st = "ESTABLISHED" -> IF tr \in Offering THEN "OFFER_CHANGE_SENT" ELSE st
      [] st = "OFFER_SENT" -> IF tr \in {"SUCCESS", "FAILURE"} THEN st ELSE "INVALID"
      [] st = "OFFER_CHANGE_SENT" -> IF tr = "SUCCESS" THEN st ELSE "INVALID"
      [] st = "OFFER_RECEIVED" -> IF tr \in Answering THEN "ESTABLISHED"
                                  ELSE IF tr = "FAILURE" THEN "IDLE" ELSE "INVALID"
      [] st = "OFFER_CHANGE_RECEIVED" -> IF tr \in Answering \cup {"FAILURE"}
                                         THEN "ESTABLISHED" ELSE "INVALID"

OnReceived(st, tr) ==
    CASE st = "IDLE" -> IF tr \in Offering THEN "OFFER_RECEIVED"
                        ELSE IF tr = "FAILURE" THEN st ELSE "INVALID"
      [] st = "ESTABLISHED" -> IF tr \in Offering THEN "OFFER_CHANGE_RECEIVED" ELSE st
      [] st = "OFFER_SENT" -> IF tr \in Answering THEN "ESTABLISHED"
                              ELSE IF tr = "FAILURE" THEN "IDLE" ELSE "INVALID"
      [] st = "OFFER_CHANGE_SENT" -> IF tr \in Answering \cup {"FAILURE"}
                                     THEN "ESTABLISHED" ELSE "INVALID"
      [] OfferReceived(st) -> IF tr \in {"INVITE", "ACK", "UPDATE"} THEN "INVALID" ELSE st

(***************************************************************************)
(* UpdateState.  A message counts if it carries SDP or fails its transaction.  *)
(* A 200 to an UPDATE that would be an offer is a stray answer.               *)
(***************************************************************************)
Counts(tr, sdp) == sdp # None \/ tr = "FAILURE"

SentUnchecked(oa, tr, sdp) ==  \* wrong: an invalid transition is taken
    IF ~Counts(tr, sdp) THEN oa
    ELSE [oa EXCEPT !.st = OnSent(oa.st, tr), !.changed = TRUE, !.progress = FALSE]
Sent(oa, tr, sdp) ==
    LET o == [oa EXCEPT !.changed = FALSE, !.progress = FALSE]
        to == OnSent(oa.st, tr)
    IN  IF ~Counts(tr, sdp) \/ to = "INVALID" THEN o
        ELSE [o EXCEPT !.st = to, !.changed = to # oa.st,
                       !.mode = IF OfferSent(to) THEN "OFFERER" ELSE @]

Stray(method, tr, to) == method = "UPDATE" /\ tr = "SUCCESS" /\ to = "OFFER_CHANGE_RECEIVED"

ReceivedBare(oa, method, tr, sdp) ==  \* wrong: a failure without SDP changes the session
    LET to == OnReceived(oa.st, tr) IN
    IF ~Counts(tr, sdp) \/ to = "INVALID" \/ Stray(method, tr, to) THEN oa
    ELSE [oa EXCEPT !.st = to, !.changed = to # oa.st,
                    !.mode = IF OfferReceived(to) THEN "ANSWERER" ELSE @]
Received(oa, method, tr, sdp) ==
    LET o == [oa EXCEPT !.changed = FALSE]
        to == OnReceived(oa.st, tr)
    IN  IF ~Counts(tr, sdp) \/ to = "INVALID" \/ Stray(method, tr, to) THEN o
        ELSE [o EXCEPT !.st = to, !.changed = to # oa.st /\ sdp # None,
                       !.mode = IF OfferReceived(to) THEN "ANSWERER" ELSE @]

-----------------------------------------------------------------------------
(***************************************************************************)
(* HandleOfferAnswer, once a received message has changed the state: an answer *)
(* becomes the proposal in place of the offer made; an offer is answered by a  *)
(* new proposal.                                                            *)
(***************************************************************************)
HandleOfferAnswer(oa, sdp) ==
    IF oa.changed /\ sdp # None /\ (oa.st = "ESTABLISHED" \/ OfferReceived(oa.st))
    THEN [oa EXCEPT !.prop = sdp] ELSE oa

CompleteExchangeKeeping(oa) ==  \* wrong: the proposal stays
    [oa EXCEPT !.cur = IF oa.st = "ESTABLISHED" /\ oa.prop # None THEN oa.prop ELSE @,
               !.mode = "IDLE", !.changed = FALSE]
CompleteExchange(oa) ==
    [oa EXCEPT !.cur = IF oa.st = "ESTABLISHED" /\ oa.prop # None THEN oa.prop ELSE @,
               !.prop = None, !.mode = "IDLE", !.changed = FALSE]

(* CreateProposalView and InitiateOffer: a proposal that is there already, or a *)
(* wrong state, leaves everything as it is.                                  *)
CreateProposal(oa, view) ==
    IF oa.prop # None \/ ~Stable(oa.st) THEN oa
    ELSE [oa EXCEPT !.prop = view, !.mode = "OFFERER", !.progress = TRUE]

GetSdp(oa) == IF OfferSent(oa.st) THEN None ELSE oa.prop

RestoreState(oa) ==
    [oa EXCEPT !.st = CASE @ \in {"OFFER_SENT", "OFFER_RECEIVED"} -> "IDLE"
                        [] @ \in {"OFFER_CHANGE_SENT", "OFFER_CHANGE_RECEIVED"} -> "ESTABLISHED"
                        [] OTHER -> @,
               !.prop = None, !.mode = "IDLE", !.changed = FALSE, !.progress = FALSE]
=============================================================================
