----------------------------- MODULE ClientTxn -----------------------------
(***************************************************************************)
(* What a client transaction promises the user that started it, INVITE or    *)
(* not: it waits, the user hears of one outcome at most, a final response or  *)
(* a timeout, and only while it waits; then it is over, once and for good.   *)
(* The user may also hear of nothing: it gave up, or the transport failed.   *)
(***************************************************************************)
EXTENDS Naturals

VARIABLES
    phase,      \* "idle", "waiting", "answered" (kept to absorb copies) or "over"
    answers,    \* final responses the user has heard of
    timeouts    \* timeouts it has heard of

vars == <<phase, answers, timeouts>>

Init == phase = "idle" /\ answers = 0 /\ timeouts = 0

Begin == phase = "idle" /\ phase' = "waiting" /\ UNCHANGED <<answers, timeouts>>

\* The request could not be sent at all.
Fail == phase = "idle" /\ phase' = "over" /\ UNCHANGED <<answers, timeouts>>

Answer ==
    /\ phase = "waiting"
    /\ phase' \in {"answered", "over"}
    /\ answers' = answers + 1
    /\ UNCHANGED timeouts

Timeout ==
    /\ phase = "waiting"
    /\ phase' = "over"
    /\ timeouts' = timeouts + 1
    /\ UNCHANGED answers

End ==
    /\ phase \in {"waiting", "answered"}
    /\ phase' = "over"
    /\ UNCHANGED <<answers, timeouts>>

Next == Begin \/ Fail \/ Answer \/ Timeout \/ End

Spec == Init /\ [][Next]_vars
=============================================================================
