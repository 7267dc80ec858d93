-------------------------- MODULE SipTimerOptions ---------------------------
(***************************************************************************)
(* How the timer values a connection is given reach its transaction: the      *)
(* engine's SipTimerValues, the SipTimerContext that SipStack::SetTimerValues  *)
(* fills from it, and the SipTxnTimerValues of the transaction, which copies   *)
(* from the context what UpdateSipTimers finds in the options.              *)
(*                                                                         *)
(* Engine and transaction layer number the timers differently, so the         *)
(* options are modelled as the sets of bits they are.  A value is told apart   *)
(* only by who chose it.                                                    *)
(***************************************************************************)
EXTENDS Integers

VARIABLES
    given,      \* m_pTimerValues of the connection: who set which timer
    side,       \* what the connection has done: "idle", or its transaction's side
    values      \* the transaction's timer values

vars == <<given, side, values>>

EngineTimers == {"T1", "T2", "B", "D", "F", "H", "I", "J", "K"}
Timers == EngineTimers \cup {"T4", "A", "E", "G"}

\* "config": the global SipConfiguration; "user": SetTransactionTimerValues;
\* "2xx": AdjustTimerHFor2xx; "zero": the GetValue of a timer that is not set.
Sources == {"config", "user", "2xx", "zero"}
Unset == "zero"
Config == [t \in Timers |-> "config"]

IsSet(t) == given[t] # Unset

Init ==
    /\ given = [t \in EngineTimers |-> Unset]
    /\ side = "idle"
    /\ values = Config

-----------------------------------------------------------------------------
\* The bits of SipTimerValues::TIMER_x, and of the masks that UpdateSipTimers tests:
\* TV_x, except that timer K is tested with the enumerator SipTxn::TIMER_K = 13.
EngineBit ==
    [t \in EngineTimers |->
        CASE t = "T1" -> 0 [] t = "T2" -> 1 [] t = "B" -> 2 [] t = "D" -> 3
          [] t = "F" -> 4 [] t = "H" -> 5 [] t = "I" -> 6 [] t = "J" -> 7 [] t = "K" -> 8]

MaskAsDeclared(t) ==  \* wrong here: TV_TIMER_K, which no bit of the engine reaches
    CASE t = "T1" -> {0} [] t = "T2" -> {1} [] t = "T4" -> {2} [] t = "A" -> {3}
      [] t = "B" -> {4} [] t = "D" -> {5} [] t = "E" -> {6} [] t = "F" -> {7}
      [] t = "G" -> {8} [] t = "H" -> {9} [] t = "I" -> {10} [] t = "J" -> {11} [] t = "K" -> {12}
StackMask(t) ==
    CASE t = "T1" -> {0} [] t = "T2" -> {1} [] t = "T4" -> {2} [] t = "A" -> {3}
      [] t = "B" -> {4} [] t = "D" -> {5} [] t = "E" -> {6} [] t = "F" -> {7}
      [] t = "G" -> {8} [] t = "H" -> {9} [] t = "I" -> {10} [] t = "J" -> {11} [] t = "K" -> {0, 2, 3}

(***************************************************************************)
(* SipStack::SetTimerValues: a context starts with the global values and no   *)
(* options; every timer that is set overwrites one and adds its engine bit.   *)
(***************************************************************************)
ContextOptions(g) == {EngineBit[t] : t \in {u \in EngineTimers : g[u] # Unset}}
ContextAlways(g) ==  \* wrong: without the IsSet test
    [t \in Timers |-> IF t \in EngineTimers THEN g[t] ELSE "config"]
ContextValues(g) ==
    [t \in Timers |-> IF t \in EngineTimers /\ g[t] # Unset THEN g[t] ELSE "config"]

UpdateSipTimers(v, g) ==
    [t \in Timers |->
        IF StackMask(t) \cap ContextOptions(g) # {} THEN ContextValues(g)[t] ELSE v[t]]

-----------------------------------------------------------------------------
\* The user of the connection chooses a value before anything is sent.
SetValue(t) ==
    /\ side \in {"idle", "server"}
    /\ given' = [given EXCEPT ![t] = "user"]
    /\ UNCHANGED <<side, values>>

\* The constructor of a client transaction applies the context of the request.
SendRequest ==
    /\ side = "idle"
    /\ side' = "client"
    /\ values' = UpdateSipTimers(Config, given)
    /\ UNCHANGED given

\* A request arrives with a context of its own, in which nothing is set.
RecvRequest ==
    /\ side = "idle"
    /\ side' = "server"
    /\ values' = Config
    /\ UNCHANGED given

\* A response: HandleServerTxnSend updates the timers first.  Before that a carrier
\* may want timer H of a 2xx to an INVITE adjusted to 64 * T1 (AdjustTimerHFor2xx).
SendResponse(adjusted) ==
    LET g == IF adjusted THEN [given EXCEPT !["H"] = "2xx"] ELSE given
    IN
    /\ side = "server"
    /\ side' = "answered"
    /\ given' = g
    /\ values' = UpdateSipTimers(values, g)

Next ==
    \/ \E t \in EngineTimers : SetValue(t)
    \/ SendRequest
    \/ RecvRequest
    \/ \E adjusted \in BOOLEAN : SendResponse(adjusted)

Spec == Init /\ [][Next]_vars

-----------------------------------------------------------------------------
(***************************************************************************)
(* Properties.                                                             *)
(***************************************************************************)

\* Type invariant of the three objects.
TypeOK ==
    /\ given \in [EngineTimers -> Sources \ {"config"}]
    /\ side \in {"idle", "client", "server", "answered"}
    /\ values \in [Timers -> Sources \ {"zero"}]

Sent == side \in {"client", "answered"}

\* A timer that nobody set keeps the value of the global configuration, although the
\* options that SetTimerValues builds name other timers than UpdateSipTimers reads:
\* the context holds the configuration where nothing was set.
UnsetKeepsConfig ==
    \A t \in Timers : values[t] # "config" => t \in EngineTimers /\ IsSet(t)

\* When every timer is set, as SipTimerValuesHelper does, the timers that client
\* transactions read are the user's (SipTxnInvCliFsm.cpp, SipTxnNonInvCliFsm.cpp): the
\* bits meant for other timers reach them.
ClientTimersApply ==
    side = "client" /\ (\A t \in EngineTimers : IsSet(t)) =>
        \A t \in {"T1", "T2", "B", "D", "F", "K"} : values[t] = given[t]

\* Every timer that is set is the one the transaction uses: SipTimerValues.h calls
\* them the SIP transaction timer values which are set by the application.
SetTimersApply == Sent => \A t \in EngineTimers : IsSet(t) => values[t] = given[t]
=============================================================================
