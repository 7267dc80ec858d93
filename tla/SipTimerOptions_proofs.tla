----------------------- MODULE SipTimerOptions_proofs -----------------------
(***************************************************************************)
(* How far the mismatch between the engine's bits and the transaction layer's   *)
(* masks is harmless, after any sequence of calls.  The values of a transaction  *)
(* are updated once, from the configuration, so that what they are follows from  *)
(* the values given then; only a server's may still be changed in between.      *)
(***************************************************************************)
EXTENDS SipTimerOptions, TLAPS

\* The values before and after the single update.
UpdatedOnce ==
    /\ side \in {"idle", "server"} => values = Config
    /\ side \in {"client", "answered"} => values = UpdateSipTimers(Config, given)

IInv == TypeOK /\ UpdatedOnce

-----------------------------------------------------------------------------
\* Configuration values and the user's: an update takes a value from one of the two,
\* and the user's only where it was set.
LEMMA UpdateFacts ==
    ASSUME NEW g \in [EngineTimers -> Sources \ {"config"}], NEW t \in Timers
    PROVE  LET u == UpdateSipTimers(Config, g)[t]
           IN  /\ u \in Sources \ {"zero"}
               /\ u # "config" => t \in EngineTimers /\ g[t] # Unset
<1>1. Config[t] = "config"
  BY DEF Config
<1>2. /\ ContextValues(g)[t] \in Sources \ {"zero"}
      /\ ContextValues(g)[t] # "config" => t \in EngineTimers /\ g[t] # Unset
  BY DEF ContextValues, Sources, Unset
<1>3. UpdateSipTimers(Config, g)[t] \in {ContextValues(g)[t], Config[t]}
  BY DEF UpdateSipTimers
<1>. QED  BY <1>1, <1>2, <1>3 DEF Sources

LEMMA UpdateType ==
    ASSUME NEW g \in [EngineTimers -> Sources \ {"config"}]
    PROVE  UpdateSipTimers(Config, g) \in [Timers -> Sources \ {"zero"}]
<1>1. UpdateSipTimers(Config, g) = [t \in Timers |-> UpdateSipTimers(Config, g)[t]]
  BY DEF UpdateSipTimers
<1>. QED  BY <1>1, UpdateFacts

\* With every timer set the engine's nine bits are all there, and they meet the masks
\* of the timers that client transactions read.
LEMMA AllSet ==
    ASSUME NEW g \in [EngineTimers -> Sources \ {"config"}],
           \A t \in EngineTimers : g[t] # Unset,
           NEW t \in {"T1", "T2", "B", "D", "F", "K"}
    PROVE  UpdateSipTimers(Config, g)[t] = g[t]
<1>1. t \in EngineTimers /\ t \in Timers
  BY DEF EngineTimers, Timers
<1>2. /\ EngineBit["T1"] = 0 /\ EngineBit["T2"] = 1 /\ EngineBit["F"] = 4
      /\ EngineBit["H"] = 5 /\ EngineBit["J"] = 7
  BY DEF EngineBit, EngineTimers
<1>3. \A u \in EngineTimers : EngineBit[u] \in ContextOptions(g)
  BY DEF ContextOptions
<1>4. {0, 1, 4, 5, 7} \subseteq ContextOptions(g)
  BY <1>2, <1>3 DEF EngineTimers
<1>5. StackMask(t) \cap {0, 1, 4, 5, 7} # {}
  BY DEF StackMask
<1>6. UpdateSipTimers(Config, g)[t] = ContextValues(g)[t]
  BY <1>1, <1>4, <1>5 DEF UpdateSipTimers
<1>7. ContextValues(g)[t] = g[t]
  BY <1>1 DEF ContextValues
<1>. QED  BY <1>6, <1>7

LEMMA ConfigType == Config \in [Timers -> Sources \ {"zero"}]
BY DEF Config, Sources

-----------------------------------------------------------------------------
LEMMA Initial == Init => IInv
BY ConfigType DEF Init, IInv, TypeOK, UpdatedOnce, Unset, Sources

LEMMA Inductive == IInv /\ [Next]_vars => IInv'
<1>. SUFFICES ASSUME IInv, [Next]_vars PROVE IInv'
  OBVIOUS
<1>. USE DEF IInv, TypeOK, UpdatedOnce
<1>a. ASSUME NEW t \in EngineTimers, SetValue(t) PROVE IInv'
  BY <1>a DEF SetValue, Sources
<1>b. CASE SendRequest
  BY <1>b, UpdateType DEF SendRequest
<1>c. CASE RecvRequest
  BY <1>c, ConfigType DEF RecvRequest
<1>d. ASSUME NEW adjusted \in BOOLEAN, SendResponse(adjusted) PROVE IInv'
  <2>. DEFINE g == IF adjusted THEN [given EXCEPT !["H"] = "2xx"] ELSE given
  <2>1. /\ given' = g /\ side' = "answered" /\ values' = UpdateSipTimers(Config, g)
    BY <1>d DEF SendResponse
  <2>2. g \in [EngineTimers -> Sources \ {"config"}]
    BY DEF Sources
  <2>. QED  BY <2>1, <2>2, UpdateType
<1>e. CASE UNCHANGED vars
  BY <1>e DEF vars
<1>. QED  BY <1>a, <1>b, <1>c, <1>d, <1>e DEF Next

-----------------------------------------------------------------------------
\* The values of a connection's transaction are those of a single update, after any
\* sequence of SetTimerValues, requests and responses.
THEOREM Invariance == Spec => []IInv
BY Initial, Inductive, PTL DEF Spec

\* The connection's values, its side and the transaction's values keep their types.
THEOREM TypeCorrect == Spec => []TypeOK
BY Invariance, PTL DEF IInv

\* A timer that nobody set keeps its configured value, whatever options reach
\* UpdateSipTimers (SipStack::SetTimerValues, SipTxn::UpdateSipTimers).
THEOREM UnsetKept == Spec => []UnsetKeepsConfig
<1>1. IInv => UnsetKeepsConfig
  <2>. SUFFICES ASSUME IInv, NEW t \in Timers, values[t] # "config"
                PROVE  t \in EngineTimers /\ IsSet(t)
    BY DEF UnsetKeepsConfig
  <2>1. values = Config \/ values = UpdateSipTimers(Config, given)
    BY DEF IInv, TypeOK, UpdatedOnce
  <2>2. values # Config
    BY DEF Config
  <2>. QED  BY <2>1, <2>2, UpdateFacts DEF IInv, TypeOK, IsSet
<1>. QED  BY <1>1, Invariance, PTL

\* With every timer set, a client transaction runs with the user's timers
\* (SipTimerValuesHelper, SipTxnInvCliFsm.cpp, SipTxnNonInvCliFsm.cpp).
THEOREM ClientTimers == Spec => []ClientTimersApply
<1>1. IInv => ClientTimersApply
  <2>. SUFFICES ASSUME IInv, side = "client", \A t \in EngineTimers : IsSet(t),
                       NEW t \in {"T1", "T2", "B", "D", "F", "K"}
                PROVE  values[t] = given[t]
    BY DEF ClientTimersApply
  <2>. QED  BY AllSet DEF IInv, TypeOK, UpdatedOnce, IsSet
<1>. QED  BY <1>1, Invariance, PTL
=============================================================================
