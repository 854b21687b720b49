-------------------------- MODULE AbortPollerProofs --------------------------
(***************************************************************************)
(* Proofs about the abort hotkey, for any number of requests, chains and   *)
(* poller starts.  Without ResetAbortChannel (no caller outside the tests) *)
(* a running chain can always be reached by the next press, and the press  *)
(* is a broadcast: the poller implements AbortSignal.  While set_config    *)
(* requests come one at a time, the saved settings are the ones in force,  *)
(* and what chain_abort answers is so.                                     *)
(***************************************************************************)
EXTENDS AbortTool, TLAPS

\* Channels are numbered in the order they are made.
ChannelsMade ==
    /\ abortCh <= madeCh
    /\ closedCh \subseteq 1..madeCh
    /\ \A c \in Chains : chainCh[c] <= madeCh

\* A poller past its test for a nil channel holds a channel.
PollerHoldsChannel ==
    \A p \in Pollers : poller[p].pc \in {"close", "closing"} => poller[p].ch # 0

\* PressNotLost and ChannelsMade are what RunningChainsReachable needs of the
\* steps that close and make channels.
IInv ==
    /\ AbortTypeOK
    /\ ChannelsMade
    /\ PollerHoldsChannel
    /\ RunningChainsReachable
    /\ PressNotLost

USE BoundsAssumption, MainAssumption DEF BoundsAssumption, MainAssumption

LEMMA InitInv == AbortInit => IInv
<1> SUFFICES ASSUME AbortInit PROVE IInv
  OBVIOUS
<1> USE DEF AbortInit, Config
<1>1. AbortTypeOK
  <2>1. cfg.keys \in Combos /\ cfg.ms \in Intervals /\ starts \in 0..MaxStarts
    OBVIOUS
  <2>2. request \in [Callers -> CallState]
    BY <2>1 DEF CallState
  <2>3. poller \in [Pollers -> PollerState]
    BY <2>1 DEF PollerState
  <2>4. cfg \in Config /\ panicked \in BOOLEAN
    OBVIOUS
  <2>5. closedCh \in SUBSET (1..MaxChans) /\ closedStop \in SUBSET Pollers
    OBVIOUS
  <2>6. chainCh \in [Chains -> 0..MaxChans] /\ down \in SUBSET Combos
    OBVIOUS
  <2>7. abortCh \in 0..MaxChans /\ abortStop \in 0..MaxStarts /\ madeCh \in 0..MaxChans
    OBVIOUS
  <2>8. QED
    BY <2>1, <2>2, <2>3, <2>4, <2>5, <2>6, <2>7 DEF AbortTypeOK
<1>2. ChannelsMade /\ PollerHoldsChannel /\ RunningChainsReachable /\ PressNotLost
  BY DEF ChannelsMade, PollerHoldsChannel, RunningChainsReachable, PressNotLost, Running,
         Pollers
<1>3. QED
  BY <1>1, <1>2 DEF IInv

\* The steps of set_config requests leave the abort channels, the chains and
\* the pollers past their test alone.
LEMMA CallerInv ==
    ASSUME IInv, NEW r \in Callers,
           \/ r \in SetRequests /\ SetConfig(r) /\ UNCHANGED panicked
           \/ Callee(r)
    PROVE  IInv'
<1> USE DEF IInv
<1>1. CASE SetConfig(r) /\ UNCHANGED panicked
  <2>1. cfg' \in Config /\ starts' \in 0..MaxStarts /\ request' \in [Callers -> CallState]
    <3>0. ASSUME NEW c \in Config, BeginStart(r, c)
          PROVE  cfg' \in Config /\ starts' \in 0..MaxStarts /\ request' \in [Callers -> CallState]
      <4>1. starts + 1 \in 0..MaxStarts
        BY <3>0 DEF BeginStart, AbortTypeOK
      <4>2. [pc |-> "stop", gen |-> starts + 1, keys |-> c.keys, ms |-> c.ms] \in CallState
        BY <4>1 DEF Config, CallState
      <4>3. QED
        BY <3>0, <4>1, <4>2 DEF BeginStart, AbortTypeOK
    <3>1. CASE SetConfigEnable(r)
      <4>1. [cfg EXCEPT !.enabled = TRUE] \in Config
        BY DEF AbortTypeOK, Config
      <4>2. QED
        BY <3>0, <3>1, <4>1 DEF SetConfigEnable
    <3>2. CASE SetConfigDisable(r)
      BY <1>1, <3>2 DEF SetConfigDisable, AbortTypeOK, Config, CallState, startVars
    <3>3. CASE SetConfigChange(r)
      <4>1. CASE cfg.enabled
        BY <3>0, <3>3, <4>1 DEF SetConfigChange
      <4>2. CASE ~cfg.enabled
        BY <3>3, <4>2 DEF SetConfigChange, AbortTypeOK, startVars
      <4>3. QED
        BY <4>1, <4>2
    <3>4. QED
      BY <1>1, <3>1, <3>2, <3>3 DEF SetConfig
  <2>2. closedStop' = closedStop
    BY <1>1 DEF SetConfig, SetConfigEnable, SetConfigDisable, SetConfigChange, BeginStart,
                startVars
  <2>3. UNCHANGED <<abortCh, abortStop, abortKeys, abortPollMs, madeCh, closedCh, poller,
                    chainCh, down, panicked>>
    BY <1>1 DEF SetConfig, sharedVars, chanVars
  <2>4. QED
    BY <2>1, <2>2, <2>3 DEF AbortTypeOK, ChannelsMade, PollerHoldsChannel,
                            RunningChainsReachable, PressNotLost, Running
<1>2. CASE StopAbortPoller(r) /\ UNCHANGED panicked
  <2>1. request' \in [Callers -> CallState]
    BY <1>2 DEF StopAbortPoller, AbortTypeOK, CallState
  <2>2. closedStop' \in SUBSET Pollers /\ abortStop' \in 0..MaxStarts
    BY <1>2 DEF StopAbortPoller, AbortTypeOK, Pollers
  <2>3. AbortTypeOK'
    BY <1>2, <2>1, <2>2 DEF StopAbortPoller, AbortTypeOK, chanVars
  <2>4. QED
    BY <1>2, <2>3 DEF StopAbortPoller, chanVars, ChannelsMade, PollerHoldsChannel,
                      RunningChainsReachable, PressNotLost, Running
<1>3. CASE Install(r) /\ UNCHANGED panicked
  <2>1. AbortTypeOK'
    BY <1>3 DEF Install, AbortTypeOK, CallState, chanVars, startVars
  <2>2. QED
    BY <1>3, <2>1 DEF Install, chanVars, ChannelsMade, PollerHoldsChannel,
                      RunningChainsReachable, PressNotLost, Running
<1>4. CASE Spawn(r) /\ UNCHANGED panicked
  <2>1. AbortTypeOK'
    BY ZenonT(40), <1>4 DEF Spawn, AbortTypeOK, CallState, PollerState, sharedVars, chanVars, startVars
  <2>2. \A p \in Pollers : poller'[p] = poller[p] \/ poller'[p].pc = "start"
    BY <1>4 DEF Spawn, AbortTypeOK, PollerState
  <2>3. QED
    BY <1>4, <2>1, <2>2 DEF Spawn, sharedVars, chanVars, ChannelsMade, PollerHoldsChannel,
                            RunningChainsReachable, PressNotLost, Running
<1>5. QED
  BY <1>1, <1>2, <1>3, <1>4 DEF Callee

\* A polling goroutine only ever closes the channel in force, or one that is
\* closed already.
LEMMA PollInv ==
    ASSUME IInv, NEW p \in Pollers, Poll(p)
    PROVE  IInv'
<1> USE DEF IInv, PollerStep
<1>0. UNCHANGED <<abortCh, abortStop, abortKeys, abortPollMs, madeCh, starts, closedStop,
                  cfg, request, chainCh, down>>
  BY DEF Poll, MakeTicker, ReadStop, Tick, SeeStop, ReadAbortCh, TestAbortCh, CloseAbortCh,
         sharedVars, startVars
<1>1. poller' \in [Pollers -> PollerState]
  <2>1. CASE MakeTicker(p)
    BY <2>1 DEF MakeTicker, AbortTypeOK, PollerState
  <2>2. CASE ReadStop(p)
    BY ZenonT(40), <2>2 DEF ReadStop, AbortTypeOK, PollerState
  <2>3. CASE Tick(p)
    BY <2>3 DEF Tick, AbortTypeOK, PollerState
  <2>4. CASE SeeStop(p)
    BY <2>4 DEF SeeStop, AbortTypeOK, PollerState
  <2>5. CASE ReadAbortCh(p)
    BY ZenonT(40), <2>5 DEF ReadAbortCh, AbortTypeOK, PollerState
  <2>6. CASE TestAbortCh(p)
    BY <2>6 DEF TestAbortCh, AbortTypeOK, PollerState
  <2>7. CASE CloseAbortCh(p)
    BY <2>7 DEF CloseAbortCh, AbortTypeOK, PollerState
  <2>8. QED
    BY <2>1, <2>2, <2>3, <2>4, <2>5, <2>6, <2>7 DEF Poll
<1>2. \A q \in Pollers : q # p => poller'[q] = poller[q]
  BY DEF Poll, MakeTicker, ReadStop, Tick, SeeStop, ReadAbortCh, TestAbortCh, CloseAbortCh,
         AbortTypeOK
<1>3. CASE MakeTicker(p) \/ ReadStop(p) \/ Tick(p) \/ SeeStop(p)
  <2>1. poller'[p].pc \notin {"close", "closing"}
    <3>1. CASE MakeTicker(p)
      BY <3>1 DEF MakeTicker, AbortTypeOK
    <3>2. CASE ReadStop(p)
      BY <3>2 DEF ReadStop, AbortTypeOK
    <3>3. CASE Tick(p)
      BY <3>3 DEF Tick, AbortTypeOK
    <3>4. CASE SeeStop(p)
      BY <3>4 DEF SeeStop, AbortTypeOK
    <3>5. QED
      BY <1>3, <3>1, <3>2, <3>3, <3>4
  <2>2. UNCHANGED <<closedCh, panicked>>
    BY <1>3 DEF MakeTicker, ReadStop, Tick, SeeStop
  <2>3. QED
    BY <1>0, <1>1, <1>2, <2>1, <2>2 DEF AbortTypeOK, ChannelsMade, PollerHoldsChannel,
                                       RunningChainsReachable, PressNotLost, Running
<1>4. CASE ReadAbortCh(p)
  <2>1. /\ UNCHANGED <<closedCh, panicked>>
        /\ poller'[p].ch = abortCh
        /\ poller'[p].pc \in {"close", "closing"} => abortCh # 0
    BY <1>4 DEF ReadAbortCh, AbortTypeOK, PollerState
  <2>2. QED
    BY <1>0, <1>1, <1>2, <2>1 DEF AbortTypeOK, ChannelsMade, PollerHoldsChannel,
                                  RunningChainsReachable, PressNotLost, Running
<1>5. CASE TestAbortCh(p)
  <2>1. /\ UNCHANGED <<closedCh, panicked>>
        /\ poller[p].pc = "close" /\ poller'[p].ch = poller[p].ch
    BY <1>5 DEF TestAbortCh, AbortTypeOK, PollerState
  <2>2. QED
    BY <1>0, <1>1, <1>2, <2>1 DEF AbortTypeOK, ChannelsMade, PollerHoldsChannel,
                                  RunningChainsReachable, PressNotLost, Running
<1>6. CASE CloseAbortCh(p)
  <2>1. /\ poller[p].pc = "closing" /\ poller'[p].pc = "done"
        /\ closedCh' = closedCh \cup {poller[p].ch} /\ panicked' \in BOOLEAN
    BY <1>6 DEF CloseAbortCh, AbortTypeOK, PollerState
  <2>2. poller[p].ch \in 1..madeCh /\ poller[p].ch \in 1..MaxChans
    BY <2>1 DEF AbortTypeOK, PollerState, PollerHoldsChannel, PressNotLost, ChannelsMade
  <2>3. QED
    BY <1>0, <1>1, <1>2, <2>1, <2>2 DEF AbortTypeOK, ChannelsMade, PollerHoldsChannel,
                                        RunningChainsReachable, PressNotLost, Running
<1>7. QED
  BY <1>3, <1>4, <1>5, <1>6 DEF Poll

\* A chain that starts gets the channel in force; the old one is replaced only
\* when it is closed, so whoever holds it has been signalled.
LEMMA ChainInv ==
    ASSUME IInv, NEW c \in Chains,
           StartChain(c) \/ FinishChain(c) \/ AbortChain(c), UNCHANGED panicked
    PROVE  IInv'
<1> USE DEF IInv
<1>1. CASE StartChain(c)
  <2>1. /\ abortCh' \in 0..MaxChans /\ madeCh' \in 0..MaxChans /\ madeCh <= madeCh'
        /\ abortCh' <= madeCh' /\ chainCh' = [chainCh EXCEPT ![c] = abortCh']
        /\ abortCh' = abortCh \/ abortCh = 0 \/ abortCh \in closedCh
    BY <1>1 DEF StartChain, GetAbortChannel, NeedsFresh, AbortTypeOK, ChannelsMade
  <2>2. UNCHANGED <<abortStop, abortKeys, abortPollMs, closedCh, starts, closedStop, cfg,
                    request, poller, down>>
    BY <1>1 DEF StartChain, startVars
  <2>3. AbortTypeOK'
    BY <2>1, <2>2 DEF AbortTypeOK
  <2>4. ChannelsMade' /\ PollerHoldsChannel'
    BY <2>1, <2>2 DEF AbortTypeOK, ChannelsMade, PollerHoldsChannel
  <2>5. RunningChainsReachable'
    BY <2>1, <2>2 DEF AbortTypeOK, RunningChainsReachable, Running
  <2>6. PressNotLost'
    BY <2>1, <2>2 DEF AbortTypeOK, PressNotLost, PollerHoldsChannel
  <2>7. QED
    BY <2>3, <2>4, <2>5, <2>6
<1>2. CASE FinishChain(c) \/ AbortChain(c)
  <2>1. chainCh' = [chainCh EXCEPT ![c] = 0]
    BY <1>2 DEF FinishChain, AbortChain
  <2>2. UNCHANGED <<abortCh, abortStop, abortKeys, abortPollMs, madeCh, closedCh, starts,
                    closedStop, cfg, request, poller, down>>
    BY <1>2 DEF FinishChain, AbortChain, sharedVars, chanVars, startVars
  <2>3. QED
    BY <2>1, <2>2 DEF AbortTypeOK, ChannelsMade, PollerHoldsChannel, RunningChainsReachable,
                      PressNotLost, Running
<1>3. QED
  BY <1>1, <1>2

LEMMA NextInv ==
    ASSUME ResetUsed = FALSE, IInv, [AbortNext]_abortVars
    PROVE  IInv'
<1>1. CASE \E p \in Pollers : Poll(p)
  BY <1>1, PollInv
<1>2. CASE \E r \in Callers : Callee(r)
  BY <1>2, CallerInv
<1>3. CASE (\E r \in SetRequests : SetConfig(r)) /\ UNCHANGED panicked
  BY <1>3, CallerInv DEF Callers
<1>4. CASE /\ \E c \in Chains : StartChain(c) \/ FinishChain(c) \/ AbortChain(c)
           /\ UNCHANGED panicked
  BY <1>4, ChainInv
<1>5. CASE ResetAbortChannel
  BY <1>5 DEF ResetAbortChannel
<1>6. CASE HoldOrRelease /\ UNCHANGED panicked
  BY <1>6 DEF HoldOrRelease, IInv, AbortTypeOK, ChannelsMade, PollerHoldsChannel,
              RunningChainsReachable, PressNotLost, Running, sharedVars, chanVars, startVars
<1>7. CASE UNCHANGED abortVars
  BY <1>7 DEF abortVars, IInv, AbortTypeOK, ChannelsMade, PollerHoldsChannel,
              RunningChainsReachable, PressNotLost, Running, sharedVars, chanVars, startVars
<1>8. QED
  BY <1>1, <1>2, <1>3, <1>4, <1>5, <1>6, <1>7 DEF AbortNext

LEMMA InvHolds ==
    ASSUME ResetUsed = FALSE
    PROVE  AbortSpec => []IInv
<1>1. AbortInit => IInv
  BY InitInv
<1>2. IInv /\ [AbortNext]_abortVars => IInv'
  BY NextInv
<1>3. QED
  BY <1>1, <1>2, PTL DEF AbortSpec

\* Every variable keeps its type: no channel is closed, or waited on, that was
\* never made.
THEOREM TypeCorrect ==
    ASSUME ResetUsed = FALSE
    PROVE  AbortSpec => []AbortTypeOK
<1>1. IInv => AbortTypeOK
  BY DEF IInv
<1>2. QED
  BY <1>1, InvHolds, PTL

\* Every running chain holds the channel the next press closes, or one that is
\* closed already (GetAbortChannel, chainabort.go).
THEOREM ChainsReachable ==
    ASSUME ResetUsed = FALSE
    PROVE  AbortSpec => []RunningChainsReachable
<1>1. IInv => RunningChainsReachable
  BY DEF IInv
<1>2. QED
  BY <1>1, InvHolds, PTL

\* A press seen by a poller is never spent on a channel that was replaced
\* (abortPollLoop, chainabort.go).
THEOREM PressKept ==
    ASSUME ResetUsed = FALSE
    PROVE  AbortSpec => []PressNotLost
<1>1. IInv => PressNotLost
  BY DEF IInv
<1>2. QED
  BY <1>1, InvHolds, PTL

-----------------------------------------------------------------------------
(* The poller implements AbortSignal: closing the channel is the broadcast,  *)
(* and every other step begins or ends one chain or stutters.                *)

RunningNow == {c \in Chains : Running(c)}
DoomedNow == {c \in Chains : Running(c) /\ chainCh[c] \in closedCh}

LEMMA SignalInit == AbortInit => Signal!Init
BY DEF AbortInit, Signal!Init, Running

LEMMA SignalStutter ==
    ASSUME UNCHANGED <<chainCh, closedCh>>
    PROVE  UNCHANGED Signal!svars
BY DEF Signal!svars, Running

LEMMA SignalNext ==
    ASSUME ResetUsed = FALSE, IInv, [AbortNext]_abortVars
    PROVE  [Signal!Next]_(Signal!svars)
<1>1. CASE \E p \in Pollers : Poll(p)
  <2> PICK p \in Pollers : Poll(p)
    BY <1>1
  <2>1. CASE CloseAbortCh(p)
    <3>1. chainCh' = chainCh /\ closedCh' = closedCh \cup {poller[p].ch}
      BY <2>1 DEF CloseAbortCh, PollerStep
    <3>2. poller[p].ch = abortCh \/ poller[p].ch \in closedCh
      BY <2>1 DEF CloseAbortCh, PollerStep, IInv, PressNotLost
    <3>3. CASE poller[p].ch \in closedCh
      BY <3>1, <3>3, SignalStutter
    <3>4. CASE poller[p].ch = abortCh
      <4>1. RunningNow' = RunningNow
        BY <3>1 DEF RunningNow, Running
      <4>2. DoomedNow' = RunningNow
        BY <3>1, <3>4 DEF RunningNow, DoomedNow, Running, IInv, RunningChainsReachable
      <4>3. QED
        BY <4>1, <4>2 DEF Signal!Next, Signal!Signal, RunningNow, DoomedNow
    <3>5. QED
      BY <3>2, <3>3, <3>4
  <2>2. CASE ~CloseAbortCh(p)
    <3>1. UNCHANGED <<chainCh, closedCh>>
      BY <2>2 DEF Poll, MakeTicker, ReadStop, Tick, SeeStop, ReadAbortCh, TestAbortCh,
                  PollerStep
    <3>2. QED
      BY <3>1, SignalStutter
  <2>3. QED
    BY <2>1, <2>2
<1>2. CASE \E c \in Chains : StartChain(c)
  <2> PICK c \in Chains : StartChain(c)
    BY <1>2
  <2>1. /\ chainCh' = [chainCh EXCEPT ![c] = abortCh'] /\ closedCh' = closedCh
        /\ abortCh' # 0 /\ abortCh' \notin closedCh
    BY DEF StartChain, GetAbortChannel, NeedsFresh, IInv, AbortTypeOK, ChannelsMade
  <2>2. ~Running(c)
    BY DEF StartChain
  <2>3. RunningNow' = RunningNow \cup {c} /\ DoomedNow' = DoomedNow
    BY <2>1, <2>2 DEF RunningNow, DoomedNow, Running, IInv, AbortTypeOK
  <2>4. QED
    BY <2>2, <2>3 DEF Signal!Next, Signal!Begin, RunningNow, DoomedNow
<1>3. CASE \E c \in Chains : FinishChain(c) \/ AbortChain(c)
  <2> PICK c \in Chains : FinishChain(c) \/ AbortChain(c)
    BY <1>3
  <2>1. /\ chainCh' = [chainCh EXCEPT ![c] = 0] /\ closedCh' = closedCh
        /\ Running(c)
    BY DEF FinishChain, AbortChain, chanVars
  <2>2. RunningNow' = RunningNow \ {c} /\ DoomedNow' = DoomedNow \ {c}
    BY <2>1 DEF RunningNow, DoomedNow, Running, IInv, AbortTypeOK
  <2>3. QED
    BY <2>1, <2>2 DEF Signal!Next, Signal!End, RunningNow, DoomedNow
<1>4. CASE \/ \E r \in Callers : Callee(r)
           \/ \E r \in SetRequests : SetConfig(r)
           \/ HoldOrRelease
           \/ UNCHANGED abortVars
  <2>1. UNCHANGED <<chainCh, closedCh>>
    BY <1>4 DEF Callee, StopAbortPoller, Install, Spawn, SetConfig, HoldOrRelease, abortVars,
                chanVars
  <2>2. QED
    BY <2>1, SignalStutter
<1>5. QED
  BY <1>1, <1>2, <1>3, <1>4 DEF AbortNext, ResetAbortChannel

\* A press reaches every chain running at that moment and none that starts
\* later: ExecuteChain and abortPollLoop implement the broadcast.
THEOREM ImplementsBroadcast ==
    ASSUME ResetUsed = FALSE
    PROVE  AbortSpec => BroadcastAbort
<1>1. AbortInit => Signal!Init
  BY SignalInit
<1>2. IInv /\ [AbortNext]_abortVars => [Signal!Next]_(Signal!svars)
  BY SignalNext
<1>3. QED
  BY <1>1, <1>2, InvHolds, PTL DEF AbortSpec, BroadcastAbort, Signal!Spec

-----------------------------------------------------------------------------
(* The settings in force, and what chain_abort answers.                      *)

\* At most one caller is inside InitAbortFromConfig or StopAbortPoller.
OneAtATime ==
    \A r, s \in Callers : request[r].pc # "idle" /\ request[s].pc # "idle" => r = s

\* How far a caller has brought the package variables to the configuration it was
\* called for.
CallerOnItsWay(r) ==
    /\ request[r].pc = "disable" => ~cfg.enabled
    /\ request[r].pc \in {"stop", "install", "spawn"} =>
          /\ cfg.enabled /\ request[r].gen # 0
          /\ request[r].keys = cfg.keys /\ request[r].ms = cfg.ms
    /\ request[r].pc = "spawn" =>
          abortStop = request[r].gen /\ abortKeys = cfg.keys /\ abortPollMs = cfg.ms

ConfigInv ==
    /\ IInv
    /\ \A r \in Callers : CallerOnItsWay(r)
    /\ ConfigInForce

LEMMA ConfigInit == AbortInit => ConfigInv
<1> SUFFICES ASSUME AbortInit PROVE ConfigInv
  OBVIOUS
<1>1. IInv
  BY InitInv
<1>2. /\ cfg.enabled \in BOOLEAN /\ starts = IF cfg.enabled THEN 1 ELSE 0
      /\ abortStop = 0 /\ abortKeys = cfg.keys /\ abortPollMs = cfg.ms
      /\ \A r \in Callers :
            /\ request[r].pc = IF r = Main /\ starts = 1 THEN "stop" ELSE "idle"
            /\ request[r].gen = IF r = Main THEN starts ELSE 0
            /\ request[r].keys = cfg.keys /\ request[r].ms = cfg.ms
  BY DEF AbortInit, Config
<1>3. \A r \in Callers : CallerOnItsWay(r)
  BY <1>2 DEF CallerOnItsWay
<1>4. ConfigInForce
  BY <1>2 DEF ConfigInForce, Idle, Callers
<1>5. QED
  BY <1>1, <1>3, <1>4 DEF ConfigInv

\* A set_config request leaves the package variables alone and, unless it only
\* writes a disabled configuration, is the one caller under way afterwards.
LEMMA SetConfigKeeps ==
    ASSUME ConfigInv, OneAtATime', NEW r \in SetRequests, SetConfig(r)
    PROVE  (\A s \in Callers : CallerOnItsWay(s)') /\ ConfigInForce'
<1> USE DEF ConfigInv, IInv
<1>0. /\ r \in Callers /\ request[r].pc = "idle" /\ UNCHANGED sharedVars
      /\ request \in [Callers -> CallState] /\ cfg \in Config /\ starts \in Nat
  BY DEF Callers, SetConfig, AbortTypeOK
<1>1. ASSUME NEW c \in Config, c.enabled, BeginStart(r, c)
      PROVE  (\A s \in Callers : CallerOnItsWay(s)') /\ ConfigInForce'
  <2>1. /\ cfg' = c
        /\ request'[r] = [pc |-> "stop", gen |-> starts + 1, keys |-> c.keys, ms |-> c.ms]
    BY <1>0, <1>1 DEF BeginStart
  <2>2. ~Idle' /\ \A s \in Callers : s # r => request'[s].pc = "idle"
    BY <1>0, <2>1 DEF Idle, OneAtATime
  <2>3. CallerOnItsWay(r)'
    BY <1>0, <1>1, <2>1 DEF CallerOnItsWay
  <2>4. QED
    BY <2>2, <2>3 DEF CallerOnItsWay, ConfigInForce
<1>2. CASE SetConfigEnable(r)
  <2>1. [cfg EXCEPT !.enabled = TRUE] \in Config /\ [cfg EXCEPT !.enabled = TRUE].enabled
    BY <1>0 DEF Config
  <2>2. QED
    BY <1>1, <1>2, <2>1 DEF SetConfigEnable
<1>3. CASE SetConfigDisable(r)
  <2>1. ~cfg'.enabled /\ request'[r].pc = "disable"
    BY <1>0, <1>3 DEF SetConfigDisable, Config, CallState
  <2>2. ~Idle' /\ \A s \in Callers : s # r => request'[s].pc = "idle"
    BY <1>0, <2>1 DEF Idle, OneAtATime
  <2>3. QED
    BY <2>1, <2>2 DEF CallerOnItsWay, ConfigInForce
<1>4. CASE SetConfigChange(r)
  <2>1. PICK c \in Config :
          /\ c.enabled = cfg.enabled
          /\ IF cfg.enabled THEN BeginStart(r, c) ELSE cfg' = c /\ UNCHANGED request
    BY <1>4 DEF SetConfigChange
  <2>2. CASE cfg.enabled
    BY <1>1, <2>1, <2>2
  <2>3. CASE ~cfg.enabled
    BY <1>0, <2>1, <2>3 DEF CallerOnItsWay, ConfigInForce, Idle, sharedVars
  <2>4. QED
    BY <2>2, <2>3
<1>5. QED
  BY <1>2, <1>3, <1>4 DEF SetConfig

\* Each step of the one caller under way brings the package variables closer.
LEMMA CalleeKeeps ==
    ASSUME ConfigInv, OneAtATime, NEW r \in Callers, Callee(r)
    PROVE  (\A s \in Callers : CallerOnItsWay(s)') /\ ConfigInForce'
<1> USE DEF ConfigInv, IInv
<1>0. /\ request[r].pc # "idle" /\ cfg' = cfg /\ request \in [Callers -> CallState]
      /\ CallerOnItsWay(r)
      /\ \A s \in Callers : s # r => request'[s] = request[s] /\ request[s].pc = "idle"
  BY DEF Callee, StopAbortPoller, Install, Spawn, OneAtATime, AbortTypeOK
<1>1. CASE StopAbortPoller(r)
  <2>1. /\ abortStop' = 0 /\ request[r].pc \in {"disable", "stop"}
        /\ request'[r] = [request[r] EXCEPT
                            !.pc = IF request[r].pc = "disable" THEN "idle" ELSE "install"]
    BY <1>0, <1>1 DEF StopAbortPoller
  <2>2. /\ request'[r].gen = request[r].gen /\ request'[r].keys = request[r].keys
        /\ request'[r].ms = request[r].ms
        /\ request'[r].pc = IF request[r].pc = "disable" THEN "idle" ELSE "install"
    BY <1>0, <2>1 DEF CallState
  <2>3. CallerOnItsWay(r)'
    BY <1>0, <2>1, <2>2 DEF CallerOnItsWay
  <2>4. ConfigInForce'
    BY <1>0, <2>1, <2>2 DEF CallerOnItsWay, ConfigInForce, Idle
  <2>5. QED
    BY <1>0, <2>3, <2>4 DEF CallerOnItsWay
<1>2. CASE Install(r)
  <2>1. /\ request[r].pc = "install" /\ request'[r] = [request[r] EXCEPT !.pc = "spawn"]
        /\ abortKeys' = request[r].keys /\ abortPollMs' = request[r].ms
        /\ abortStop' = request[r].gen
    BY <1>0, <1>2 DEF Install
  <2>2. /\ request'[r].gen = request[r].gen /\ request'[r].keys = request[r].keys
        /\ request'[r].ms = request[r].ms /\ request'[r].pc = "spawn"
    BY <1>0, <2>1 DEF CallState
  <2>3. CallerOnItsWay(r)'
    BY <1>0, <2>1, <2>2 DEF CallerOnItsWay
  <2>4. QED
    BY <1>0, <2>2, <2>3 DEF CallerOnItsWay, ConfigInForce, Idle
<1>3. CASE Spawn(r)
  <2>1. /\ request[r].pc = "spawn" /\ request'[r].pc = "idle" /\ UNCHANGED sharedVars
    BY <1>0, <1>3 DEF Spawn, CallState
  <2>2. ConfigInForce'
    BY <1>0, <2>1 DEF CallerOnItsWay, ConfigInForce, sharedVars
  <2>3. QED
    BY <1>0, <2>1, <2>2 DEF CallerOnItsWay
<1>4. QED
  BY <1>1, <1>2, <1>3 DEF Callee

LEMMA ConfigNext ==
    ASSUME ResetUsed = FALSE, ConfigInv, OneAtATime, OneAtATime', [AbortNext]_abortVars
    PROVE  ConfigInv'
<1>1. IInv'
  BY NextInv DEF ConfigInv
<1>2. CASE \E r \in SetRequests : SetConfig(r)
  BY <1>1, <1>2, SetConfigKeeps DEF ConfigInv
<1>3. CASE \E r \in Callers : Callee(r)
  BY <1>1, <1>3, CalleeKeeps DEF ConfigInv
<1>4. CASE \/ \E p \in Pollers : Poll(p)
           \/ \E c \in Chains : StartChain(c) \/ FinishChain(c) \/ AbortChain(c)
           \/ HoldOrRelease
           \/ UNCHANGED abortVars
  <2>1. UNCHANGED <<abortStop, abortKeys, abortPollMs, cfg, request>>
    BY <1>4 DEF Poll, MakeTicker, ReadStop, Tick, SeeStop, ReadAbortCh, TestAbortCh,
                CloseAbortCh, PollerStep, StartChain, FinishChain, AbortChain, HoldOrRelease,
                sharedVars, abortVars
  <2>2. QED
    BY <1>1, <2>1 DEF ConfigInv, CallerOnItsWay, ConfigInForce, Idle
<1>5. CASE ResetAbortChannel
  BY <1>5 DEF ResetAbortChannel
<1>6. QED
  BY <1>2, <1>3, <1>4, <1>5 DEF AbortNext

\* A channel chain_abort has reported closed is closed.
ReportsTrue ==
    /\ ToolTypeOK
    /\ \A ch \in 1..MaxChans : reports[ch] > 0 => ch \in closedCh

LEMMA ReportsInit == ToolInit => ReportsTrue
BY DEF ToolInit, ToolTypeOK, ReportsTrue

LEMMA ReportsNext ==
    ASSUME IInv, ReportsTrue, [ToolNext]_tvars
    PROVE  ReportsTrue'
<1> USE DEF ReportsTrue, ToolTypeOK
<1>1. CASE AbortNext /\ UNCHANGED <<check, reports>>
  <2>1. closedCh \subseteq closedCh'
    BY <1>1 DEF AbortNext, Callee, StopAbortPoller, Install, Spawn, SetConfig, Poll, MakeTicker,
                ReadStop, Tick, SeeStop, ReadAbortCh, TestAbortCh, CloseAbortCh, StartChain,
                FinishChain, AbortChain, ResetAbortChannel, HoldOrRelease, chanVars
  <2>2. QED
    BY <1>1, <2>1
<1>2. CASE CheckRead
  BY <1>2 DEF CheckRead, abortVars, chanVars, IInv, AbortTypeOK
<1>3. CASE CheckAnswer
  <2>1. closedCh' = closedCh /\ check' = 0
    BY <1>3 DEF CheckAnswer, abortVars, chanVars
  <2>2. CASE check \in closedCh /\ reports[check] < 2
    <3>1. reports' = [reports EXCEPT ![check] = reports[check] + 1] /\ check \in 1..MaxChans
      BY <1>3, <2>2 DEF CheckAnswer
    <3>2. reports[check] + 1 \in 0..2
      BY <2>2, <3>1
    <3>3. QED
      BY <2>1, <2>2, <3>1, <3>2
  <2>3. CASE ~(check \in closedCh /\ reports[check] < 2)
    BY <1>3, <2>1, <2>3 DEF CheckAnswer
  <2>4. QED
    BY <2>2, <2>3
<1>4. CASE UNCHANGED tvars
  BY <1>4 DEF tvars, abortVars, chanVars
<1>5. QED
  BY <1>1, <1>2, <1>3, <1>4 DEF ToolNext

LEMMA ToolStep == [ToolNext]_tvars => [AbortNext]_abortVars
BY DEF ToolNext, tvars, CheckRead, CheckAnswer

\* Every variable keeps its type beside the chain_abort tool (server.go).
THEOREM ToolTypeCorrect ==
    ASSUME ResetUsed = FALSE
    PROVE  ToolSpec => [](AbortTypeOK /\ ToolTypeOK)
<1>1. ToolInit => IInv /\ ReportsTrue
  BY InitInv, ReportsInit DEF ToolInit
<1>2. IInv /\ ReportsTrue /\ [ToolNext]_tvars => IInv' /\ ReportsTrue'
  BY NextInv, ReportsNext, ToolStep
<1>3. IInv /\ ReportsTrue => AbortTypeOK /\ ToolTypeOK
  BY DEF IInv, ReportsTrue
<1>4. QED
  BY <1>1, <1>2, <1>3, PTL DEF ToolSpec

\* As long as callers of InitAbortFromConfig and StopAbortPoller come one at a time,
\* the poller in force is the one configured, and chain_abort answering that the
\* channel in force is closed means that no running chain still waits for a signal
\* (chainabort.go, server.go chainAbortHandler).
THEOREM AbortToolAnswers ==
    ASSUME ResetUsed = FALSE
    PROVE  ToolSpec /\ []OneAtATime => []AbortAnswers
<1>1. ToolInit => ConfigInv /\ ReportsTrue
  BY ConfigInit, ReportsInit DEF ToolInit
<1>2. ConfigInv /\ ReportsTrue /\ OneAtATime /\ OneAtATime' /\ [ToolNext]_tvars
        => ConfigInv' /\ ReportsTrue'
  BY ConfigNext, ReportsNext, ToolStep DEF ConfigInv
<1>3. ConfigInv /\ ReportsTrue => AbortAnswers
  BY DEF ConfigInv, ReportsTrue, AbortAnswers, IInv, RunningChainsReachable
<1>4. QED
  BY <1>1, <1>2, <1>3, PTL DEF ToolSpec

\* Requests are served when server.New has started the poller, one set_config at a time.
OneClientInv ==
    request \in [Callers -> CallState]
    /\ (request[Main].pc # "idle" => \A r \in SetRequests : request[r].pc = "idle")

\* server.New starts the poller before requests are served, so one client that sends
\* one set_config at a time is enough for chain_abort to answer what is so, with no
\* assumption on how the callers interleave.
THEOREM OneClientAnswers ==
    ASSUME ResetUsed = FALSE, \A r, s \in SetRequests : r = s
    PROVE  ToolSpec => []AbortAnswers
<1>1. ToolInit => OneClientInv /\ IInv
  BY InitInv DEF ToolInit, AbortInit, OneClientInv, Callers, IInv, AbortTypeOK
<1>2. IInv /\ OneClientInv /\ [ToolNext]_tvars => IInv' /\ OneClientInv'
  <2> SUFFICES ASSUME IInv, OneClientInv, [ToolNext]_tvars PROVE IInv' /\ OneClientInv'
    OBVIOUS
  <2>1. IInv' /\ request' \in [Callers -> CallState] /\ [AbortNext]_abortVars
    BY NextInv, ToolStep DEF IInv, AbortTypeOK
  <2>2. CASE \E r \in SetRequests : SetConfig(r)
    <3>1. PICK r \in SetRequests : SetConfig(r)
      BY <2>2
    <3>2. r # Main /\ Main \in Callers
      BY DEF Callers
    <3>3. \/ UNCHANGED request
          \/ \E v : request' = [request EXCEPT ![r] = v]
      BY <3>1 DEF SetConfig, SetConfigEnable, SetConfigDisable, SetConfigChange, BeginStart
    <3>4. request'[Main] = request[Main] /\ request[Main].pc = "idle"
      BY <3>1, <3>2, <3>3 DEF SetConfig, OneClientInv
    <3>5. QED
      BY <2>1, <3>4 DEF OneClientInv
  <2>3. CASE \E r \in Callers : Callee(r)
    <3>1. PICK r \in Callers : Callee(r)
      BY <2>3
    <3>2. /\ request[r].pc # "idle"
          /\ \A s \in Callers : s # r => request'[s] = request[s]
      BY <3>1 DEF Callee, StopAbortPoller, Install, Spawn, OneClientInv
    <3>3. QED
      BY <2>1, <3>2 DEF OneClientInv, Callers
  <2>4. CASE UNCHANGED request
    BY <2>1, <2>4 DEF OneClientInv
  <2>5. QED
    BY <2>1, <2>2, <2>3, <2>4 DEF AbortNext, Poll, MakeTicker, ReadStop, Tick, SeeStop,
         ReadAbortCh, TestAbortCh, CloseAbortCh, PollerStep, StartChain, FinishChain, AbortChain,
         ResetAbortChannel, HoldOrRelease, abortVars
<1>3. OneClientInv => OneAtATime
  BY DEF OneClientInv, OneAtATime, Callers
<1>4. QED
  BY <1>1, <1>2, <1>3, AbortToolAnswers, PTL DEF ToolSpec
=============================================================================
