----------------------------- MODULE AbortPoller -----------------------------
(***************************************************************************)
(* internal/actions/chainabort.go: the goroutine that polls the abort      *)
(* hotkey, the shared abort channel, and their users: set_config requests  *)
(* (server.go) and chains taking the channel (chain.go).  A critical       *)
(* section of abortMu is one step; what happens between two of them can be *)
(* interleaved with everything else.                                       *)
(*                                                                         *)
(* Channels are numbers, 0 is nil.  A stop channel bears the number of the *)
(* StartAbortPoller call that made it, and so does the goroutine that call   *)
(* launches: Pollers = 1..MaxStarts.                                       *)
(***************************************************************************)
EXTENDS Naturals

CONSTANTS SetRequests,   \* set_config requests that can be in flight
          Chains,     \* chains that can be in flight
          Combos,     \* parsed hotkey combinations
          Intervals,  \* poll intervals
          MaxStarts,  \* bound: calls of StartAbortPoller in a behaviour
          MaxChans,   \* bound: abort channels made in a behaviour
          ResetUsed   \* whether ResetAbortChannel is called (only tests do)

ASSUME BoundsAssumption == MaxStarts \in Nat \ {0} /\ MaxChans \in Nat
ASSUME ResetAssumption == ResetUsed \in BOOLEAN

Main == "main"                       \* server.New, before requests are served
ASSUME MainAssumption == Main \notin SetRequests

Callers == SetRequests \cup {Main}
Pollers == 1..MaxStarts

VARIABLES
    abortCh, abortStop, abortKeys, abortPollMs,   \* the package variables
    madeCh, closedCh,       \* abort channels made so far; those closed
    starts, closedStop,     \* StartAbortPoller calls begun; closed stop channels
    cfg,                    \* ChainAbortEnabled, ChainAbortKeys, ChainAbortPollMs
    request,                   \* where each caller stands, and its arguments
    poller,                 \* the goroutines running abortPollLoop
    chainCh,                \* the channel each running chain holds, 0 if not running
    down,                   \* combinations physically held down
    panicked                \* close of a closed channel: the process is gone

sharedVars == <<abortCh, abortStop, abortKeys, abortPollMs>>
chanVars == <<madeCh, closedCh>>
startVars == <<starts, closedStop>>
abortVars == <<sharedVars, chanVars, startVars, cfg, request, poller, chainCh, down,
          panicked>>

Config == [enabled : BOOLEAN, keys : Combos, ms : Intervals]
CallState == [pc : {"idle", "disable", "stop", "install", "spawn"},
              gen : 0..MaxStarts, keys : Combos, ms : Intervals]
PollerState == [pc : {"none", "start", "read", "wait", "fire", "close", "closing", "done"},
                ms : Intervals, stop : 0..MaxStarts, keys : Combos, ch : 0..MaxChans]

AbortTypeOK ==
    /\ abortCh \in 0..MaxChans
    /\ abortStop \in 0..MaxStarts
    /\ abortKeys \in Combos
    /\ abortPollMs \in Intervals
    /\ madeCh \in 0..MaxChans
    /\ closedCh \in SUBSET (1..MaxChans)
    /\ starts \in 0..MaxStarts
    /\ closedStop \in SUBSET Pollers
    /\ cfg \in Config
    /\ request \in [Callers -> CallState]
    /\ poller \in [Pollers -> PollerState]
    /\ chainCh \in [Chains -> 0..MaxChans]
    /\ down \in SUBSET Combos
    /\ panicked \in BOOLEAN

-----------------------------------------------------------------------------
Live(p) == poller[p].pc \notin {"none", "done"}
Running(c) == chainCh[c] # 0
Idle == \A r \in Callers : request[r].pc = "idle"

\* server.New runs InitAbortFromConfig, as the first of the callers, when the
\* loaded configuration enables the hotkey.
AbortInit ==
    /\ cfg \in Config
    /\ abortCh = 0 /\ abortStop = 0
    /\ abortKeys = cfg.keys /\ abortPollMs = cfg.ms
    /\ madeCh = 0 /\ closedCh = {}
    /\ closedStop = {}
    /\ starts = IF cfg.enabled THEN 1 ELSE 0
    /\ request = [r \in Callers |->
                 [pc |-> IF r = Main /\ starts = 1 THEN "stop" ELSE "idle",
                  gen |-> IF r = Main THEN starts ELSE 0,
                  keys |-> cfg.keys, ms |-> cfg.ms]]
    /\ poller = [p \in Pollers |-> [pc |-> "none", ms |-> cfg.ms, stop |-> 0,
                                    keys |-> cfg.keys, ch |-> 0]]
    /\ chainCh = [c \in Chains |-> 0]
    /\ down = {}
    /\ panicked = FALSE

-----------------------------------------------------------------------------
(* set_config: the handler writes ActiveConfig without a lock, then calls   *)
(* InitAbortFromConfig or StopAbortPoller.                                  *)

BeginStart(r, c) ==
    /\ starts < MaxStarts
    /\ starts' = starts + 1
    /\ cfg' = c
    /\ request' = [request EXCEPT ![r] = [pc |-> "stop", gen |-> starts + 1,
                                    keys |-> c.keys, ms |-> c.ms]]
    /\ UNCHANGED closedStop

SetConfigEnable(r) ==
    /\ ~cfg.enabled
    /\ BeginStart(r, [cfg EXCEPT !.enabled = TRUE])

SetConfigDisableOnly(r) ==   \* mutant: the poller is left running
    /\ cfg.enabled
    /\ cfg' = [cfg EXCEPT !.enabled = FALSE]
    /\ UNCHANGED <<request, startVars>>

SetConfigDisable(r) ==
    /\ cfg.enabled
    /\ cfg' = [cfg EXCEPT !.enabled = FALSE]
    /\ request' = [request EXCEPT ![r].pc = "disable"]
    /\ UNCHANGED startVars

\* chain_abort_keys or chain_abort_poll_ms: the poller is restarted only when
\* the value is new and the hotkey is enabled.
SetConfigChange(r) ==
    \E c \in Config :
        /\ c.enabled = cfg.enabled
        /\ \/ c.keys # cfg.keys /\ c.ms = cfg.ms
           \/ c.ms # cfg.ms /\ c.keys = cfg.keys
        /\ IF cfg.enabled
             THEN BeginStart(r, c)
             ELSE cfg' = c /\ UNCHANGED <<startVars, request>>

SetConfig(r) ==
    /\ r \in SetRequests
    /\ request[r].pc = "idle" /\ request[Main].pc = "idle"
    /\ SetConfigEnable(r) \/ SetConfigDisable(r) \/ SetConfigChange(r)
    /\ UNCHANGED <<sharedVars, chanVars, poller, chainCh, down>>

\* StopAbortPoller, on its own (disable) or as the first thing a start does.
StopAbortPoller(r) ==
    /\ request[r].pc \in {"disable", "stop"}
    /\ closedStop' = IF abortStop = 0 THEN closedStop ELSE closedStop \cup {abortStop}
    /\ abortStop' = 0
    /\ request' = [request EXCEPT ![r].pc = IF @ = "disable" THEN "idle" ELSE "install"]
    /\ UNCHANGED <<abortCh, abortKeys, abortPollMs, chanVars, starts, cfg, poller,
                   chainCh, down>>

\* The second critical section of StartAbortPoller.
Install(r) ==
    /\ request[r].pc = "install"
    /\ abortKeys' = request[r].keys
    /\ abortPollMs' = request[r].ms
    /\ abortStop' = request[r].gen
    /\ request' = [request EXCEPT ![r].pc = "spawn"]
    /\ UNCHANGED <<abortCh, chanVars, startVars, cfg, poller, chainCh, down>>

\* go abortPollLoop()
Spawn(r) ==
    /\ request[r].pc = "spawn"
    /\ poller' = [poller EXCEPT ![request[r].gen].pc = "start"]
    /\ request' = [request EXCEPT ![r].pc = "idle"]
    /\ UNCHANGED <<sharedVars, chanVars, startVars, cfg, chainCh, down>>

-----------------------------------------------------------------------------
(* abortPollLoop                                                            *)

PollerStep(p, from, new) ==
    /\ poller[p].pc = from
    /\ poller' = [poller EXCEPT ![p] = new]
    /\ UNCHANGED <<sharedVars, madeCh, startVars, cfg, request, chainCh, down>>

\* The ticker is made from abortPollMs, read without the lock, and never remade.
MakeTicker(p) ==
    /\ PollerStep(p, "start", [poller[p] EXCEPT !.pc = "read", !.ms = abortPollMs])
    /\ UNCHANGED <<closedCh, panicked>>

\* Every round re-reads the package variables: stop may be another generation's.
ReadStopOnce(p) ==   \* mutant: the stop channel is read in the first round only
    /\ PollerStep(p, "read",
                  [poller[p] EXCEPT !.pc = IF abortStop = 0 /\ poller[p].stop = 0
                                             THEN "done" ELSE "wait",
                                    !.stop = IF @ = 0 THEN abortStop ELSE @,
                                    !.keys = abortKeys])
    /\ UNCHANGED <<closedCh, panicked>>

ReadStop(p) ==
    /\ PollerStep(p, "read",
                  [poller[p] EXCEPT !.pc = IF abortStop = 0 THEN "done" ELSE "wait",
                                    !.stop = abortStop, !.keys = abortKeys])
    /\ UNCHANGED <<closedCh, panicked>>

\* With the tick and the closed stop channel both ready, select takes either.
Tick(p) ==
    /\ PollerStep(p, "wait",
                  [poller[p] EXCEPT !.pc = IF poller[p].keys \in down THEN "fire" ELSE "read"])
    /\ UNCHANGED <<closedCh, panicked>>

SeeStop(p) ==
    /\ poller[p].stop \in closedStop
    /\ PollerStep(p, "wait", [poller[p] EXCEPT !.pc = "done"])
    /\ UNCHANGED <<closedCh, panicked>>

ReadAbortChNoNilTest(p) ==   \* mutant: a nil channel is not skipped
    /\ PollerStep(p, "fire", [poller[p] EXCEPT !.pc = "close", !.ch = abortCh])
    /\ UNCHANGED <<closedCh, panicked>>

ReadAbortCh(p) ==
    /\ PollerStep(p, "fire",
                  [poller[p] EXCEPT !.pc = IF abortCh = 0 THEN "done" ELSE "close",
                                    !.ch = abortCh])
    /\ UNCHANGED <<closedCh, panicked>>

\* select { case <-ch: default: ... } outside the lock
TestAbortCh(p) ==
    /\ PollerStep(p, "close",
                  [poller[p] EXCEPT !.pc = IF poller[p].ch \in closedCh THEN "done"
                                                                        ELSE "closing"])
    /\ UNCHANGED <<closedCh, panicked>>

CloseAbortCh(p) ==
    /\ PollerStep(p, "closing", [poller[p] EXCEPT !.pc = "done"])
    /\ closedCh' = closedCh \cup {poller[p].ch}
    /\ panicked' = (poller[p].ch \in closedCh)

Poll(p) ==
    \/ MakeTicker(p) \/ ReadStop(p) \/ Tick(p) \/ SeeStop(p)
    \/ ReadAbortCh(p) \/ TestAbortCh(p) \/ CloseAbortCh(p)

-----------------------------------------------------------------------------
(* Users of the abort channel                                               *)

\* GetAbortChannel makes a new channel when there is none or it was closed.
FreshAlways == TRUE        \* mutant: every chain makes its own channel
FreshOnce == abortCh = 0   \* mutant: a closed channel is handed out again

NeedsFresh == abortCh = 0 \/ abortCh \in closedCh

GetAbortChannel(c) ==
    /\ IF NeedsFresh
         THEN madeCh < MaxChans /\ madeCh' = madeCh + 1 /\ abortCh' = madeCh + 1
         ELSE UNCHANGED <<madeCh, abortCh>>
    /\ chainCh' = [chainCh EXCEPT ![c] = abortCh']

\* ExecuteChain takes the channel before it starts its worker.
StartChain(c) ==
    /\ ~Running(c)
    /\ GetAbortChannel(c)
    /\ UNCHANGED <<abortStop, abortKeys, abortPollMs, closedCh, startVars, cfg, request,
                   poller, down>>

\* The steps are done, the chain timed out ...
FinishChain(c) ==
    /\ Running(c)
    /\ chainCh' = [chainCh EXCEPT ![c] = 0]
    /\ UNCHANGED <<sharedVars, chanVars, startVars, cfg, request, poller, down>>

\* ... or its select, or the test before a step, sees the channel closed.
AbortChain(c) ==
    /\ Running(c) /\ chainCh[c] \in closedCh
    /\ chainCh' = [chainCh EXCEPT ![c] = 0]
    /\ UNCHANGED <<sharedVars, chanVars, startVars, cfg, request, poller, down>>

ResetAbortChannel ==
    /\ ResetUsed /\ madeCh < MaxChans
    /\ madeCh' = madeCh + 1 /\ abortCh' = madeCh + 1
    /\ UNCHANGED <<abortStop, abortKeys, abortPollMs, closedCh, startVars, cfg, request,
                   poller, chainCh, down>>

\* The user's hands.
HoldOrRelease ==
    /\ \E k \in Combos : down' = IF k \in down THEN down \ {k} ELSE down \cup {k}
    /\ UNCHANGED <<sharedVars, chanVars, startVars, cfg, request, poller, chainCh>>

-----------------------------------------------------------------------------
Callee(r) == (StopAbortPoller(r) \/ Install(r) \/ Spawn(r)) /\ UNCHANGED panicked

\* A panic in the poller's goroutine ends the process: nothing moves any more.
AbortNext ==
    /\ ~panicked
    /\ \/ \E p \in Pollers : Poll(p)
       \/ \E r \in Callers : Callee(r)
       \/ /\ \/ \E r \in SetRequests : SetConfig(r)
             \/ \E c \in Chains : StartChain(c) \/ FinishChain(c) \/ AbortChain(c)
             \/ ResetAbortChannel
             \/ HoldOrRelease
          /\ UNCHANGED panicked

AbortSpec == AbortInit /\ [][AbortNext]_abortVars

\* The Go scheduler runs every goroutine that can run, a ticker keeps ticking,
\* and a chain whose abort channel is closed gets to its select.
AbortFairness ==
    /\ \A p \in Pollers : WF_abortVars(~panicked /\ Poll(p))
    /\ \A r \in Callers : WF_abortVars(~panicked /\ Callee(r))
    /\ \A c \in Chains : WF_abortVars(~panicked /\ AbortChain(c) /\ UNCHANGED panicked)

AbortFairSpec == AbortSpec /\ AbortFairness

-----------------------------------------------------------------------------
(* Properties                                                               *)

\* A chain in flight that has not been aborted holds the channel the next press
\* will close: GetAbortChannel only replaces a channel that is already closed,
\* so no running chain is left on a channel nobody can close.
RunningChainsReachable ==
    \A c \in Chains : Running(c) => chainCh[c] = abortCh \/ chainCh[c] \in closedCh

\* A poller that saw the hotkey and read the channel before closing it outside
\* the lock never closes a channel that was replaced in between, unless another
\* poller closed that channel first.
PressNotLost ==
    \A p \in Pollers : poller[p].pc \in {"close", "closing"} =>
        poller[p].ch = abortCh \/ poller[p].ch \in closedCh

\* With one set_config request at a time, whenever no request is in flight the
\* poller's stop channel and parameters are those of the saved configuration.
ConfigInForce ==
    Idle => /\ cfg.enabled <=> abortStop # 0
            /\ cfg.enabled => abortKeys = cfg.keys /\ abortPollMs = cfg.ms

\* What the channels implement: a press reaches every running chain, and no
\* chain that starts afterwards (CHANGELOG.md: a press used to abort all future
\* chains).
Signal == INSTANCE AbortSignal WITH
            running <- {c \in Chains : Running(c)},
            doomed <- {c \in Chains : Running(c) /\ chainCh[c] \in closedCh}
BroadcastAbort == Signal!Spec

\* Once the hotkey is disabled every polling goroutine ends, also one that took
\* over another generation's stop channel or waits on a stop channel that two
\* concurrent starts left behind unclosed.
StoppedPollersExit ==
    (abortStop = 0 /\ Idle) ~>
        (panicked \/ ~Idle \/ abortStop # 0 \/ \A p \in Pollers : ~Live(p))

\* A press the poller has noticed ends every chain running at that moment.
NoticedPressEndsChains ==
    \A c \in Chains :
        (Running(c) /\ \E p \in Pollers : poller[p].pc = "fire") ~> (panicked \/ ~Running(c))

(* What the repository says of the hotkey and the code does not do          *)

\* chainabort_test.go: "no panic on double start".
NoPanicOnRestart == ~panicked

\* CHANGELOG.md: when all keys of the combination are held, the abort channel
\* closes and any running chain terminates at its next step boundary.
HeldHotkeyEndsChain ==
    \A c \in Chains :
        (Running(c) /\ cfg.enabled /\ Idle /\ cfg.keys \in down) ~>
            (~Running(c) \/ cfg.keys \notin down \/ ~cfg.enabled \/ ~Idle \/ panicked)
=============================================================================
