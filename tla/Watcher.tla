------------------------------ MODULE Watcher -------------------------------
(* The background watcher of watcher.go and the parts of the server that      *)
(* start and stop it: the automatic start, and set_config (server.go), whose  *)
(* statements interleave with those of another set_config, since nothing      *)
(* locks the configuration.  The server may crash at any step and start again *)
(* from what is on disk.                                                      *)
EXTENDS Integers, FiniteSets

CONSTANTS WatchCallers,                  \* set_config requests, and the automatic start
          WatchIntervals, DefaultInterval,
          WatchRequests,                 \* <<enable, interval>> asked for by set_config
          MaxWatchStarts, MaxCache, MaxCrashes

ASSUME IntervalAssumption ==
  /\ DefaultInterval \in WatchIntervals /\ "none" \notin WatchIntervals
  /\ WatchRequests \subseteq {"on", "off", "absent"} \X (WatchIntervals \cup {"none"})
ASSUME WatcherBounds ==
  /\ MaxWatchStarts \in Nat /\ MaxCrashes \in Nat /\ MaxCache \in Nat \ {0}

VARIABLES running,                  \* state
          stopCh, closedStops,      \* the stop channel in force; the closed ones
          interval,                 \* w.interval, read when a loop makes its ticker
          loops,                    \* one goroutine for each start
          cache,                    \* how many detections are cached
          watchCfg, disk,                \* ActiveConfig and config.json
          setter,                   \* caller -> where its statements have got to
          overlap,                  \* two callers have been at it at once
          crashes

watchVars == <<running, stopCh, closedStops, interval, loops, cache,
               watchCfg, disk, setter, overlap, crashes>>
loopVars == <<running, stopCh, closedStops, interval, loops>>
setVars == <<watchCfg, disk, setter, overlap, crashes>>

NoLoop == [at |-> "none", ch |-> 0, every |-> "none"]
Alive(l) == loops[l].at \in {"starting", "waiting", "capturing"}
Starts == Cardinality({l \in 1..MaxWatchStarts : loops[l] # NoLoop})

Torn == [torn |-> TRUE]             \* a file that does not parse
Idle0 == [at |-> "idle", enable |-> "absent", every |-> "none", changed |-> FALSE, data |-> Torn]
WatchConfig == [auto : BOOLEAN, every : WatchIntervals]
DefaultConfig == [auto |-> TRUE, every |-> DefaultInterval]
Busy(c) == setter[c].at \notin {"idle", "failed"}

-----------------------------------------------------------------------------
(* StartWatcher and StopWatcher, each under w.mu.  The goroutine is created   *)
(* with nothing: it reads channel and interval from w when it gets to run.    *)
Start(every) ==
  /\ running' = TRUE
  /\ stopCh' = stopCh + 1
  /\ interval' = every
  /\ loops' = [loops EXCEPT ![Starts + 1] = [NoLoop EXCEPT !.at = "starting"]]
  /\ UNCHANGED closedStops

\* Mutant: the channel is left open.
StopWithoutClose ==
  /\ running' = FALSE
  /\ UNCHANGED <<stopCh, closedStops, interval, loops>>
Stop ==
  /\ running' = FALSE
  /\ closedStops' = IF running THEN closedStops \cup {stopCh} ELSE closedStops
  /\ UNCHANGED <<stopCh, interval, loops>>

-----------------------------------------------------------------------------
(* The goroutine.  A select reads w.stopCh when it is entered and keeps it.   *)
LoopBegins(l) ==
  /\ loops[l].at = "starting"
  /\ loops' = [loops EXCEPT ![l] = [at |-> "waiting", ch |-> stopCh, every |-> interval]]
  /\ UNCHANGED <<running, stopCh, closedStops, interval, cache, setVars>>

LoopEnds(l) ==
  /\ loops[l].at = "waiting" /\ loops[l].ch \in closedStops
  /\ loops' = [loops EXCEPT ![l].at = "ended"]
  /\ UNCHANGED <<running, stopCh, closedStops, interval, cache, setVars>>

(* A tick that is due may win the select against the closed channel.          *)
RunOnce(l) ==
  /\ loops[l].at = "waiting"
  /\ loops' = [loops EXCEPT ![l].at = "capturing"]
  /\ UNCHANGED <<running, stopCh, closedStops, interval, cache, setVars>>

\* Mutant: the cache is cut only when it was too long before.
CachedLate(n) == IF n > MaxCache THEN MaxCache ELSE n + 1
Cached(n) == IF n + 1 > MaxCache THEN MaxCache ELSE n + 1

(* Without a screenshot or a detection the cache is left alone.               *)
Detected(l) ==
  /\ loops[l].at = "capturing"
  /\ cache' \in {cache, Cached(cache)}
  /\ loops' = [loops EXCEPT ![l] = [at |-> "waiting", ch |-> stopCh, every |-> @.every]]
  /\ UNCHANGED <<running, stopCh, closedStops, interval, setVars>>

-----------------------------------------------------------------------------
(* set_config.  `enable` and `every` are its arguments, "absent" and "none"   *)
(* when not given.                                                            *)
At(c, s) == setter' = [setter EXCEPT ![c].at = s]
AtChanged(c, s) == setter' = [setter EXCEPT ![c].at = s, ![c].changed = TRUE]

SetWatchConfig(c, enable, every) ==
  /\ setter[c].at = "idle"
  /\ setter' = [setter EXCEPT ![c] = [at |-> "status", enable |-> enable, every |-> every,
                                       changed |-> FALSE, data |-> Torn]]
  /\ overlap' = (overlap \/ \E d \in WatchCallers \ {c} : Busy(d))
  /\ UNCHANGED <<loopVars, cache, watchCfg, disk, crashes>>

ReadStatus(c) ==
  /\ setter[c].at = "status"
  /\ At(c, CASE setter[c].enable = "on" /\ ~running -> "start"
             [] setter[c].enable = "off" /\ running -> "stop"
             [] OTHER -> "interval")
  /\ UNCHANGED <<loopVars, cache, watchCfg, disk, overlap, crashes>>

(* Started by someone else meanwhile: the request ends with an error, and     *)
(* what it has changed before is in force but not saved.                      *)
SetStart(c) ==
  /\ setter[c].at = "start" /\ Starts < MaxWatchStarts
  /\ IF running
     THEN At(c, "failed") /\ UNCHANGED <<loopVars, watchCfg>>
     ELSE Start(watchCfg.every) /\ watchCfg' = [watchCfg EXCEPT !.auto = TRUE] /\ AtChanged(c, "interval")
  /\ UNCHANGED <<cache, disk, overlap, crashes>>

SetStop(c) ==
  /\ setter[c].at = "stop"
  /\ Stop
  /\ watchCfg' = [watchCfg EXCEPT !.auto = FALSE]
  /\ AtChanged(c, "interval")
  /\ UNCHANGED <<cache, disk, overlap, crashes>>

(* A new interval restarts a running watcher; a start that fails is logged.   *)
SetInterval(c) ==
  /\ setter[c].at = "interval"
  /\ LET new == setter[c].every IN
       IF new \in {"none", watchCfg.every}
       THEN At(c, "save") /\ UNCHANGED watchCfg
       ELSE /\ watchCfg' = [watchCfg EXCEPT !.every = new]
            /\ AtChanged(c, IF running THEN "restop" ELSE "save")
  /\ UNCHANGED <<loopVars, cache, disk, overlap, crashes>>
RestartStop(c) ==
  /\ setter[c].at = "restop"
  /\ Stop
  /\ At(c, "restart")
  /\ UNCHANGED <<cache, watchCfg, disk, overlap, crashes>>
\* Mutant: the watcher is started again with the interval it had.
RestartStartOld(c) ==
  /\ setter[c].at = "restart" /\ Starts < MaxWatchStarts
  /\ IF running THEN UNCHANGED loopVars ELSE Start(interval)
  /\ At(c, "save")
  /\ UNCHANGED <<cache, watchCfg, disk, overlap, crashes>>
RestartStart(c) ==
  /\ setter[c].at = "restart" /\ Starts < MaxWatchStarts
  /\ IF running THEN UNCHANGED loopVars ELSE Start(setter[c].every)
  /\ At(c, "save")
  /\ UNCHANGED <<cache, watchCfg, disk, overlap, crashes>>

(* Save writes config.json in place: it is empty before it is whole.          *)
Unchanged(c) == ~setter[c].changed
BeginSave(c) ==
  /\ setter[c].at = "save"
  /\ IF Unchanged(c)
     THEN setter' = [setter EXCEPT ![c] = Idle0] /\ UNCHANGED disk
     ELSE /\ setter' = [setter EXCEPT ![c].at = "write", ![c].data = watchCfg]
          /\ disk' = Torn
  /\ UNCHANGED <<loopVars, cache, watchCfg, overlap, crashes>>
EndSave(c) ==
  /\ setter[c].at = "write"
  /\ disk' = setter[c].data
  /\ setter' = [setter EXCEPT ![c] = Idle0]
  /\ UNCHANGED <<loopVars, cache, watchCfg, overlap, crashes>>

(* A crash takes the memory with it.  A file that does not parse gives the    *)
(* defaults; a configuration that says so starts the watcher, in a goroutine  *)
(* that reads the interval first and starts later.                            *)
Loaded == IF disk = Torn THEN DefaultConfig ELSE disk
AutoStarting(c, config) ==
  [d \in WatchCallers |-> IF d = c /\ config.auto
                          THEN [Idle0 EXCEPT !.at = "auto"] ELSE Idle0]
Boot(c) ==
  /\ crashes < MaxCrashes
  /\ crashes' = crashes + 1
  /\ running' = FALSE /\ interval' = DefaultInterval
  /\ loops' = [l \in 1..MaxWatchStarts |-> IF loops[l] = NoLoop THEN NoLoop
                                      ELSE [NoLoop EXCEPT !.at = "ended"]]
  /\ cache' = 0
  /\ watchCfg' = Loaded
  /\ setter' = AutoStarting(c, Loaded)
  /\ overlap' = FALSE
  /\ UNCHANGED <<stopCh, closedStops, disk>>
AutoRead(c) ==
  /\ setter[c].at = "auto"
  /\ setter' = [setter EXCEPT ![c].at = "autostart", ![c].every = watchCfg.every]
  /\ UNCHANGED <<loopVars, cache, watchCfg, disk, overlap, crashes>>
AutoStart(c) ==
  /\ setter[c].at = "autostart" /\ Starts < MaxWatchStarts
  /\ IF running THEN UNCHANGED loopVars ELSE Start(setter[c].every)
  /\ setter' = [setter EXCEPT ![c] = Idle0]
  /\ UNCHANGED <<cache, watchCfg, disk, overlap, crashes>>

-----------------------------------------------------------------------------
WatchInit ==
  /\ running = FALSE /\ stopCh = 0 /\ closedStops = {} /\ interval = DefaultInterval
  /\ loops = [l \in 1..MaxWatchStarts |-> NoLoop]
  /\ cache = 0
  /\ watchCfg = DefaultConfig /\ disk = DefaultConfig
  /\ \E c \in WatchCallers : setter = AutoStarting(c, DefaultConfig)
  /\ overlap = FALSE /\ crashes = 0

LoopStep(l) == LoopBegins(l) \/ LoopEnds(l) \/ Detected(l)
SetStep(c) ==
  \/ ReadStatus(c) \/ SetStart(c) \/ SetStop(c) \/ SetInterval(c) \/ RestartStop(c)
  \/ RestartStart(c) \/ BeginSave(c) \/ EndSave(c) \/ AutoRead(c) \/ AutoStart(c)

WatchNext ==
  \/ \E l \in 1..MaxWatchStarts : LoopStep(l) \/ RunOnce(l)
  \/ \E c \in WatchCallers, r \in WatchRequests : SetWatchConfig(c, r[1], r[2])
  \/ \E c \in WatchCallers : SetStep(c) \/ Boot(c)
WatchSpec == WatchInit /\ [][WatchNext]_watchVars

-----------------------------------------------------------------------------
WatchTypeOK ==
  /\ running \in BOOLEAN /\ overlap \in BOOLEAN /\ crashes \in 0..MaxCrashes
  /\ stopCh \in 0..MaxWatchStarts /\ closedStops \subseteq 1..MaxWatchStarts /\ interval \in WatchIntervals
  /\ loops \in [1..MaxWatchStarts -> [at : {"none", "starting", "waiting", "capturing", "ended"},
                                 ch : 0..MaxWatchStarts, every : WatchIntervals \cup {"none"}]]
  /\ cache \in 0..MaxCache
  /\ watchCfg \in WatchConfig /\ disk \in WatchConfig \cup {Torn}
  /\ setter \in [WatchCallers ->
       [at : {"idle", "failed", "status", "start", "stop", "interval", "restop", "restart",
              "save", "write", "auto", "autostart"},
        enable : {"on", "off", "absent"}, every : WatchIntervals \cup {"none"},
        changed : BOOLEAN, data : WatchConfig \cup {Torn}]]

(* A watcher that reports itself running is watching: one of its goroutines   *)
(* is in a screenshot, about to begin, or waits on a channel nobody closed.   *)
(* One that reports itself stopped winds down: whatever channel a goroutine   *)
(* waits on is closed, however starts and stops have overtaken it.            *)
Winding(l) == loops[l].at = "waiting" => loops[l].ch \in closedStops
RunningWatches ==
  IF running
  THEN \E l \in 1..MaxWatchStarts :
         \/ loops[l].at \in {"starting", "capturing"}
         \/ loops[l].at = "waiting" /\ loops[l].ch \notin closedStops
  ELSE \A l \in 1..MaxWatchStarts : Winding(l)

(* The interval a request asked for is the one watched with when it is over,  *)
(* and it is on disk, as long as requests come one after another and none     *)
(* fails.  (A goroutine that was in a screenshot at the restart goes on       *)
(* beside the new one, with the old interval.)                                *)
Quiet == ~overlap /\ \A c \in WatchCallers : setter[c].at = "idle"
SettingsInForce ==
  Quiet =>
    /\ running => \E l \in 1..MaxWatchStarts :
         \/ loops[l].at = "starting" /\ interval = watchCfg.every
         \/ loops[l].at \in {"waiting", "capturing"} /\ loops[l].every = watchCfg.every
    /\ disk # Torn => disk = watchCfg

(* Both: the watcher does what it says and what it was last told              *)
(* (watcher.go:50, server.go:2723).                                           *)
WatcherInForce == RunningWatches /\ SettingsInForce
=============================================================================
