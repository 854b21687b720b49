---------------------------- MODULE WatcherProofs ----------------------------
(***************************************************************************)
(* Proofs about looking at the screen.                                     *)
(*                                                                         *)
(* The background watcher, for any number of requests, starts and crashes: *)
(* one that reports itself running has a goroutine that watches, one that  *)
(* reports itself stopped winds down, and requests that come one after     *)
(* another get the settings they asked for.                                *)
(*                                                                         *)
(* The screen tools, for any screen, windows, requests, scores and texts:  *)
(* boxes kept, crops, matches, layouts and differences of texts come out   *)
(* as what was looked at has them.                                         *)
(***************************************************************************)
EXTENDS Watcher, Vision, SequenceTheorems, FiniteSetTheorems, TLAPS

-----------------------------------------------------------------------------
(* The background watcher                                                    *)

\* Each start makes one channel and one goroutine, numbered alike; a goroutine knows
\* no channel that was not made.
StartsCounted ==
  /\ \A l \in 1..MaxWatchStarts : loops[l] # NoLoop <=> l <= stopCh
  /\ closedStops \subseteq 1..stopCh
  /\ running => stopCh # 0 /\ stopCh \notin closedStops

\* A goroutine waits on a closed channel, or on the one in force while running; one
\* that is still to read its channel finds that one or a closed one.
LoopsFollow ==
  /\ \A l \in 1..MaxWatchStarts :
       loops[l].at = "waiting" => loops[l].ch \in closedStops \/ (running /\ loops[l].ch = stopCh)
  /\ running \/ stopCh \in closedStops
       \/ \A l \in 1..MaxWatchStarts : loops[l].at \in {"none", "ended"}

\* The goroutine of the last start is the one that watches.
NewestWatches ==
  running => \/ loops[stopCh].at \in {"starting", "capturing"}
             \/ loops[stopCh].at = "waiting" /\ loops[stopCh].ch = stopCh

\* A request that restarts the watcher has an interval to restart it with.
RestartHasInterval ==
  \A c \in WatchCallers :
    setter[c].at \in {"restop", "restart", "autostart"} => setter[c].every # "none"

\* Requests that come one after another.
OneBusy == ~overlap => \A c, d \in WatchCallers : Busy(c) /\ Busy(d) => c = d
Orderly == ~overlap /\ \A c \in WatchCallers : setter[c].at # "failed"

\* The last start was made with the interval of the configuration, except while a
\* request is between writing a new one and stopping the watcher.
NewestInForce ==
  running => \/ loops[stopCh].at = "starting" /\ interval = watchCfg.every
             \/ loops[stopCh].at \in {"waiting", "capturing"} /\ loops[stopCh].every = watchCfg.every
RequestInOrder(c) ==
  /\ setter[c].at \in {"idle", "auto", "autostart"} => ~setter[c].changed
  /\ setter[c].at \in {"restop", "restart", "autostart"} => setter[c].every = watchCfg.every
  /\ setter[c].at = "restart" => ~running
  /\ setter[c].at = "write" => setter[c].data = watchCfg
SettingsFollow ==
  Orderly =>
    /\ \A c \in WatchCallers : RequestInOrder(c)
    /\ NewestInForce \/ \E c \in WatchCallers : setter[c].at = "restop"
    /\ (disk # Torn => disk = watchCfg) \/ \E c \in WatchCallers : setter[c].changed

USE IntervalAssumption, WatcherBounds DEF IntervalAssumption, WatcherBounds

-----------------------------------------------------------------------------
(* Starts and goroutines                                                     *)

LoopStates == [at : {"none", "starting", "waiting", "capturing", "ended"},
               ch : 0..MaxWatchStarts, every : WatchIntervals \cup {"none"}]
LoopTypes ==
  /\ running \in BOOLEAN /\ stopCh \in 0..MaxWatchStarts /\ interval \in WatchIntervals
  /\ loops \in [1..MaxWatchStarts -> LoopStates]
LoopsInv == LoopTypes /\ StartsCounted /\ LoopsFollow /\ NewestWatches

\* The goroutines are as many as the channels made.
LEMMA StartsAreChannels ==
  ASSUME LoopTypes, StartsCounted
  PROVE  Starts = stopCh
<1>1. {l \in 1..MaxWatchStarts : loops[l] # NoLoop} = 1..stopCh
  BY DEF LoopTypes, StartsCounted
<1>2. Cardinality(1..stopCh) = stopCh
  BY FS_Interval DEF LoopTypes
<1>3. QED
  BY <1>1, <1>2 DEF Starts

LEMMA LoopWith ==
  ASSUME NEW r \in LoopStates, NEW at
  PROVE  [r EXCEPT !.at = at] = [at |-> at, ch |-> r.ch, every |-> r.every]
BY DEF LoopStates

\* A start makes the next channel and a goroutine that will wait on it.
LEMMA StartKeeps ==
  ASSUME LoopsInv, NEW every \in WatchIntervals, ~running, Starts < MaxWatchStarts, Start(every)
  PROVE  LoopsInv'
<1>1. Starts = stopCh /\ stopCh + 1 \in 1..MaxWatchStarts
  BY StartsAreChannels DEF LoopsInv, LoopTypes
<1> DEFINE new == stopCh + 1
           fresh == [at |-> "starting", ch |-> 0, every |-> "none"]
<1>2. /\ running' = TRUE /\ stopCh' = new /\ interval' = every /\ closedStops' = closedStops
      /\ loops' = [loops EXCEPT ![new] = fresh]
  <2>1. NoLoop \in LoopStates /\ NoLoop.ch = 0 /\ NoLoop.every = "none"
    BY DEF NoLoop, LoopStates
  <2>2. [NoLoop EXCEPT !.at = "starting"] = fresh
    BY <2>1, LoopWith
  <2>3. QED
    BY <1>1, <2>2 DEF Start
<1>3. fresh \in LoopStates /\ fresh # NoLoop /\ fresh.at = "starting"
  BY DEF LoopStates, NoLoop
<1> HIDE DEF fresh
<1>4. LoopTypes'
  BY <1>1, <1>2, <1>3 DEF LoopsInv, LoopTypes
<1>5. loops'[new] = fresh /\ \A l \in 1..MaxWatchStarts : l # new => loops'[l] = loops[l]
  BY <1>1, <1>2 DEF LoopsInv, LoopTypes
<1>6. StartsCounted'
  BY <1>1, <1>2, <1>3, <1>5 DEF LoopsInv, LoopTypes, StartsCounted, NoLoop
<1>7. LoopsFollow'
  BY <1>1, <1>2, <1>3, <1>5 DEF LoopsInv, LoopTypes, LoopsFollow
<1>8. NewestWatches'
  BY <1>1, <1>2, <1>3, <1>5 DEF NewestWatches
<1>9. QED
  BY <1>4, <1>6, <1>7, <1>8 DEF LoopsInv

\* A stop closes the channel in force, once.
LEMMA StopKeeps ==
  ASSUME LoopsInv, Stop
  PROVE  LoopsInv'
<1>1. LoopTypes'
  BY DEF Stop, LoopsInv, LoopTypes
<1>2. StartsCounted'
  BY DEF Stop, LoopsInv, LoopTypes, StartsCounted, NoLoop
<1>3. LoopsFollow'
  BY DEF Stop, LoopsInv, LoopTypes, LoopsFollow
<1>4. NewestWatches'
  BY DEF Stop, NewestWatches
<1>5. QED
  BY <1>1, <1>2, <1>3, <1>4 DEF LoopsInv

\* A goroutine's step changes it alone.
LEMMA GoroutineKeeps ==
  ASSUME LoopsInv, NEW l \in 1..MaxWatchStarts, LoopStep(l) \/ RunOnce(l)
  PROVE  LoopsInv'
<1>1. UNCHANGED <<running, stopCh, closedStops, interval>>
  BY DEF LoopStep, LoopBegins, LoopEnds, RunOnce, Detected
<1>2. /\ loops[l] # NoLoop /\ loops[l].at \in {"starting", "waiting", "capturing"}
      /\ loops' \in [1..MaxWatchStarts -> LoopStates]
      /\ \A k \in 1..MaxWatchStarts : k # l => loops'[k] = loops[k]
      /\ \/ loops'[l].at = "waiting" /\ loops'[l].ch = stopCh
         \/ loops'[l].at = "capturing"
         \/ loops'[l].at = "ended" /\ loops[l].at = "waiting" /\ loops[l].ch \in closedStops
  <2>1. CASE LoopBegins(l)
    <3> DEFINE new == [at |-> "waiting", ch |-> stopCh, every |-> interval]
    <3>1. loops[l] \in LoopStates /\ new \in LoopStates
      BY DEF LoopsInv, LoopTypes, LoopStates
    <3>3. loops[l].at = "starting" /\ loops' = [loops EXCEPT ![l] = new]
      BY <2>1 DEF LoopBegins
    <3>4. new.at = "waiting" /\ new.ch = stopCh
      OBVIOUS
    <3> HIDE DEF new
    <3>5. QED
      BY <3>1, <3>3, <3>4 DEF LoopsInv, LoopTypes, NoLoop
  <2>2. CASE LoopEnds(l)
    <3> DEFINE new == [at |-> "ended", ch |-> loops[l].ch, every |-> loops[l].every]
    <3>1. loops[l] \in LoopStates /\ new \in LoopStates
      BY DEF LoopsInv, LoopTypes, LoopStates
    <3>2. new = [loops[l] EXCEPT !.at = "ended"]
      BY <3>1, LoopWith
    <3>3. /\ loops[l].at = "waiting" /\ loops[l].ch \in closedStops
          /\ loops' = [loops EXCEPT ![l] = new]
      BY <2>2, <3>2 DEF LoopEnds
    <3>4. new.at = "ended"
      OBVIOUS
    <3> HIDE DEF new
    <3>5. QED
      BY <3>1, <3>3, <3>4 DEF LoopsInv, LoopTypes, NoLoop
  <2>3. CASE RunOnce(l)
    <3> DEFINE new == [at |-> "capturing", ch |-> loops[l].ch, every |-> loops[l].every]
    <3>1. loops[l] \in LoopStates /\ new \in LoopStates
      BY DEF LoopsInv, LoopTypes, LoopStates
    <3>2. new = [loops[l] EXCEPT !.at = "capturing"]
      BY <3>1, LoopWith
    <3>3. loops[l].at = "waiting" /\ loops' = [loops EXCEPT ![l] = new]
      BY <2>3, <3>2 DEF RunOnce
    <3>4. new.at = "capturing"
      OBVIOUS
    <3> HIDE DEF new
    <3>5. QED
      BY <3>1, <3>3, <3>4 DEF LoopsInv, LoopTypes, NoLoop
  <2>4. CASE Detected(l)
    <3> DEFINE new == [at |-> "waiting", ch |-> stopCh, every |-> loops[l].every]
    <3>1. loops[l] \in LoopStates /\ new \in LoopStates
      BY DEF LoopsInv, LoopTypes, LoopStates
    <3>3. loops[l].at = "capturing" /\ loops' = [loops EXCEPT ![l] = new]
      BY <2>4 DEF Detected
    <3>4. new.at = "waiting" /\ new.ch = stopCh
      OBVIOUS
    <3> HIDE DEF new
    <3>5. QED
      BY <3>1, <3>3, <3>4 DEF LoopsInv, LoopTypes, NoLoop
  <2>5. QED
    BY <2>1, <2>2, <2>3, <2>4 DEF LoopStep
<1>3. LoopTypes'
  BY <1>1, <1>2 DEF LoopsInv, LoopTypes
<1>4. StartsCounted'
  BY <1>1, <1>2 DEF LoopsInv, StartsCounted, NoLoop
<1>5. LoopsFollow'
  BY <1>1, <1>2 DEF LoopsInv, LoopsFollow
<1>6. NewestWatches'
  BY <1>1, <1>2 DEF LoopsInv, LoopTypes, StartsCounted, NewestWatches
<1>7. QED
  BY <1>3, <1>4, <1>5, <1>6 DEF LoopsInv

\* A crash ends every goroutine; the channels keep their numbers.
LEMMA BootEndsLoops ==
  ASSUME LoopsInv, NEW c \in WatchCallers, Boot(c)
  PROVE  LoopsInv'
<1> DEFINE over == [at |-> "ended", ch |-> 0, every |-> "none"]
<1>1. /\ running' = FALSE /\ interval' = DefaultInterval /\ UNCHANGED <<stopCh, closedStops>>
      /\ loops' = [l \in 1..MaxWatchStarts |-> IF loops[l] = NoLoop THEN NoLoop ELSE over]
  BY DEF Boot, NoLoop
<1>2. /\ over \in LoopStates /\ NoLoop \in LoopStates /\ over # NoLoop
      /\ over.at = "ended" /\ NoLoop.at = "none"
  BY DEF LoopStates, NoLoop
<1> HIDE DEF over
<1>3. \A l \in 1..MaxWatchStarts :
        /\ loops'[l] = IF loops[l] = NoLoop THEN NoLoop ELSE over
        /\ loops'[l].at \in {"none", "ended"} /\ loops'[l] \in LoopStates
        /\ loops'[l] # NoLoop <=> loops[l] # NoLoop
  BY <1>1, <1>2
<1>4. LoopTypes'
  BY <1>1, <1>2 DEF LoopsInv, LoopTypes
<1>5. StartsCounted'
  BY <1>1, <1>3 DEF LoopsInv, StartsCounted, NoLoop
<1>6. LoopsFollow' /\ NewestWatches'
  BY <1>1, <1>3 DEF LoopsFollow, NewestWatches
<1>7. QED
  BY <1>4, <1>5, <1>6 DEF LoopsInv

-----------------------------------------------------------------------------
(* Requests and settings                                                     *)

SetterStates ==
  [at : {"idle", "failed", "status", "start", "stop", "interval", "restop", "restart",
         "save", "write", "auto", "autostart"},
   enable : {"on", "off", "absent"}, every : WatchIntervals \cup {"none"},
   changed : BOOLEAN, data : WatchConfig \cup {Torn}]
SetTypes ==
  /\ watchCfg \in WatchConfig /\ disk \in WatchConfig \cup {Torn}
  /\ setter \in [WatchCallers -> SetterStates]
  /\ overlap \in BOOLEAN /\ crashes \in 0..MaxCrashes
SetInv == SetTypes /\ RestartHasInterval /\ OneBusy /\ SettingsFollow

\* What holds of the one request that is at work.
Whole(c) ==
  /\ RequestInOrder(c)
  /\ NewestInForce \/ setter[c].at = "restop"
  /\ (disk # Torn => disk = watchCfg) \/ setter[c].changed

\* While requests come one after another the others are idle.
LEMMA AloneInOrder ==
  ASSUME SetInv, Orderly, NEW c \in WatchCallers, Busy(c)
  PROVE  Whole(c) /\ \A d \in WatchCallers : d # c => setter[d].at = "idle"
<1>1. \A d \in WatchCallers : d # c => setter[d].at = "idle"
  BY DEF SetInv, SetTypes, Orderly, OneBusy, Busy
<1>2. \A d \in WatchCallers : d # c => ~setter[d].changed
  BY <1>1 DEF SetInv, SettingsFollow, RequestInOrder
<1>3. QED
  BY <1>1, <1>2 DEF SetInv, SettingsFollow, Whole

\* So a step of the one at work need only leave things whole for itself.
LEMMA RequestMoves ==
  ASSUME SetInv, NEW c \in WatchCallers, Busy(c), SetTypes',
         \A d \in WatchCallers : d # c => setter'[d] = setter[d],
         UNCHANGED overlap,
         setter'[c].at \in {"restop", "restart", "autostart"} => setter'[c].every # "none",
         Orderly' => (Orderly => Whole(c)')
  PROVE  SetInv'
<1>1. RestartHasInterval'
  BY DEF SetInv, RestartHasInterval
<1>2. OneBusy'
  BY DEF SetInv, OneBusy, Busy
<1>3. SettingsFollow'
  <2> SUFFICES ASSUME Orderly' PROVE Whole(c)' /\ \A d \in WatchCallers : RequestInOrder(d)'
    BY DEF SettingsFollow, Whole
  <2>1. Orderly
    BY DEF Orderly, Busy
  <2>2. \A d \in WatchCallers : d # c => setter[d].at = "idle" /\ ~setter[d].changed
    BY <2>1, AloneInOrder DEF SetInv, SettingsFollow, RequestInOrder
  <2>3. ASSUME NEW d \in WatchCallers, d # c PROVE RequestInOrder(d)'
    <3>1. setter'[d].at = "idle" /\ ~setter'[d].changed
      BY <2>2, <2>3
    <3>2. QED
      BY <3>1 DEF RequestInOrder
  <2>4. Whole(c)'
    BY <2>1
  <2>5. QED
    BY <2>3, <2>4 DEF Whole
<1>4. QED
  BY <1>1, <1>2, <1>3 DEF SetInv

Stages == {"idle", "failed", "status", "start", "stop", "interval", "restop", "restart",
           "save", "write", "auto", "autostart"}
SetterIs(c, at, every, changed, data) ==
  /\ setter' \in [WatchCallers -> SetterStates]
  /\ \A d \in WatchCallers : d # c => setter'[d] = setter[d]
  /\ setter'[c].at = at /\ setter'[c].every = every
  /\ setter'[c].changed = changed /\ setter'[c].data = data
LEMMA MovesOn ==
  ASSUME SetTypes, NEW c \in WatchCallers, NEW s \in Stages, At(c, s)
  PROVE  SetterIs(c, s, setter[c].every, setter[c].changed, setter[c].data)
<1>1. setter[c] \in SetterStates
  BY DEF SetTypes
<1>2. /\ \A d \in WatchCallers : d # c => setter'[d] = setter[d]
      /\ setter'[c].at = s /\ setter'[c].every = setter[c].every
      /\ setter'[c].changed = setter[c].changed /\ setter'[c].data = setter[c].data
  BY <1>1 DEF At, SetTypes, SetterStates
<1>3. setter' \in [WatchCallers -> SetterStates]
  BY <1>1 DEF At, SetTypes, SetterStates, Stages
<1>4. QED
  BY <1>2, <1>3 DEF SetterIs
LEMMA MovesChanged ==
  ASSUME SetTypes, NEW c \in WatchCallers, NEW s \in Stages, AtChanged(c, s)
  PROVE  SetterIs(c, s, setter[c].every, TRUE, setter[c].data)
<1>1. setter[c] \in SetterStates
  BY DEF SetTypes
<1>2. /\ \A d \in WatchCallers : d # c => setter'[d] = setter[d]
      /\ setter'[c].at = s /\ setter'[c].every = setter[c].every
      /\ setter'[c].changed = TRUE /\ setter'[c].data = setter[c].data
  BY <1>1 DEF AtChanged, SetTypes, SetterStates
<1>3. setter' \in [WatchCallers -> SetterStates]
  BY <1>1 DEF AtChanged, SetTypes, SetterStates, Stages
<1>4. QED
  BY <1>2, <1>3 DEF SetterIs

LEMMA LoopsUnchanged ==
  ASSUME LoopsInv, UNCHANGED loopVars
  PROVE  LoopsInv'
BY DEF LoopsInv, LoopTypes, StartsCounted, LoopsFollow, NewestWatches, loopVars

LEMMA SetStepLoops ==
  ASSUME LoopsInv, SetInv, NEW c \in WatchCallers, SetStep(c)
  PROVE  LoopsInv'
<1>1. watchCfg.every \in WatchIntervals
  BY DEF SetInv, SetTypes, WatchConfig
<1>2. ASSUME setter[c].at \in {"restart", "autostart"} PROVE setter[c].every \in WatchIntervals
  BY <1>2 DEF SetInv, SetTypes, SetterStates, RestartHasInterval
<1>3. \/ UNCHANGED loopVars
      \/ Stop
      \/ ~running /\ Starts < MaxWatchStarts /\ \E every \in WatchIntervals : Start(every)
  <2>1. CASE ReadStatus(c) \/ SetInterval(c) \/ BeginSave(c) \/ EndSave(c) \/ AutoRead(c)
    BY <2>1 DEF ReadStatus, SetInterval, BeginSave, EndSave, AutoRead
  <2>2. CASE SetStart(c)
    BY <2>2, <1>1 DEF SetStart
  <2>3. CASE SetStop(c) \/ RestartStop(c)
    BY <2>3 DEF SetStop, RestartStop
  <2>4. CASE RestartStart(c)
    BY <2>4, <1>2 DEF RestartStart
  <2>5. CASE AutoStart(c)
    BY <2>5, <1>2 DEF AutoStart
  <2>6. QED
    BY <2>1, <2>2, <2>3, <2>4, <2>5 DEF SetStep
<1>4. QED
  BY <1>3, LoopsUnchanged, StopKeeps, StartKeeps

\* A start with the interval of the configuration puts it in force; a step that leaves
\* watcher and interval alone leaves it in force.
LEMMA StartInForce ==
  ASSUME LoopsInv, NEW every \in WatchIntervals, Starts < MaxWatchStarts, Start(every),
         every = watchCfg'.every
  PROVE  NewestInForce'
<1>1. Starts = stopCh /\ stopCh + 1 \in 1..MaxWatchStarts
  BY StartsAreChannels DEF LoopsInv, LoopTypes
<1>2. NoLoop \in LoopStates /\ [NoLoop EXCEPT !.at = "starting"].at = "starting"
  BY DEF NoLoop, LoopStates
<1>3. loops'[stopCh'].at = "starting"
  BY <1>1, <1>2 DEF Start, LoopsInv, LoopTypes
<1>4. QED
  BY <1>3 DEF Start, NewestInForce
LEMMA StillInForce ==
  ASSUME UNCHANGED loopVars, watchCfg'.every = watchCfg.every
  PROVE  NewestInForce => NewestInForce'
BY DEF loopVars, NewestInForce

LEMMA RequestKeeps ==
  ASSUME SetInv, LoopsInv, NEW c \in WatchCallers, SetStep(c)
  PROVE  SetInv'
<1>1. SetTypes /\ watchCfg \in WatchConfig /\ watchCfg.every \in WatchIntervals
  BY DEF SetInv, SetTypes, WatchConfig
<1>2. ASSUME Orderly, Busy(c) PROVE Whole(c)
  BY <1>2, AloneInOrder
<1>3. CASE ReadStatus(c)
  <2>1. setter[c].at = "status" /\ UNCHANGED <<loopVars, watchCfg, disk, overlap, crashes>>
    BY <1>3 DEF ReadStatus
  <2>2. PICK s \in {"start", "stop", "interval"} : At(c, s)
    BY <1>3 DEF ReadStatus
  <2>3. SetterIs(c, s, setter[c].every, setter[c].changed, setter[c].data)
    BY <1>1, <2>2, MovesOn DEF Stages
  <2>4. SetTypes' /\ Busy(c)
    BY <1>1, <2>1, <2>3 DEF SetTypes, SetterIs, Busy
  <2>5. Orderly => Whole(c)'
    BY <1>2, <2>1, <2>3, <2>4, StillInForce DEF Whole, RequestInOrder, SetterIs
  <2>6. QED
    BY <2>1, <2>3, <2>4, <2>5, RequestMoves DEF SetterIs
<1>4. CASE SetStart(c)
  <2>1. setter[c].at = "start" /\ Starts < MaxWatchStarts /\ UNCHANGED <<disk, overlap, crashes>>
    BY <1>4 DEF SetStart
  <2>2. CASE running
    <3>1. At(c, "failed") /\ UNCHANGED watchCfg
      BY <1>4, <2>2 DEF SetStart
    <3>2. SetterIs(c, "failed", setter[c].every, setter[c].changed, setter[c].data)
      BY <1>1, <3>1, MovesOn DEF Stages
    <3>3. SetTypes' /\ Busy(c) /\ ~Orderly'
      BY <1>1, <2>1, <3>1, <3>2 DEF SetTypes, SetterIs, Busy, Orderly
    <3>4. QED
      BY <2>1, <3>2, <3>3, RequestMoves DEF SetterIs
  <2>3. CASE ~running
    <3>1. /\ Start(watchCfg.every) /\ AtChanged(c, "interval")
          /\ watchCfg' = [watchCfg EXCEPT !.auto = TRUE]
      BY <1>4, <2>3 DEF SetStart
    <3>2. SetterIs(c, "interval", setter[c].every, TRUE, setter[c].data)
      BY <1>1, <3>1, MovesChanged DEF Stages
    <3>3. watchCfg' \in WatchConfig /\ watchCfg'.every = watchCfg.every
      BY <1>1, <3>1 DEF WatchConfig
    <3>4. SetTypes' /\ Busy(c)
      BY <1>1, <2>1, <3>2, <3>3 DEF SetTypes, SetterIs, Busy
    <3>5. NewestInForce'
      BY <1>1, <2>1, <3>1, <3>3, StartInForce
    <3>6. Whole(c)'
      BY <3>2, <3>5 DEF Whole, RequestInOrder, SetterIs
    <3>7. QED
      BY <2>1, <3>2, <3>4, <3>6, RequestMoves DEF SetterIs
  <2>4. QED
    BY <2>2, <2>3
<1>5. CASE SetStop(c)
  <2>1. /\ setter[c].at = "stop" /\ running' = FALSE /\ UNCHANGED <<disk, overlap, crashes>>
        /\ AtChanged(c, "interval") /\ watchCfg' = [watchCfg EXCEPT !.auto = FALSE]
    BY <1>5 DEF SetStop, Stop
  <2>2. SetterIs(c, "interval", setter[c].every, TRUE, setter[c].data)
    BY <1>1, <2>1, MovesChanged DEF Stages
  <2>3. watchCfg' \in WatchConfig
    BY <1>1, <2>1 DEF WatchConfig
  <2>4. SetTypes' /\ Busy(c)
    BY <1>1, <2>1, <2>2, <2>3 DEF SetTypes, SetterIs, Busy
  <2>5. Whole(c)'
    BY <2>1, <2>2 DEF Whole, RequestInOrder, SetterIs, NewestInForce
  <2>6. QED
    BY <2>1, <2>2, <2>4, <2>5, RequestMoves DEF SetterIs
<1>6. CASE SetInterval(c)
  <2>1. setter[c].at = "interval" /\ UNCHANGED <<loopVars, disk, overlap, crashes>>
    BY <1>6 DEF SetInterval
  <2>2. CASE setter[c].every \in {"none", watchCfg.every}
    <3>1. At(c, "save") /\ UNCHANGED watchCfg
      BY <1>6, <2>2 DEF SetInterval
    <3>2. SetterIs(c, "save", setter[c].every, setter[c].changed, setter[c].data)
      BY <1>1, <3>1, MovesOn DEF Stages
    <3>3. SetTypes' /\ Busy(c)
      BY <1>1, <2>1, <3>1, <3>2 DEF SetTypes, SetterIs, Busy
    <3>4. Orderly => Whole(c)'
      BY <1>2, <2>1, <3>1, <3>2, <3>3, StillInForce DEF Whole, RequestInOrder, SetterIs
    <3>5. QED
      BY <2>1, <3>2, <3>3, <3>4, RequestMoves DEF SetterIs
  <2>3. CASE setter[c].every \notin {"none", watchCfg.every}
    <3> DEFINE s == IF running THEN "restop" ELSE "save"
    <3>1. AtChanged(c, s) /\ watchCfg' = [watchCfg EXCEPT !.every = setter[c].every]
      BY <1>6, <2>3 DEF SetInterval
    <3>2. s \in Stages /\ s \in {"restop", "save"} /\ (s = "restop" <=> running)
      BY DEF Stages
    <3> HIDE DEF s
    <3>3. SetterIs(c, s, setter[c].every, TRUE, setter[c].data)
      BY <1>1, <3>1, <3>2, MovesChanged
    <3>4. setter[c].every \in WatchIntervals
      BY <1>1, <2>3 DEF SetTypes, SetterStates
    <3>5. watchCfg' \in WatchConfig /\ watchCfg'.every = setter[c].every
      BY <1>1, <3>1, <3>4 DEF WatchConfig
    <3>6. SetTypes' /\ Busy(c)
      BY <1>1, <2>1, <3>3, <3>5 DEF SetTypes, SetterIs, Busy
    <3>7. Whole(c)'
      BY <2>1, <3>2, <3>3, <3>5 DEF Whole, RequestInOrder, SetterIs, NewestInForce, loopVars
    <3>8. QED
      BY <2>1, <2>3, <3>3, <3>6, <3>7, RequestMoves DEF SetterIs
  <2>4. QED
    BY <2>2, <2>3
<1>7. CASE RestartStop(c)
  <2>1. /\ setter[c].at = "restop" /\ running' = FALSE /\ At(c, "restart")
        /\ UNCHANGED <<watchCfg, disk, overlap, crashes>>
    BY <1>7 DEF RestartStop, Stop
  <2>2. SetterIs(c, "restart", setter[c].every, setter[c].changed, setter[c].data)
    BY <1>1, <2>1, MovesOn DEF Stages
  <2>3. SetTypes' /\ Busy(c)
    BY <1>1, <2>1, <2>2 DEF SetTypes, SetterIs, Busy
  <2>4. Orderly => Whole(c)'
    BY <1>2, <2>1, <2>2, <2>3 DEF Whole, RequestInOrder, SetterIs, NewestInForce
  <2>5. setter'[c].every # "none"
    BY <2>1, <2>2 DEF SetInv, RestartHasInterval, SetterIs
  <2>6. QED
    BY <2>1, <2>2, <2>3, <2>4, <2>5, RequestMoves DEF SetterIs
<1>8. CASE RestartStart(c)
  <2>1. /\ setter[c].at = "restart" /\ Starts < MaxWatchStarts /\ At(c, "save")
        /\ IF running THEN UNCHANGED loopVars ELSE Start(setter[c].every)
        /\ UNCHANGED <<watchCfg, disk, overlap, crashes>>
    BY <1>8 DEF RestartStart
  <2>2. SetterIs(c, "save", setter[c].every, setter[c].changed, setter[c].data)
    BY <1>1, <2>1, MovesOn DEF Stages
  <2>3. SetTypes' /\ Busy(c)
    BY <1>1, <2>1, <2>2 DEF SetTypes, SetterIs, Busy
  <2>4. ASSUME Orderly PROVE Whole(c)'
    <3>1. ~running /\ setter[c].every = watchCfg.every /\ Whole(c)
      BY <1>2, <2>1, <2>3, <2>4 DEF Whole, RequestInOrder
    <3>2. NewestInForce'
      BY <1>1, <2>1, <3>1, StartInForce
    <3>3. QED
      BY <2>1, <2>2, <3>1, <3>2 DEF Whole, RequestInOrder, SetterIs
  <2>5. QED
    BY <2>1, <2>2, <2>3, <2>4, RequestMoves DEF SetterIs
<1>9. CASE BeginSave(c)
  <2>1. setter[c].at = "save" /\ UNCHANGED <<loopVars, watchCfg, overlap, crashes>>
    BY <1>9 DEF BeginSave
  <2>2. CASE ~setter[c].changed
    <3>1. setter' = [setter EXCEPT ![c] = Idle0] /\ UNCHANGED disk
      BY <1>9, <2>2 DEF BeginSave, Unchanged
    <3>2. SetterIs(c, "idle", "none", FALSE, Torn)
      BY <1>1, <3>1 DEF SetTypes, SetterIs, SetterStates, Idle0
    <3>3. SetTypes' /\ Busy(c)
      BY <1>1, <2>1, <3>1, <3>2 DEF SetTypes, SetterIs, Busy
    <3>4. Orderly => Whole(c)'
      BY <1>2, <2>1, <2>2, <3>1, <3>2, <3>3, StillInForce DEF Whole, RequestInOrder, SetterIs
    <3>5. QED
      BY <2>1, <3>2, <3>3, <3>4, RequestMoves DEF SetterIs
  <2>3. CASE setter[c].changed
    <3>1. setter' = [setter EXCEPT ![c].at = "write", ![c].data = watchCfg] /\ disk' = Torn
      BY <1>9, <2>3 DEF BeginSave, Unchanged
    <3>2. SetterIs(c, "write", setter[c].every, setter[c].changed, watchCfg)
      BY <1>1, <3>1 DEF SetTypes, SetterIs, SetterStates
    <3>3. SetTypes' /\ Busy(c)
      BY <1>1, <2>1, <3>1, <3>2 DEF SetTypes, SetterIs, Busy
    <3>4. Orderly => Whole(c)'
      BY <1>2, <2>1, <2>3, <3>1, <3>2, <3>3, StillInForce DEF Whole, RequestInOrder, SetterIs
    <3>5. QED
      BY <2>1, <3>2, <3>3, <3>4, RequestMoves DEF SetterIs
  <2>4. QED
    BY <2>2, <2>3 DEF SetInv, SetTypes, SetterStates
<1>10. CASE EndSave(c)
  <2>1. /\ setter[c].at = "write" /\ disk' = setter[c].data /\ setter' = [setter EXCEPT ![c] = Idle0]
        /\ UNCHANGED <<loopVars, watchCfg, overlap, crashes>>
    BY <1>10 DEF EndSave
  <2>2. SetterIs(c, "idle", "none", FALSE, Torn) /\ setter[c].data \in WatchConfig \cup {Torn}
    BY <1>1, <2>1 DEF SetTypes, SetterIs, SetterStates, Idle0
  <2>3. SetTypes' /\ Busy(c)
    BY <1>1, <2>1, <2>2 DEF SetTypes, SetterIs, Busy
  <2>4. Orderly => Whole(c)'
    BY <1>2, <2>1, <2>2, <2>3, StillInForce DEF Whole, RequestInOrder, SetterIs
  <2>5. QED
    BY <2>1, <2>2, <2>3, <2>4, RequestMoves DEF SetterIs
<1>11. CASE AutoRead(c)
  <2>1. /\ setter[c].at = "auto" /\ UNCHANGED <<loopVars, watchCfg, disk, overlap, crashes>>
        /\ setter' = [setter EXCEPT ![c].at = "autostart", ![c].every = watchCfg.every]
    BY <1>11 DEF AutoRead
  <2>2. SetterIs(c, "autostart", watchCfg.every, setter[c].changed, setter[c].data)
    BY <1>1, <2>1 DEF SetTypes, SetterIs, SetterStates
  <2>3. SetTypes' /\ Busy(c)
    BY <1>1, <2>1, <2>2 DEF SetTypes, SetterIs, Busy
  <2>4. Orderly => Whole(c)'
    BY <1>2, <2>1, <2>2, <2>3, StillInForce DEF Whole, RequestInOrder, SetterIs
  <2>5. setter'[c].every # "none"
    BY <1>1, <2>2 DEF SetterIs
  <2>6. QED
    BY <2>1, <2>2, <2>3, <2>4, <2>5, RequestMoves DEF SetterIs
<1>12. CASE AutoStart(c)
  <2>1. /\ setter[c].at = "autostart" /\ Starts < MaxWatchStarts
        /\ setter' = [setter EXCEPT ![c] = Idle0]
        /\ IF running THEN UNCHANGED loopVars ELSE Start(setter[c].every)
        /\ UNCHANGED <<watchCfg, disk, overlap, crashes>>
    BY <1>12 DEF AutoStart
  <2>2. SetterIs(c, "idle", "none", FALSE, Torn)
    BY <1>1, <2>1 DEF SetTypes, SetterIs, SetterStates, Idle0
  <2>3. SetTypes' /\ Busy(c)
    BY <1>1, <2>1, <2>2 DEF SetTypes, SetterIs, Busy
  <2>4. ASSUME Orderly PROVE Whole(c)'
    <3>1. setter[c].every = watchCfg.every /\ Whole(c) /\ ~setter[c].changed
      BY <1>2, <2>1, <2>3, <2>4 DEF Whole, RequestInOrder
    <3>2. NewestInForce'
      BY <1>1, <2>1, <3>1, StartInForce, StillInForce DEF Whole
    <3>3. QED
      BY <2>1, <2>2, <3>1, <3>2 DEF Whole, RequestInOrder, SetterIs
  <2>5. QED
    BY <2>1, <2>2, <2>3, <2>4, RequestMoves DEF SetterIs
<1>13. QED
  BY <1>3, <1>4, <1>5, <1>6, <1>7, <1>8, <1>9, <1>10, <1>11, <1>12 DEF SetStep

\* A goroutine watches with the interval it began with, and begins with the one in force.
LEMMA GoroutineSettings ==
  ASSUME SetInv, LoopsInv, NEW l \in 1..MaxWatchStarts, LoopStep(l) \/ RunOnce(l)
  PROVE  SetInv'
<1>1. UNCHANGED <<running, stopCh, closedStops, interval, setVars>>
  BY DEF LoopStep, LoopBegins, LoopEnds, RunOnce, Detected
<1>2. UNCHANGED <<watchCfg, disk, setter, overlap, crashes>>
  BY <1>1 DEF setVars
<1>3. ASSUME NewestInForce PROVE NewestInForce'
  <2> SUFFICES ASSUME running
               PROVE  \/ loops'[stopCh].at = "starting" /\ interval = watchCfg.every
                      \/ /\ loops'[stopCh].at \in {"waiting", "capturing"}
                         /\ loops'[stopCh].every = watchCfg.every
    BY <1>1, <1>2 DEF NewestInForce
  <2>1. stopCh \in 1..MaxWatchStarts /\ loops \in [1..MaxWatchStarts -> LoopStates]
    BY DEF LoopsInv, LoopTypes, StartsCounted
  <2>2. CASE LoopBegins(l)
    BY <1>3, <2>1, <2>2 DEF LoopBegins, NewestInForce
  <2>3. CASE LoopEnds(l)
    <3>1. stopCh # l
      BY <2>3 DEF LoopEnds, LoopsInv, StartsCounted, NewestWatches
    <3>2. QED
      BY <1>3, <2>1, <2>3, <3>1 DEF LoopEnds, NewestInForce
  <2>4. CASE RunOnce(l)
    BY <1>3, <2>1, <2>4 DEF RunOnce, NewestInForce, LoopStates
  <2>5. CASE Detected(l)
    BY <1>3, <2>1, <2>5 DEF Detected, NewestInForce
  <2>6. QED
    BY <2>2, <2>3, <2>4, <2>5 DEF LoopStep
<1>4. SetTypes' /\ RestartHasInterval' /\ OneBusy'
  BY <1>2 DEF SetInv, SetTypes, RestartHasInterval, OneBusy, Busy
<1>5. SettingsFollow'
  <2> SUFFICES ASSUME Orderly' PROVE SettingsFollow!2'
    BY DEF SettingsFollow
  <2>1. Orderly
    BY <1>2 DEF Orderly
  <2>2. SettingsFollow!2
    BY <2>1 DEF SetInv, SettingsFollow
  <2>3. \A c \in WatchCallers : RequestInOrder(c)'
    BY <1>1, <1>2, <2>2 DEF RequestInOrder
  <2>4. QED
    BY <1>2, <1>3, <2>2, <2>3
<1>6. QED
  BY <1>4, <1>5 DEF SetInv

\* A request that begins while another is at work is noted; one that begins alone finds
\* everything whole.
LEMMA RequestBegins ==
  ASSUME SetInv, NEW c \in WatchCallers, NEW r \in WatchRequests, SetWatchConfig(c, r[1], r[2])
  PROVE  SetInv'
<1>1. r[1] \in {"on", "off", "absent"} /\ r[2] \in WatchIntervals \cup {"none"}
  OBVIOUS
<1> DEFINE new == [at |-> "status", enable |-> r[1], every |-> r[2], changed |-> FALSE, data |-> Torn]
<1>2. /\ setter[c].at = "idle" /\ setter' = [setter EXCEPT ![c] = new]
      /\ overlap' = (overlap \/ \E d \in WatchCallers \ {c} : Busy(d))
      /\ UNCHANGED <<loopVars, watchCfg, disk, crashes>>
  BY DEF SetWatchConfig
<1>3. new \in SetterStates
  BY <1>1 DEF SetterStates
<1>4. SetterIs(c, "status", r[2], FALSE, Torn)
  BY <1>2, <1>3 DEF SetterIs, SetInv, SetTypes
<1>5. SetTypes'
  <2>1. overlap' \in BOOLEAN
    BY <1>2
  <2>2. QED
    BY <1>2, <1>4, <2>1 DEF SetInv, SetTypes, SetterIs
<1>6. RestartHasInterval'
  BY <1>4 DEF SetInv, RestartHasInterval, SetterIs
<1>7. OneBusy'
  <2> SUFFICES ASSUME ~overlap', NEW a \in WatchCallers, NEW b \in WatchCallers, Busy(a)', Busy(b)'
               PROVE  a = b
    BY DEF OneBusy
  <2>1. ~overlap /\ \A d \in WatchCallers : d # c => ~Busy(d)
    BY <1>2
  <2>2. \A d \in WatchCallers : d # c => ~Busy(d)'
    BY <1>4, <2>1 DEF Busy, SetterIs
  <2>3. QED
    BY <2>2
<1>8. SettingsFollow'
  <2> SUFFICES ASSUME Orderly' PROVE SettingsFollow!2'
    BY DEF SettingsFollow
  <2>1. Orderly /\ \A d \in WatchCallers : setter[d].at = "idle"
    BY <1>2, <1>4 DEF Orderly, SetterIs, Busy
  <2>2. /\ \A d \in WatchCallers : RequestInOrder(d) /\ ~setter[d].changed
        /\ NewestInForce /\ (disk # Torn => disk = watchCfg)
    BY <2>1 DEF SetInv, SettingsFollow, RequestInOrder
  <2>3. NewestInForce'
    BY <1>2, <2>2, StillInForce
  <2>4. \A d \in WatchCallers : RequestInOrder(d)'
    BY <1>2, <1>4, <2>1, <2>2 DEF RequestInOrder, SetterIs
  <2>5. QED
    BY <1>2, <2>2, <2>3, <2>4
<1>9. QED
  BY <1>5, <1>6, <1>7, <1>8 DEF SetInv

LEMMA SetterAt ==
  ASSUME NEW r \in SetterStates, NEW at
  PROVE  [r EXCEPT !.at = at]
           = [at |-> at, enable |-> r.enable, every |-> r.every, changed |-> r.changed, data |-> r.data]
BY DEF SetterStates

\* A server that starts reads what is on disk, and at most starts the watcher by itself.
LEMMA AutoStartingKeeps ==
  ASSUME NEW c \in WatchCallers, NEW config \in WatchConfig
  PROVE  /\ AutoStarting(c, config) \in [WatchCallers -> SetterStates]
         /\ \A d \in WatchCallers : LET s == AutoStarting(c, config)[d] IN
              s.at \in {"idle", "auto"} /\ ~s.changed /\ (d # c => s.at = "idle")
<1> DEFINE new == [at |-> "auto", enable |-> "absent", every |-> "none", changed |-> FALSE, data |-> Torn]
<1>1. Idle0 \in SetterStates /\ new \in SetterStates
  BY DEF SetterStates, Idle0
<1>2. [Idle0 EXCEPT !.at = "auto"] = new
  <2>1. /\ Idle0.enable = "absent" /\ Idle0.every = "none"
        /\ Idle0.changed = FALSE /\ Idle0.data = Torn
    BY DEF Idle0
  <2>2. QED
    BY <1>1, <2>1, SetterAt
<1>3. AutoStarting(c, config) = [d \in WatchCallers |-> IF d = c /\ config.auto THEN new ELSE Idle0]
  BY <1>2 DEF AutoStarting
<1>4. QED
  BY <1>1, <1>3 DEF Idle0

LEMMA BootSettings ==
  ASSUME SetInv, NEW c \in WatchCallers, Boot(c)
  PROVE  SetInv'
<1>1. Loaded \in WatchConfig /\ (disk # Torn => Loaded = disk)
  BY DEF SetInv, SetTypes, Loaded, DefaultConfig, WatchConfig
<1>2. /\ running' = FALSE /\ watchCfg' = Loaded /\ overlap' = FALSE /\ disk' = disk
      /\ setter' = AutoStarting(c, Loaded) /\ crashes' \in 0..MaxCrashes
  BY DEF Boot, SetInv, SetTypes
<1>3. /\ setter' \in [WatchCallers -> SetterStates]
      /\ \A d \in WatchCallers : setter'[d].at \in {"idle", "auto"} /\ ~setter'[d].changed
                                 /\ (d # c => setter'[d].at = "idle")
  BY <1>1, <1>2, AutoStartingKeeps
<1>4. SetTypes' /\ RestartHasInterval' /\ OneBusy'
  BY <1>1, <1>2, <1>3 DEF SetInv, SetTypes, RestartHasInterval, OneBusy, Busy
<1>5. SettingsFollow'
  BY <1>1, <1>2, <1>3 DEF SettingsFollow, RequestInOrder, NewestInForce
<1>6. QED
  BY <1>4, <1>5 DEF SetInv

-----------------------------------------------------------------------------
(* The whole watcher                                                         *)

CacheBounded == cache \in 0..MaxCache
WholeInv == LoopsInv /\ SetInv /\ CacheBounded

LEMMA WatchInitInv == WatchInit => WholeInv
<1> SUFFICES ASSUME WatchInit PROVE WholeInv
  OBVIOUS
<1>1. NoLoop \in LoopStates /\ NoLoop.at = "none" /\ DefaultConfig \in WatchConfig
  BY DEF NoLoop, LoopStates, DefaultConfig, WatchConfig
<1>2. LoopsInv
  <2>1. /\ running = FALSE /\ stopCh = 0 /\ closedStops = {} /\ interval = DefaultInterval
        /\ loops = [l \in 1..MaxWatchStarts |-> NoLoop]
    BY DEF WatchInit
  <2>2. LoopTypes /\ LoopsFollow /\ NewestWatches
    <3>1. stopCh \in 0..MaxWatchStarts /\ interval \in WatchIntervals
      BY <2>1
    <3> running \in BOOLEAN
      BY <2>1, Zenon
    <3>2. loops \in [1..MaxWatchStarts -> LoopStates]
      BY <1>1, <2>1
    <3>3. \A l \in 1..MaxWatchStarts : loops[l].at = "none"
      BY <1>1, <2>1
    <3>4. QED
      BY <2>1, <3>1, <3>2, <3>3 DEF LoopTypes, LoopsFollow, NewestWatches
  <2>3. StartsCounted
    BY <2>1 DEF StartsCounted
  <2>4. QED
    BY <2>2, <2>3 DEF LoopsInv
<1>3. SetInv
  <2>1. PICK c \in WatchCallers : setter = AutoStarting(c, DefaultConfig)
    BY DEF WatchInit
  <2>2. /\ setter \in [WatchCallers -> SetterStates]
        /\ \A d \in WatchCallers : setter[d].at \in {"idle", "auto"} /\ ~setter[d].changed
                                   /\ (d # c => setter[d].at = "idle")
    BY <1>1, <2>1, AutoStartingKeeps
  <2>3. SetTypes /\ RestartHasInterval /\ OneBusy
    <3>1. watchCfg = DefaultConfig /\ disk = DefaultConfig /\ overlap = FALSE /\ crashes = 0
      BY DEF WatchInit
    <3>2. SetTypes
      <4>1. crashes \in 0..MaxCrashes
        BY <3>1
      <4> overlap \in BOOLEAN
        BY <3>1, Zenon
      <4>2. watchCfg \in WatchConfig /\ disk \in WatchConfig \cup {Torn}
        BY <1>1, <3>1
      <4>3. QED
        BY <2>2, <4>1, <4>2 DEF SetTypes
    <3>3. QED
      BY <2>2, <3>2 DEF RestartHasInterval, OneBusy, Busy
  <2>4. SettingsFollow
    BY <2>2 DEF WatchInit, SettingsFollow, RequestInOrder, NewestInForce
  <2>5. QED
    BY <2>3, <2>4 DEF SetInv
<1>4. QED
  BY <1>2, <1>3 DEF WatchInit, WholeInv, CacheBounded

LEMMA WatchNextInv == WholeInv /\ [WatchNext]_watchVars => WholeInv'
<1> SUFFICES ASSUME WholeInv, [WatchNext]_watchVars PROVE WholeInv'
  OBVIOUS
<1> USE DEF WholeInv
<1>1. ASSUME NEW l \in 1..MaxWatchStarts, LoopStep(l) \/ RunOnce(l) PROVE WholeInv'
  <2>1. CacheBounded'
    BY <1>1 DEF CacheBounded, LoopStep, LoopBegins, LoopEnds, RunOnce, Detected, Cached
  <2>2. QED
    BY <1>1, <2>1, GoroutineKeeps, GoroutineSettings
<1>2. ASSUME NEW c \in WatchCallers, NEW r \in WatchRequests, SetWatchConfig(c, r[1], r[2])
      PROVE  WholeInv'
  <2>1. UNCHANGED <<loopVars, cache>>
    BY <1>2 DEF SetWatchConfig
  <2>2. QED
    BY <1>2, <2>1, LoopsUnchanged, RequestBegins DEF CacheBounded
<1>3. ASSUME NEW c \in WatchCallers, SetStep(c) PROVE WholeInv'
  <2>1. UNCHANGED cache
    BY <1>3 DEF SetStep, ReadStatus, SetStart, SetStop, SetInterval, RestartStop, RestartStart,
                BeginSave, EndSave, AutoRead, AutoStart
  <2>2. QED
    BY <1>3, <2>1, SetStepLoops, RequestKeeps DEF CacheBounded
<1>4. ASSUME NEW c \in WatchCallers, Boot(c) PROVE WholeInv'
  <2>1. cache' = 0
    BY <1>4 DEF Boot
  <2>2. QED
    BY <1>4, <2>1, BootEndsLoops, BootSettings DEF CacheBounded
<1>5. CASE UNCHANGED watchVars
  <2>1. UNCHANGED <<loopVars, cache, watchCfg, disk, setter, overlap, crashes>>
    BY <1>5 DEF watchVars, loopVars
  <2>2. SetInv'
    BY <2>1 DEF SetInv, SetTypes, RestartHasInterval, OneBusy, Busy, SettingsFollow, Orderly, RequestInOrder,
                NewestInForce, loopVars
  <2>3. QED
    BY <2>1, <2>2, LoopsUnchanged DEF CacheBounded
<1>6. QED
  BY <1>1, <1>2, <1>3, <1>4, <1>5 DEF WatchNext

\* Every variable of the watcher stays in its type, with no bound on the requests.
THEOREM WatchTypeCorrect == WatchSpec => []WatchTypeOK
<1>1. WholeInv => WatchTypeOK
  <2> SUFFICES ASSUME WholeInv PROVE WatchTypeOK
    OBVIOUS
  <2>1. closedStops \subseteq 1..MaxWatchStarts
    BY DEF WholeInv, LoopsInv, LoopTypes, StartsCounted
  <2>2. QED
    BY <2>1 DEF WholeInv, CacheBounded, LoopsInv, LoopTypes, LoopStates, SetInv, SetTypes, SetterStates, WatchTypeOK
<1>2. QED
  BY <1>1, WatchInitInv, WatchNextInv, PTL DEF WatchSpec

\* What get_watcher_status says is so, and what set_config was last told is in force: in
\* every state of every behaviour, whatever the requests, restarts and crashes.
THEOREM WatcherInForceHolds == WatchSpec => []WatcherInForce
<1>1. WholeInv => WatcherInForce
  <2> SUFFICES ASSUME WholeInv PROVE WatcherInForce
    OBVIOUS
  <2>1. RunningWatches
    <3>1. CASE running
      <4>1. stopCh \in 1..MaxWatchStarts /\ stopCh \notin closedStops
        BY <3>1 DEF WholeInv, LoopsInv, LoopTypes, StartsCounted
      <4>2. QED
        BY <3>1, <4>1 DEF WholeInv, LoopsInv, NewestWatches, RunningWatches
    <3>2. CASE ~running
      BY <3>2 DEF WholeInv, LoopsInv, LoopsFollow, RunningWatches, Winding
    <3>3. QED
      BY <3>1, <3>2
  <2>2. ASSUME Quiet PROVE SettingsInForce
    <3>1. /\ Orderly /\ \A c \in WatchCallers : setter[c].at = "idle" /\ RequestInOrder(c)
          /\ \A c \in WatchCallers : ~setter[c].changed
      BY <2>2 DEF Quiet, Orderly, WholeInv, SetInv, SettingsFollow, RequestInOrder
    <3>2. NewestInForce /\ (disk # Torn => disk = watchCfg)
      BY <3>1 DEF WholeInv, SetInv, SettingsFollow
    <3>3. running => stopCh \in 1..MaxWatchStarts
      BY DEF WholeInv, LoopsInv, LoopTypes, StartsCounted
    <3>4. QED
      BY <3>2, <3>3 DEF SettingsInForce, NewestInForce
  <2>3. QED
    BY <2>1, <2>2 DEF WatcherInForce, SettingsInForce
<1>2. QED
  BY <1>1, WatchInitInv, WatchNextInv, PTL DEF WatchSpec

-----------------------------------------------------------------------------
(* The screen tools: what they compare                                       *)

\* (What a recursive definition computes is shown by the least number for which it does not.)
LEMMA LeastNumber ==
  ASSUME NEW T \in SUBSET Nat, T # {}
  PROVE  \E n \in T : \A m \in T : n <= m
<1> DEFINE R == OpToRel(<, Nat)
<1>1. IsWellFoundedOn(R, Nat)
  BY NatLessThanWellFounded
<1>2. \A x \in Nat, y \in Nat : <<y, x>> \in R <=> y < x
  BY DEF OpToRel
<1> HIDE DEF R
<1>3. T \subseteq Nat
  OBVIOUS
<1>4. PICK n \in T : \A m \in T : ~(<<m, n>> \in R)
  BY <1>1, <1>3, WFMin, Zenon
<1>5. ASSUME NEW m \in T PROVE n <= m
  <2>1. m \in Nat /\ n \in Nat /\ ~(m < n)
    BY <1>2, <1>3, <1>4
  <2>2. QED
    BY <2>1
<1>6. QED
  BY <1>5, Zenon

\* (Counting up, from nothing to all.)
LEMMA CountUp ==
  ASSUME NEW I, NEW N \in Nat, 0 \in I, \A n \in 0..N : n \in I /\ n # N => n + 1 \in I
  PROVE  N \in I
<1> DEFINE T == {n \in 0..N : n \notin I}
<1>1. ASSUME T # {} PROVE FALSE
  <2>1. T \in SUBSET Nat
    OBVIOUS
  <2> HIDE DEF T
  <2>2. PICK k \in T : \A m \in T : k <= m
    BY <1>1, <2>1, LeastNumber
  <2>3. k \in 0..N /\ k \notin I
    BY <2>2 DEF T
  <2>4. k # 0
    BY <2>3
  <2>5. k - 1 \in 0..N /\ k - 1 \notin T /\ k - 1 # N
    BY <2>2, <2>3, <2>4
  <2>6. k - 1 \in I
    BY <2>5 DEF T
  <2>7. (k - 1) + 1 \in I
    BY <2>5, <2>6
  <2>8. (k - 1) + 1 = k
    BY <2>3
  <2>9. QED
    BY <2>3, <2>7, <2>8
<1>2. QED
  BY <1>1

\* f starts with z and takes the steps g, N of them; such an f is there.
Stepping(f, S, z, g, N) == f \in [0..N -> S] /\ f[0] = z /\ \A n \in 1..N : f[n] = g[n][f[n - 1]]
LEMMA StepByStep ==
  ASSUME NEW S, NEW z \in S, NEW N \in Nat, NEW g \in [1..N -> [S -> S]]
  PROVE  \E f : Stepping(f, S, z, g, N)
<1> DEFINE Fits(f, k) == f \in [0..k -> S] /\ f[0] = z /\ \A n \in 1..k : f[n] = g[n][f[n - 1]]
           T == {k \in 0..N : ~\E f : Fits(f, k)}
<1>1. ASSUME T # {} PROVE FALSE
  <2>1. T \in SUBSET Nat
    OBVIOUS
  <2> HIDE DEF T
  <2>2. PICK k \in T : \A m \in T : k <= m
    BY <1>1, <2>1, LeastNumber
  <2>3. k \in 0..N /\ ~\E f : Fits(f, k)
    BY <2>2 DEF T
  <2>4. k # 0
    <3>1. Fits([n \in 0..0 |-> z], 0)
      OBVIOUS
    <3>2. QED
      BY <2>3, <3>1
  <2>5. k - 1 \in 0..N /\ k - 1 \notin T
    BY <2>2, <2>3, <2>4
  <2>6. PICK f : Fits(f, k - 1)
    BY <2>5 DEF T
  <2>7. PICK h : h = [n \in 0..k |-> IF n = k THEN g[k][f[k - 1]] ELSE f[n]]
    OBVIOUS
  <2>8. k \in 1..N /\ k - 1 \in 0..k - 1
    BY <2>3, <2>4
  <2>9. g[k][f[k - 1]] \in S
    <3>1. g[k] \in [S -> S] /\ f[k - 1] \in S
      BY <2>6, <2>8
    <3>2. QED
      BY <3>1
  <2>10. ASSUME NEW n \in 0..k, n # k PROVE n \in 0..k - 1 /\ h[n] = f[n] /\ f[n] \in S
    <3>1. n \in 0..k - 1
      BY <2>3, <2>10
    <3>2. QED
      BY <2>6, <2>7, <2>10, <3>1
  <2>11. h[k] = g[k][f[k - 1]] /\ k \in 0..k
    BY <2>3, <2>7
  <2>12. h \in [0..k -> S]
    BY <2>7, <2>9, <2>10
  <2>13. h[0] = z
    <3>1. 0 \in 0..k
      BY <2>3
    <3>2. QED
      BY <2>4, <2>6, <2>10, <3>1
  <2>14. ASSUME NEW n \in 1..k PROVE h[n] = g[n][h[n - 1]]
    <3>1. n - 1 \in 0..k /\ n - 1 # k /\ n \in 0..k
      BY <2>3
    <3>2. h[n - 1] = f[n - 1]
      BY <2>10, <3>1
    <3>3. CASE n = k
      BY <2>11, <3>2, <3>3
    <3>4. CASE n # k
      <4>1. n \in 1..k - 1 /\ h[n] = f[n]
        BY <2>3, <2>10, <3>1, <3>4
      <4>2. QED
        BY <2>6, <3>2, <4>1
    <3>5. QED
      BY <3>3, <3>4
  <2>15. Fits(h, k)
    BY <2>12, <2>13, <2>14
  <2>16. QED
    BY <2>3, <2>15
<1>2. N \in 0..N /\ N \notin T
  <2> HIDE DEF T
  <2>1. QED
    BY <1>1
<1>3. PICK f : Fits(f, N)
  BY <1>2
<1>4. QED
  BY <1>3 DEF Stepping

\* Two sequences of steps that begin alike and go on alike are the same.
LEMMA StepsAgree ==
  ASSUME NEW N \in Nat, NEW f, NEW u, f[0] = u[0], \A n \in 1..N : f[n - 1] = u[n - 1] => f[n] = u[n]
  PROVE  f[N] = u[N]
<1> DEFINE I == {n \in 0..N : f[n] = u[n]}
<1>1. 0 \in I
  OBVIOUS
<1>2. ASSUME NEW n \in 0..N, n \in I, n # N PROVE n + 1 \in I
  <2>1. n + 1 \in 1..N /\ (n + 1) - 1 = n /\ n + 1 \in 0..N /\ f[n] = u[n]
    BY <1>2
  <2>2. QED
    BY <2>1
<1> HIDE DEF I
<1>3. N \in I
  BY <1>1, <1>2, CountUp
<1>4. QED
  BY <1>3 DEF I

LEMMA Appended ==
  ASSUME NEW S, NEW s \in Seq(S), NEW e \in S
  PROVE  /\ Append(s, e) \in Seq(S) /\ Len(Append(s, e)) = Len(s) + 1 /\ DOMAIN Append(s, e) = 1..(Len(s) + 1)
         /\ Append(s, e)[Len(s) + 1] = e /\ \A i \in 1..Len(s) : Append(s, e)[i] = s[i]
OBVIOUS

\* What is picked from a sequence, step by step.
Picking(f, S, s, at) ==
  /\ f \in [0..Len(s) -> Seq(S)] /\ f[0] = <<>> /\ Picked(s, at) = f[Len(s)]
  /\ \A n \in 1..Len(s) : f[n] = IF n \in at THEN Append(f[n - 1], s[n]) ELSE f[n - 1]
LEMMA PickedSteps ==
  ASSUME NEW S, NEW s \in Seq(S), NEW at
  PROVE  \E f : Picking(f, S, s, at)
<1>0. PICK N : N = Len(s)
  OBVIOUS
<1> DEFINE Next(f, n) == IF n = 0 THEN <<>> ELSE IF n \in at THEN Append(f[n - 1], s[n]) ELSE f[n - 1]
<1>1. N \in Nat /\ \A n \in 1..N : s[n] \in S
  BY <1>0
<1>2. PICK g : g = [n \in 1..N |-> [t \in Seq(S) |-> IF n \in at THEN Append(t, s[n]) ELSE t]]
  OBVIOUS
<1>3. ASSUME NEW n \in 1..N, NEW t \in Seq(S) PROVE g[n][t] \in Seq(S) /\ g[n][t] = IF n \in at THEN Append(t, s[n]) ELSE t
  <2>1. g[n][t] = IF n \in at THEN Append(t, s[n]) ELSE t
    BY <1>2
  <2>2. s[n] \in S
    BY <1>1
  <2>3. Append(t, s[n]) \in Seq(S)
    BY <2>2
  <2>4. QED
    BY <2>1, <2>3
<1>4. g \in [1..N -> [Seq(S) -> Seq(S)]]
  BY <1>2, <1>3
<1>5. PICK f : Stepping(f, Seq(S), <<>>, g, N)
  <2> HIDE DEF Next
  <2>1. PICK Q, z : Q = Seq(S) /\ z = <<>>
    OBVIOUS
  <2>2. z \in Q /\ g \in [1..N -> [Q -> Q]] /\ N \in Nat
    BY <1>1, <1>4, <2>1
  <2>3. \E f : Stepping(f, Q, z, g, N)
    BY <2>2, StepByStep
  <2>4. QED
    BY <2>1, <2>3
<1>6. ASSUME NEW n \in 1..N PROVE f[n] = IF n \in at THEN Append(f[n - 1], s[n]) ELSE f[n - 1]
  <2>1. n - 1 \in 0..N /\ f[n - 1] \in Seq(S)
    BY <1>1, <1>5 DEF Stepping
  <2>2. QED
    BY <1>3, <1>5, <2>1 DEF Stepping
<1>7. f = [n \in 0..N |-> Next(f, n)]
  <2>1. ASSUME NEW n \in 0..N PROVE f[n] = Next(f, n)
    <3>1. CASE n = 0
      BY <1>5, <3>1 DEF Stepping
    <3>2. CASE n # 0
      <4>1. n \in 1..N
        BY <3>2
      <4>2. QED
        BY <1>6, <3>2, <4>1
    <3>3. QED
      BY <3>1, <3>2
  <2>2. QED
    BY <1>5, <2>1 DEF Stepping
<1>8. PICK u : u = [n \in 0..N |-> Next(u, n)] /\ Picked(s, at) = u[N]
  <2> DEFINE c == CHOOSE v : v = [n \in 0..N |-> Next(v, n)]
  <2>1. c = [n \in 0..N |-> Next(c, n)]
    BY <1>7, Zenon
  <2>2. Picked(s, at) = c[N]
    BY <1>0, <1>1 DEF Picked
  <2>3. QED
    BY <2>1, <2>2
<1>9. f[N] = u[N]
  <2>1. \A n \in 0..N : u[n] = Next(u, n) /\ f[n] = Next(f, n)
    BY <1>7, <1>8
  <2>2. f[0] = u[0]
    <3>1. 0 \in 0..N
      BY <1>1
    <3>2. QED
      BY <2>1, <3>1
  <2>3. ASSUME NEW n \in 1..N, f[n - 1] = u[n - 1] PROVE f[n] = u[n]
    <3>1. n \in 0..N /\ n # 0
      BY <1>1
    <3>2. QED
      BY <2>1, <2>3, <3>1
  <2> HIDE DEF Next
  <2>4. QED
    BY <1>1, <2>2, <2>3, StepsAgree
<1>10. f \in [0..N -> Seq(S)] /\ f[0] = <<>>
  BY <1>5 DEF Stepping
<1>11. Picked(s, at) = f[N]
  BY <1>8, <1>9
<1>12. QED
  BY <1>0, <1>6, <1>10, <1>11 DEF Picking

\* p is made of what s has at the indexes in at, among the first n: h tells which.
Drawn(h, p, s, at, n) ==
  /\ h \in [1..Len(p) -> (1..n) \cap at]
  /\ \A i, j \in 1..Len(p) : i < j => h[i] < h[j]
  /\ \A i \in 1..Len(p) : p[i] = s[h[i]]
  /\ \A k \in (1..n) \cap at : \E i \in 1..Len(p) : h[i] = k

LEMMA PickedDrawn ==
  ASSUME NEW S, NEW s \in Seq(S), NEW at
  PROVE  Picked(s, at) \in Seq(S) /\ \E h : Drawn(h, Picked(s, at), s, at, Len(s))
<1>0. PICK f : Picking(f, S, s, at)
  BY PickedSteps
<1>1. /\ f \in [0..Len(s) -> Seq(S)] /\ f[0] = <<>> /\ Picked(s, at) = f[Len(s)]
      /\ \A n \in 1..Len(s) : f[n] = IF n \in at THEN Append(f[n - 1], s[n]) ELSE f[n - 1]
  BY <1>0 DEF Picking
<1>2. PICK N : N = Len(s) /\ N \in Nat
  OBVIOUS
<1> DEFINE I == {n \in 0..N : \E h : Drawn(h, f[n], s, at, n)}
<1>3. 0 \in I
  <2>1. Drawn([i \in 1..0 |-> 0], <<>>, s, at, 0)
    BY DEF Drawn
  <2>2. QED
    BY <1>1, <1>2, <2>1
<1>4. ASSUME NEW n \in 0..N, n \in I, n # N PROVE n + 1 \in I
  <2>1. n + 1 \in 1..N /\ (n + 1) - 1 = n /\ n + 1 \in 0..N /\ n \in Nat
    BY <1>2, <1>4
  <2>2. PICK h : Drawn(h, f[n], s, at, n)
    BY <1>4
  <2>3. f[n] \in Seq(S) /\ s[n + 1] \in S
    BY <1>1, <1>2, <2>1
  <2>4. PICK m : m = Len(f[n]) /\ m \in Nat
    BY <2>3
  <2>5. CASE n + 1 \in at
    <3>1. f[n + 1] = Append(f[n], s[n + 1])
      BY <1>1, <1>2, <2>1, <2>5
    <3>2. PICK p : p = f[n + 1]
      OBVIOUS
    <3>3. Len(p) = m + 1 /\ p[m + 1] = s[n + 1] /\ \A i \in 1..m : p[i] = f[n][i]
      BY <2>3, <2>4, <3>1, <3>2
    <3>4. PICK g : g = [i \in 1..(m + 1) |-> IF i = m + 1 THEN n + 1 ELSE h[i]]
      OBVIOUS
    <3>5. /\ \A i \in 1..m : i \in 1..(m + 1) /\ i # m + 1 /\ g[i] = h[i] /\ h[i] \in (1..n) \cap at
          /\ g[m + 1] = n + 1 /\ m + 1 \in 1..(m + 1)
      <4>1. h \in [1..m -> (1..n) \cap at]
        BY <2>2, <2>4 DEF Drawn
      <4>2. ASSUME NEW i \in 1..m PROVE i \in 1..(m + 1) /\ i # m + 1 /\ g[i] = h[i] /\ h[i] \in (1..n) \cap at
        <5>1. i \in 1..(m + 1) /\ i # m + 1
          BY <2>4
        <5>2. QED
          BY <3>4, <4>1, <5>1
      <4>3. g[m + 1] = n + 1 /\ m + 1 \in 1..(m + 1)
        BY <2>4, <3>4
      <4>4. QED
        BY <4>2, <4>3
    <3>6. ASSUME NEW i \in 1..(m + 1), i # m + 1 PROVE i \in 1..m
      BY <2>4, <3>6
    <3>7. g \in [1..(m + 1) -> (1..(n + 1)) \cap at]
      <4>1. ASSUME NEW i \in 1..(m + 1) PROVE g[i] \in (1..(n + 1)) \cap at
        BY <2>1, <2>5, <3>5, <3>6
      <4>2. QED
        BY <3>4, <4>1
    <3>8. ASSUME NEW i \in 1..(m + 1), NEW j \in 1..(m + 1), i < j PROVE g[i] < g[j]
      <4>1. i \in 1..m /\ g[i] = h[i] /\ h[i] \in 1..n
        BY <2>4, <3>5, <3>8
      <4>2. CASE j = m + 1
        BY <2>1, <3>5, <4>1, <4>2
      <4>3. CASE j # m + 1
        <5>1. j \in 1..m /\ g[j] = h[j]
          BY <3>5, <3>6, <4>3
        <5>2. h[i] < h[j]
          BY <2>2, <2>4, <3>8, <4>1, <5>1 DEF Drawn
        <5>3. QED
          BY <4>1, <5>1, <5>2
      <4>4. QED
        BY <4>2, <4>3
    <3>9. ASSUME NEW i \in 1..(m + 1) PROVE p[i] = s[g[i]]
      <4>1. CASE i = m + 1
        BY <3>3, <3>5, <4>1
      <4>2. CASE i # m + 1
        <5>1. i \in 1..m /\ g[i] = h[i] /\ p[i] = f[n][i]
          BY <3>3, <3>5, <3>6, <4>2
        <5>2. f[n][i] = s[h[i]]
          BY <2>2, <2>4, <5>1 DEF Drawn
        <5>3. QED
          BY <5>1, <5>2
      <4>3. QED
        BY <4>1, <4>2
    <3>10. ASSUME NEW k \in (1..(n + 1)) \cap at PROVE \E i \in 1..(m + 1) : g[i] = k
      <4>1. CASE k = n + 1
        BY <3>5, <4>1
      <4>2. CASE k # n + 1
        <5>1. k \in (1..n) \cap at
          BY <2>1, <4>2
        <5>2. PICK i \in 1..m : h[i] = k
          BY <2>2, <2>4, <5>1 DEF Drawn
        <5>3. QED
          BY <3>5, <5>2
      <4>3. QED
        BY <4>1, <4>2
    <3>11. Drawn(g, f[n + 1], s, at, n + 1)
      BY <3>2, <3>3, <3>7, <3>8, <3>9, <3>10 DEF Drawn
    <3>12. QED
      BY <2>1, <3>11
  <2>6. CASE n + 1 \notin at
    <3>1. f[n + 1] = f[n]
      BY <1>1, <1>2, <2>1, <2>6
    <3>2. (1..(n + 1)) \cap at = (1..n) \cap at
      BY <2>1, <2>6
    <3>3. Drawn(h, f[n + 1], s, at, n + 1)
      BY <2>2, <3>1, <3>2 DEF Drawn
    <3>4. QED
      BY <2>1, <3>3
  <2>7. QED
    BY <2>5, <2>6
<1> HIDE DEF I
<1>5. N \in I
  BY <1>2, <1>3, <1>4, CountUp
<1>6. QED
  BY <1>1, <1>2, <1>5 DEF I

\* A box has a surface and a confidence.
Marks == {"", "control"}
Boxes == {b \in [x : Int, y : Int, w : Int, h : Int, conf : Int, of : Marks] : b.w > 0 /\ b.h > 0}
Reach(a, b) == Overlapping(a, b) * IouDen >= (a.w * a.h + b.w * b.h - Overlapping(a, b)) * IouNum

LEMMA OverlapFits ==
  ASSUME NEW a \in Boxes, NEW b \in Boxes
  PROVE  /\ Overlapping(a, b) \in Nat /\ Overlapping(a, b) = Overlapping(b, a) /\ Overlapping(a, b) <= a.w * a.h
         /\ a.w * a.h \in Nat /\ b.w * b.h \in Nat /\ b.w * b.h > 0
<1>1. /\ a.x \in Int /\ a.y \in Int /\ a.w \in Nat /\ a.h \in Nat /\ b.x \in Int /\ b.y \in Int /\ b.w \in Nat /\ b.h \in Nat
      /\ b.w > 0 /\ b.h > 0
  BY DEF Boxes
<1>2. PICK p : p = Greater(0, Lesser(a.x + a.w, b.x + b.w) - Greater(a.x, b.x))
  OBVIOUS
<1>3. PICK q : q = Greater(0, Lesser(a.y + a.h, b.y + b.h) - Greater(a.y, b.y))
  OBVIOUS
<1>4. p \in Nat /\ p <= a.w /\ p = Greater(0, Lesser(b.x + b.w, a.x + a.w) - Greater(b.x, a.x))
  BY <1>1, <1>2 DEF Greater, Lesser
<1>5. q \in Nat /\ q <= a.h /\ q = Greater(0, Lesser(b.y + b.h, a.y + a.h) - Greater(b.y, a.y))
  BY <1>1, <1>3 DEF Greater, Lesser
<1>6. Overlapping(a, b) = p * q /\ Overlapping(b, a) = p * q
  BY <1>2, <1>3, <1>4, <1>5 DEF Overlapping
<1>7. p * q \in Nat /\ p * q <= a.w * a.h /\ a.w * a.h \in Nat
  <2>1. \A i, j, k \in Nat : i <= j => i * k <= j * k /\ i * k \in Nat
    OBVIOUS
  <2>2. p * q <= a.w * q /\ p * q \in Nat
    BY <1>1, <1>4, <1>5, <2>1
  <2>3. q * a.w <= a.h * a.w /\ q * a.w \in Nat /\ a.h * a.w \in Nat
    BY <1>1, <1>5, <2>1
  <2>4. q * a.w = a.w * q /\ a.h * a.w = a.w * a.h
    BY <1>1, <1>5
  <2>5. QED
    BY <2>2, <2>3, <2>4
<1>8. b.w * b.h \in Nat /\ b.w * b.h > 0
  <2>1. \A i, j \in Nat : i > 0 /\ j > 0 => i * j \in Nat /\ i * j > 0
    OBVIOUS
  <2>2. QED
    BY <1>1, <2>1
<1>9. QED
  BY <1>6, <1>7, <1>8

\* Boxes with a surface have a union, so that the ratio is never replaced.
LEMMA ReachIsIou ==
  ASSUME NEW a \in Boxes, NEW b \in Boxes
  PROVE  iouReaches(a, b) = Reach(a, b) /\ Reach(a, b) = Reach(b, a)
<1>1. PICK o, s, t : o = Overlapping(a, b) /\ s = a.w * a.h /\ t = b.w * b.h
  OBVIOUS
<1>2. o \in Nat /\ s \in Nat /\ t \in Nat /\ o = Overlapping(b, a) /\ s + t - o > 0 /\ s + t = t + s
  BY <1>1, OverlapFits
<1>3. iouReaches(a, b) = (o * IouDen >= (s + t - o) * IouNum)
  BY <1>1, <1>2 DEF iouReaches
<1>4. Reach(a, b) = (o * IouDen >= (s + t - o) * IouNum)
  BY <1>1 DEF Reach
<1>5. Reach(b, a) = (o * IouDen >= (s + t - o) * IouNum)
  BY <1>1, <1>2 DEF Reach
<1>6. QED
  BY <1>3, <1>4, <1>5

Better(chosen, b) == \E k \in DOMAIN chosen : iouReaches(chosen[k], b)
Selecting(f, B, order) ==
  /\ f \in [0..Len(order) -> Seq(B)] /\ f[0] = <<>> /\ nms(order) = f[Len(order)]
  /\ \A n \in 1..Len(order) : f[n] = IF Better(f[n - 1], order[n]) THEN f[n - 1] ELSE Append(f[n - 1], order[n])

LEMMA NmsSteps ==
  ASSUME NEW B, NEW order \in Seq(B)
  PROVE  \E f : Selecting(f, B, order)
<1>0. PICK N : N = Len(order)
  OBVIOUS
<1> DEFINE Next(f, n) == IF n = 0 THEN <<>>
                         ELSE IF \E k \in DOMAIN f[n - 1] : iouReaches(f[n - 1][k], order[n]) THEN f[n - 1] ELSE Append(f[n - 1], order[n])
<1>1. N \in Nat /\ \A n \in 1..N : order[n] \in B
  BY <1>0
<1>2. PICK g : g = [n \in 1..N |-> [t \in Seq(B) |-> IF Better(t, order[n]) THEN t ELSE Append(t, order[n])]]
  OBVIOUS
<1>3. ASSUME NEW n \in 1..N, NEW t \in Seq(B)
      PROVE  g[n][t] \in Seq(B) /\ g[n][t] = IF Better(t, order[n]) THEN t ELSE Append(t, order[n])
  <2>1. g[n][t] = IF Better(t, order[n]) THEN t ELSE Append(t, order[n])
    BY <1>2
  <2>2. order[n] \in B
    BY <1>1
  <2>3. Append(t, order[n]) \in Seq(B)
    BY <2>2
  <2>4. QED
    BY <2>1, <2>3
<1>4. g \in [1..N -> [Seq(B) -> Seq(B)]]
  BY <1>2, <1>3
<1>5. PICK f : Stepping(f, Seq(B), <<>>, g, N)
  <2> HIDE DEF Next
  <2>1. PICK Q, z : Q = Seq(B) /\ z = <<>>
    OBVIOUS
  <2>2. z \in Q /\ g \in [1..N -> [Q -> Q]] /\ N \in Nat
    BY <1>1, <1>4, <2>1
  <2>3. \E f : Stepping(f, Q, z, g, N)
    BY <2>2, StepByStep
  <2>4. QED
    BY <2>1, <2>3
<1>6. ASSUME NEW n \in 1..N PROVE f[n] = IF Better(f[n - 1], order[n]) THEN f[n - 1] ELSE Append(f[n - 1], order[n])
  <2>1. n - 1 \in 0..N /\ f[n - 1] \in Seq(B)
    BY <1>1, <1>5 DEF Stepping
  <2>2. QED
    BY <1>3, <1>5, <2>1 DEF Stepping
<1>7. f = [n \in 0..N |-> Next(f, n)]
  <2>1. ASSUME NEW n \in 0..N PROVE f[n] = Next(f, n)
    <3>1. CASE n = 0
      BY <1>5, <3>1 DEF Stepping
    <3>2. CASE n # 0
      <4>1. n \in 1..N
        BY <3>2
      <4>2. QED
        BY <1>6, <3>2, <4>1 DEF Better
    <3>3. QED
      BY <3>1, <3>2
  <2>2. QED
    BY <1>5, <2>1 DEF Stepping
<1>8. PICK u : u = [n \in 0..N |-> Next(u, n)] /\ nms(order) = u[N]
  <2> DEFINE c == CHOOSE v : v = [n \in 0..N |-> Next(v, n)]
  <2>1. c = [n \in 0..N |-> Next(c, n)]
    BY <1>7, Zenon
  <2>2. nms(order) = c[N]
    BY <1>0, <1>1 DEF nms
  <2>3. QED
    BY <2>1, <2>2
<1>9. f[N] = u[N]
  <2>1. \A n \in 0..N : u[n] = Next(u, n) /\ f[n] = Next(f, n)
    BY <1>7, <1>8
  <2>2. f[0] = u[0]
    <3>1. 0 \in 0..N
      BY <1>1
    <3>2. QED
      BY <2>1, <3>1
  <2>3. ASSUME NEW n \in 1..N, f[n - 1] = u[n - 1] PROVE f[n] = u[n]
    <3>1. n \in 0..N /\ n # 0
      BY <1>1
    <3>2. QED
      BY <2>1, <2>3, <3>1
  <2> HIDE DEF Next
  <2>4. QED
    BY <1>1, <2>2, <2>3, StepsAgree
<1>10. QED
  BY <1>0, <1>5, <1>6, <1>8, <1>9 DEF Stepping, Selecting

\* Each order of the boxes has them all.
LEMMA OrderHasAll ==
  ASSUME NEW B, IsFiniteSet(B), NEW order \in FallingOrders(B)
  PROVE  /\ order \in Seq(B) /\ \A b \in B : \E k \in 1..Len(order) : order[k] = b
         /\ \A i, j \in 1..Len(order) : i < j => order[i].conf >= order[j].conf
<1>1. PICK N : N = Cardinality(B) /\ N \in Nat
  BY FS_CardinalityType
<1>2. /\ order \in [1..N -> B] /\ DOMAIN order = 1..N
      /\ \A i, j \in 1..N : i < j => order[i] # order[j] /\ order[i].conf >= order[j].conf
  BY <1>1 DEF FallingOrders
<1>3. order \in Seq(B) /\ Len(order) = N
  BY <1>1, <1>2
<1>4. ASSUME NEW b \in B, \A k \in 1..N : order[k] # b PROVE FALSE
  <2>1. IsFiniteSet(B \ {b}) /\ Cardinality(B \ {b}) = N - 1
    BY <1>1, FS_RemoveElement
  <2>2. IsFiniteSet(1..N) /\ Cardinality(1..N) = N
    BY <1>1, FS_Interval
  <2>3. order \in [1..N -> B \ {b}]
    BY <1>2, <1>4
  <2>4. Cardinality(B \ {b}) < Cardinality(1..N)
    BY <1>1, <2>1, <2>2
  <2>5. PICK x \in 1..N, y \in 1..N : x # y /\ order[x] = order[y]
    <3>1. PICK I, C : I = 1..N /\ C = B \ {b}
      OBVIOUS
    <3>2. IsFiniteSet(I) /\ IsFiniteSet(C) /\ Cardinality(C) < Cardinality(I) /\ order \in [I -> C]
      BY <2>1, <2>2, <2>3, <2>4, <3>1
    <3>3. \E x, y \in I : x # y /\ order[x] = order[y]
      BY <3>2, FS_PigeonHole
    <3>4. QED
      BY <3>1, <3>3
  <2>6. \A i, j \in 1..N : i < j => order[i] # order[j]
    BY <1>2, Zenon
  <2>7. ~(x < y) /\ ~(y < x)
    BY <2>5, <2>6
  <2>8. QED
    BY <1>1, <2>5, <2>6, <2>7
<1>5. QED
  BY <1>2, <1>3, <1>4

\* Of the first n boxes in the order, those chosen are apart, and the others have a better one.
Sifted(chosen, order, n) ==
  /\ \A i, j \in DOMAIN chosen : i # j => ~Reach(chosen[i], chosen[j])
  /\ \A m \in DOMAIN chosen : \E k \in 1..n : chosen[m] = order[k]
  /\ \A k \in 1..n : \E m \in DOMAIN chosen : chosen[m] = order[k] \/ (Reach(chosen[m], order[k]) /\ chosen[m].conf >= order[k].conf)

LEMMA NmsSifts ==
  ASSUME NEW B \in SUBSET Boxes, IsFiniteSet(B), NEW order \in FallingOrders(B)
  PROVE  nms(order) \in Seq(B) /\ Sifted(nms(order), order, Len(order))
<1>1. order \in Seq(B) /\ \A i, j \in 1..Len(order) : i < j => order[i].conf >= order[j].conf
  BY OrderHasAll
<1>2. PICK f : Selecting(f, B, order)
  BY <1>1, NmsSteps
<1>3. PICK N : N = Len(order) /\ N \in Nat
  BY <1>1
<1>4. \A n \in 1..N : order[n] \in B
  BY <1>1, <1>3
<1> DEFINE I == {n \in 0..N : Sifted(f[n], order, n)}
<1>5. 0 \in I
  BY <1>2, <1>3 DEF Selecting, Sifted
<1>6. ASSUME NEW n \in 0..N, n \in I, n # N PROVE n + 1 \in I
  <2>1. n + 1 \in 1..N /\ (n + 1) - 1 = n /\ n + 1 \in 0..N /\ n \in Nat
    BY <1>3, <1>6
  <2>2. PICK chosen, b : chosen = f[n] /\ b = order[n + 1]
    OBVIOUS
  <2>3. chosen \in Seq(B) /\ b \in B /\ Sifted(chosen, order, n)
    BY <1>2, <1>3, <1>4, <1>6, <2>1, <2>2 DEF Selecting
  <2>4. PICK m : m = Len(chosen) /\ m \in Nat /\ DOMAIN chosen = 1..m
    BY <2>3
  <2>5. \A k \in 1..m : chosen[k] \in B
    BY <2>3, <2>4
  <2>6. f[n + 1] = IF Better(chosen, b) THEN chosen ELSE Append(chosen, b)
    BY <1>2, <1>3, <2>1, <2>2 DEF Selecting
  <2>7. ASSUME NEW k \in 1..m PROVE iouReaches(chosen[k], b) = Reach(chosen[k], b) /\ Reach(b, chosen[k]) = Reach(chosen[k], b)
    <3>1. chosen[k] \in Boxes /\ b \in Boxes
      BY <2>3, <2>5
    <3>2. QED
      BY <3>1, ReachIsIou
  <2>8. ASSUME NEW k \in 1..m PROVE chosen[k].conf >= b.conf
    <3>1. PICK l \in 1..n : chosen[k] = order[l]
      BY <2>3, <2>4 DEF Sifted
    <3>2. l \in 1..N /\ l < n + 1
      BY <1>3, <2>1
    <3>3. QED
      BY <1>1, <1>3, <2>1, <2>2, <3>1, <3>2
  <2>9. \A k \in 1..(n + 1) : k = n + 1 \/ k \in 1..n
    BY <2>1
  <2>10. CASE Better(chosen, b)
    <3>1. f[n + 1] = chosen
      BY <2>6, <2>10
    <3>2. PICK k \in 1..m : iouReaches(chosen[k], b)
      BY <2>4, <2>10 DEF Better
    <3>3. Reach(chosen[k], b) /\ chosen[k].conf >= b.conf
      BY <2>7, <2>8, <3>2
    <3>4. \A k2 \in 1..n : k2 \in 1..(n + 1)
      BY <2>1
    <3>5. Sifted(chosen, order, n + 1)
      BY <2>2, <2>3, <2>4, <2>9, <3>3, <3>4 DEF Sifted
    <3>6. QED
      BY <2>1, <3>1, <3>5
  <2>11. CASE ~Better(chosen, b)
    <3>1. PICK p : p = Append(chosen, b) /\ p = f[n + 1]
      BY <2>6, <2>11
    <3>2. DOMAIN p = 1..(m + 1) /\ p[m + 1] = b /\ \A i \in 1..m : p[i] = chosen[i]
      <4>1. chosen \in Seq(B) /\ b \in B
        BY <2>3
      <4>2. /\ DOMAIN Append(chosen, b) = 1..(Len(chosen) + 1) /\ Append(chosen, b)[Len(chosen) + 1] = b
            /\ \A i \in 1..Len(chosen) : Append(chosen, b)[i] = chosen[i]
        BY <4>1, Appended
      <4>3. QED
        BY <2>4, <3>1, <4>2
    <3>3. \A i \in 1..(m + 1) : i = m + 1 \/ i \in 1..m
      BY <2>4
    <3>4. \A i \in 1..m : ~Reach(p[i], b) /\ ~Reach(b, p[i])
      BY <2>4, <2>7, <2>11, <3>2 DEF Better
    <3>5. ASSUME NEW i \in 1..(m + 1), NEW j \in 1..(m + 1), i # j PROVE ~Reach(p[i], p[j])
      <4>1. CASE i = m + 1
        <5>1. j \in 1..m
          BY <3>3, <3>5, <4>1
        <5>2. QED
          BY <3>2, <3>4, <4>1, <5>1
      <4>2. CASE j = m + 1
        <5>1. i \in 1..m
          BY <3>3, <3>5, <4>2
        <5>2. QED
          BY <3>2, <3>4, <4>2, <5>1
      <4>3. CASE i # m + 1 /\ j # m + 1
        <5>1. i \in 1..m /\ j \in 1..m /\ p[i] = chosen[i] /\ p[j] = chosen[j]
          BY <3>2, <3>3, <4>3
        <5>2. QED
          BY <2>3, <2>4, <3>5, <5>1 DEF Sifted
      <4>4. QED
        BY <4>1, <4>2, <4>3
    <3>6. ASSUME NEW i \in 1..(m + 1) PROVE \E k \in 1..(n + 1) : p[i] = order[k]
      <4>1. CASE i = m + 1
        BY <2>1, <2>2, <3>2, <4>1
      <4>2. CASE i # m + 1
        <5>1. i \in 1..m /\ p[i] = chosen[i]
          BY <3>2, <3>3, <4>2
        <5>2. PICK k \in 1..n : chosen[i] = order[k]
          BY <2>3, <2>4, <5>1 DEF Sifted
        <5>3. k \in 1..(n + 1)
          BY <2>1
        <5>4. QED
          BY <5>1, <5>2, <5>3
      <4>3. QED
        BY <4>1, <4>2
    <3>7. ASSUME NEW k \in 1..(n + 1)
          PROVE  \E i \in 1..(m + 1) : p[i] = order[k] \/ (Reach(p[i], order[k]) /\ p[i].conf >= order[k].conf)
      <4>1. CASE k = n + 1
        <5>1. m + 1 \in 1..(m + 1)
          BY <2>4
        <5>2. QED
          BY <2>2, <3>2, <4>1, <5>1
      <4>2. CASE k # n + 1
        <5>1. k \in 1..n
          BY <2>9, <4>2
        <5>2. PICK i \in 1..m : chosen[i] = order[k] \/ (Reach(chosen[i], order[k]) /\ chosen[i].conf >= order[k].conf)
          BY <2>3, <2>4, <5>1 DEF Sifted
        <5>3. i \in 1..(m + 1) /\ p[i] = chosen[i]
          BY <2>4, <3>2
        <5>4. QED
          BY <5>2, <5>3
      <4>3. QED
        BY <4>1, <4>2
    <3>8. Sifted(p, order, n + 1)
      BY <3>2, <3>5, <3>6, <3>7 DEF Sifted
    <3>9. QED
      BY <2>1, <3>1, <3>8
  <2>12. QED
    BY <2>10, <2>11
<1> HIDE DEF I
<1>7. N \in I
  BY <1>3, <1>5, <1>6, CountUp
<1>8. f[N] \in Seq(B) /\ nms(order) = f[N]
  BY <1>2, <1>3 DEF Selecting
<1>9. QED
  BY <1>3, <1>7, <1>8 DEF I

\* The detector's square has room for a part of each side, and back.
LEMMA SquareFits ==
  ASSUME NEW w \in Nat \ {0}, NEW h \in Nat \ {0}, NEW fit, fit = preprocessYOLO(w, h)
  PROVE  fit.m \in Nat \ {0} /\ fit.w \in Nat \ {0} /\ fit.h \in Nat \ {0} /\ fit.padX \in Int /\ fit.padY \in Int
<1>1. PICK m : m = Greater(w, h) /\ m \in Nat \ {0}
  BY DEF Greater
<1> DEFINE side(n) == Greater(1, (2 * n * ModelSize + m) \div (2 * m))
<1>2. ASSUME NEW n \in Nat PROVE side(n) \in Nat \ {0}
  <2>1. PICK p : p = 2 * n * ModelSize + m
    OBVIOUS
  <2>2. p \in Int /\ 2 * m \in Nat \ {0}
    BY <1>1, <2>1, VisionBounds DEF VisionBounds
  <2>3. p \div (2 * m) \in Int
    BY <2>2
  <2>4. QED
    BY <2>1, <2>3 DEF Greater
<1>3. fit = [m |-> m, w |-> side(w), h |-> side(h), padX |-> (ModelSize - side(w)) \div 2, padY |-> (ModelSize - side(h)) \div 2]
  BY <1>1 DEF preprocessYOLO
<1>4. side(w) \in Nat \ {0} /\ side(h) \in Nat \ {0}
  BY <1>2
<1> HIDE DEF side
<1>5. (ModelSize - side(w)) \div 2 \in Int /\ (ModelSize - side(h)) \div 2 \in Int
  <2>1. \A k \in Int : k \div 2 \in Int
    OBVIOUS
  <2>2. QED
    BY <1>4, <2>1, VisionBounds DEF VisionBounds
<1>6. QED
  BY <1>1, <1>3, <1>4, <1>5

LEMMA SpanFits ==
  ASSUME NEW n \in Nat, NEW T \in SUBSET (0..(n - 1)), T # {}
  PROVE  Max(T) \in Int /\ Min(T) \in Int /\ Max(T) >= Min(T)
<1>1. PICK lo \in T : \A k \in T : lo <= k
  <2>1. T \in SUBSET Nat
    OBVIOUS
  <2>2. QED
    BY <2>1, LeastNumber
<1> DEFINE D == {n - k : k \in T}
<1>2. D \in SUBSET Nat /\ D # {}
  OBVIOUS
<1>3. PICK d \in D : \A k \in D : d <= k
  <2> HIDE DEF D
  <2>1. QED
    BY <1>2, LeastNumber
<1>4. PICK hi \in T : d = n - hi
  BY <1>3
<1>5. ASSUME NEW k \in T PROVE hi >= k
  <2>1. n - k \in D
    OBVIOUS
  <2>2. n \in Int /\ hi \in Int /\ k \in Int
    OBVIOUS
  <2> HIDE DEF D
  <2>3. n - hi <= n - k
    BY <1>3, <1>4, <2>1
  <2>4. QED
    BY <2>2, <2>3
<1>6. Min(T) \in T /\ \A y \in T : Min(T) <= y
  BY <1>1, Zenon DEF Min
<1>7. Max(T) \in T /\ \A y \in T : Max(T) >= y
  BY <1>5, Zenon DEF Max
<1>8. PICK i, j : i = Min(T) /\ j = Max(T)
  OBVIOUS
<1>9. i \in T /\ j \in T /\ j >= i
  BY <1>6, <1>7, <1>8
<1>10. i \in Int /\ j \in Int
  BY <1>9
<1>11. QED
  BY <1>8, <1>9, <1>10

\* What the detector may report has a surface.
Reports(image, control) ==
  LET fit == preprocessYOLO(image.w, image.h)
      cols == Showing(fit, fit.w, image.w, control.x, control.w)
      rows == Showing(fit, fit.h, image.h, control.y, control.h)
      at(conf, dx, dw) == [x |-> fit.padX + Min(cols) + dx, y |-> fit.padY + Min(rows),
                           w |-> Max(cols) - Min(cols) + 1 + dw, h |-> Max(rows) - Min(rows) + 1, conf |-> conf, of |-> "control"]
  IN <<[x |-> fit.padX + fit.w - 1, y |-> ModelSize - 1, w |-> 2, h |-> 1, conf |-> 3, of |-> ""],
       [x |-> fit.padX, y |-> fit.padY, w |-> 1, h |-> 1, conf |-> 2, of |-> ""], at(3, 0, 0), at(2, -1, 1)>>

LEMMA DetectionsHaveSurface ==
  ASSUME NEW image, NEW control, image.w \in Nat \ {0}, image.h \in Nat \ {0}
  PROVE  /\ Detections(image, control) \subseteq Boxes
         /\ Detections(image, control) \subseteq {Reports(image, control)[k] : k \in 1..4}
<1>1. PICK fit : fit = preprocessYOLO(image.w, image.h)
  OBVIOUS
<1>2. PICK cols, rows : cols = Showing(fit, fit.w, image.w, control.x, control.w) /\ rows = Showing(fit, fit.h, image.h, control.y, control.h)
  OBVIOUS
<1>3. fit.m \in Nat \ {0} /\ fit.w \in Nat \ {0} /\ fit.h \in Nat \ {0} /\ fit.padX \in Int /\ fit.padY \in Int
  BY <1>1, SquareFits
<1>4. cols \in SUBSET (0..(fit.w - 1)) /\ rows \in SUBSET (0..(fit.h - 1))
  BY <1>2 DEF Showing
<1> DEFINE corner == [x |-> fit.padX + fit.w - 1, y |-> ModelSize - 1, w |-> 2, h |-> 1, conf |-> 3, of |-> ""]
           padding == [x |-> fit.padX, y |-> fit.padY, w |-> 1, h |-> 1, conf |-> 2, of |-> ""]
           at(conf, dx, dw) == [x |-> fit.padX + Min(cols) + dx, y |-> fit.padY + Min(rows),
                                w |-> Max(cols) - Min(cols) + 1 + dw, h |-> Max(rows) - Min(rows) + 1, conf |-> conf, of |-> "control"]
<1>5. Detections(image, control) = {corner, padding} \cup IF cols = {} \/ rows = {} THEN {} ELSE {at(3, 0, 0), at(2, -1, 1)}
  BY <1>1, <1>2 DEF Detections
<1>6. Reports(image, control) = <<corner, padding, at(3, 0, 0), at(2, -1, 1)>>
  BY <1>1, <1>2 DEF Reports
<1>7. corner \in Boxes /\ padding \in Boxes
  <2>1. PICK of : of = "" /\ of \in Marks
    BY DEF Marks
  <2>2. PICK i, j : i = fit.padX + fit.w - 1 /\ j = ModelSize - 1
    OBVIOUS
  <2>3. PICK w, h : w = 1 /\ h = 2
    OBVIOUS
  <2>4. padding = [x |-> fit.padX, y |-> fit.padY, w |-> w, h |-> w, conf |-> h, of |-> of]
    BY <2>1, <2>3
  <2>5. corner = [x |-> i, y |-> j, w |-> h, h |-> w, conf |-> 3, of |-> of]
    BY <2>1, <2>2, <2>3
  <2>6. /\ i \in Int /\ j \in Int /\ of \in Marks /\ w \in Int /\ h \in Int /\ w > 0 /\ h > 0
        /\ fit.padX \in Int /\ fit.padY \in Int
    <3>1. of \in Marks
      BY <2>1, Zenon
    <3>2. i \in Int /\ j \in Int
      BY <1>3, <2>2, VisionBounds DEF VisionBounds
    <3>3. w \in Int /\ h \in Int /\ w > 0 /\ h > 0
      BY <2>3
    <3>4. QED
      BY <1>3, <3>1, <3>2, <3>3
  <2> HIDE DEF corner, padding
  <2>7. padding \in Boxes
    BY <2>4, <2>6 DEF Boxes
  <2>8. corner \in Boxes
    BY <2>5, <2>6 DEF Boxes
  <2>9. QED
    BY <2>7, <2>8
<1>8. cols # {} /\ rows # {} => at(3, 0, 0) \in Boxes /\ at(2, -1, 1) \in Boxes
  <2>1. SUFFICES ASSUME cols # {}, rows # {} PROVE at(3, 0, 0) \in Boxes /\ at(2, -1, 1) \in Boxes
    OBVIOUS
  <2>2. Max(cols) \in Int /\ Min(cols) \in Int /\ Max(cols) >= Min(cols)
    BY <1>3, <1>4, <2>1, SpanFits
  <2>3. Max(rows) \in Int /\ Min(rows) \in Int /\ Max(rows) >= Min(rows)
    BY <1>3, <1>4, <2>1, SpanFits
  <2>4. PICK c1, c2, r1, r2 : c1 = Min(cols) /\ c2 = Max(cols) /\ r1 = Min(rows) /\ r2 = Max(rows)
    OBVIOUS
  <2>5. /\ c1 \in Int /\ c2 \in Int /\ r1 \in Int /\ r2 \in Int /\ fit.padX \in Int /\ fit.padY \in Int
        /\ c2 - c1 + 1 + 0 > 0 /\ c2 - c1 + 1 + 1 > 0 /\ r2 - r1 + 1 > 0
    BY <1>3, <2>2, <2>3, <2>4
  <2>6. at(3, 0, 0) = [x |-> fit.padX + c1 + 0, y |-> fit.padY + r1, w |-> c2 - c1 + 1 + 0, h |-> r2 - r1 + 1, conf |-> 3, of |-> "control"]
    BY <2>4
  <2>7. at(2, -1, 1) = [x |-> fit.padX + c1 + (-1), y |-> fit.padY + r1, w |-> c2 - c1 + 1 + 1, h |-> r2 - r1 + 1, conf |-> 2, of |-> "control"]
    BY <2>4
  <2> HIDE DEF at
  <2>8. "control" \in Marks
    BY DEF Marks
  <2>9. at(3, 0, 0) \in Boxes
    BY <2>5, <2>6, <2>8 DEF Boxes
  <2>10. at(2, -1, 1) \in Boxes
    BY <2>5, <2>7, <2>8 DEF Boxes
  <2>11. QED
    BY <2>9, <2>10
<1> HIDE DEF corner, padding, at
<1>9. Detections(image, control) \subseteq Boxes
  BY <1>5, <1>7, <1>8
<1>10. ASSUME NEW d \in Detections(image, control) PROVE d \in {Reports(image, control)[k] : k \in 1..4}
  <2>1. d \in {corner, padding, at(3, 0, 0), at(2, -1, 1)}
    BY <1>5
  <2>2. \E k \in 1..4 : d = Reports(image, control)[k]
    BY <1>6, <2>1
  <2>3. QED
    BY <2>2
<1>11. QED
  BY <1>9, <1>10

Back(r, fit) == [x |-> (r.x - fit.padX) * fit.m, y |-> (r.y - fit.padY) * fit.m, w |-> r.w * fit.m, h |-> r.h * fit.m, conf |-> r.conf, of |-> r.of]

LEMMA FoundAreBoxes ==
  ASSUME NEW image, NEW control, image.w \in Nat \ {0}, image.h \in Nat \ {0},
         NEW rows \in SUBSET Detections(image, control), NEW B, B = parseYOLOOutput(rows, preprocessYOLO(image.w, image.h), 2)
  PROVE  IsFiniteSet(B) /\ B \in SUBSET Boxes
<1>1. PICK fit : fit = preprocessYOLO(image.w, image.h)
  OBVIOUS
<1>2. fit.m \in Nat \ {0} /\ fit.padX \in Int /\ fit.padY \in Int
  BY <1>1, SquareFits
<1>3. \A b \in B : \E r \in rows : b = Back(r, fit)
  BY <1>1 DEF parseYOLOOutput, Back
<1>4. rows \subseteq Boxes /\ rows \subseteq {Reports(image, control)[k] : k \in 1..4}
  BY DetectionsHaveSurface
<1>5. ASSUME NEW r \in Boxes PROVE Back(r, fit) \in Boxes
  <2>1. r.x \in Int /\ r.y \in Int /\ r.w \in Nat \ {0} /\ r.h \in Nat \ {0} /\ r.conf \in Int /\ r.of \in Marks
    BY DEF Boxes
  <2>2. \A i, j \in Int : i * j \in Int
    OBVIOUS
  <2>3. \A i, j \in Nat \ {0} : i * j \in Int /\ i * j > 0
    OBVIOUS
  <2>4. (r.x - fit.padX) * fit.m \in Int /\ (r.y - fit.padY) * fit.m \in Int
    BY <1>2, <2>1, <2>2
  <2>5. r.w * fit.m \in Int /\ r.w * fit.m > 0 /\ r.h * fit.m \in Int /\ r.h * fit.m > 0
    BY <1>2, <2>1, <2>3
  <2>6. QED
    BY <2>1, <2>4, <2>5 DEF Back, Boxes
<1>6. B \in SUBSET Boxes
  BY <1>3, <1>4, <1>5
<1> DEFINE back(k) == Back(Reports(image, control)[k], fit)
<1>7. B \in SUBSET {back(1), back(2), back(3), back(4)}
  <2>1. ASSUME NEW b \in B PROVE b \in {back(1), back(2), back(3), back(4)}
    <3>1. PICK r \in rows : b = Back(r, fit)
      BY <1>3
    <3>2. PICK k \in 1..4 : r = Reports(image, control)[k]
      BY <1>4, <3>1
    <3>3. b = back(k)
      BY <3>1, <3>2
    <3>4. k = 1 \/ k = 2 \/ k = 3 \/ k = 4
      OBVIOUS
    <3> HIDE DEF back
    <3>5. QED
      BY <3>3, <3>4
  <2>2. QED
    BY <2>1
<1> HIDE DEF back
<1>8. IsFiniteSet({back(1), back(2), back(3), back(4)})
  <2>1. IsFiniteSet({back(1)})
    BY FS_Singleton
  <2>2. IsFiniteSet({back(1)} \cup {back(2)})
    BY <2>1, FS_AddElement
  <2>3. IsFiniteSet(({back(1)} \cup {back(2)}) \cup {back(3)})
    BY <2>2, FS_AddElement
  <2>4. IsFiniteSet((({back(1)} \cup {back(2)}) \cup {back(3)}) \cup {back(4)})
    BY <2>3, FS_AddElement
  <2>5. (({back(1)} \cup {back(2)}) \cup {back(3)}) \cup {back(4)} = {back(1), back(2), back(3), back(4)}
    OBVIOUS
  <2>6. QED
    BY <2>4, <2>5
<1>9. QED
  BY <1>6, <1>7, <1>8, FS_Subset

\* An element lies within the image it was found in.
Within(r, image) ==
  r \in Rectangles /\ r.x >= 0 /\ r.y >= 0 /\ r.w > 0 /\ r.h > 0 /\ r.x + r.w <= image.w /\ r.y + r.h <= image.h
ElementsOf(image) == {e \in [box : Rectangles, conf : Int, of : Marks] : Within(e.box, image)}

LEMMA ClippedWithin ==
  ASSUME NEW b \in Boxes, NEW image, image.w \in Int, image.h \in Int, NEW r \in clipElementToImage(b, image)
  PROVE  Within(r, image)
<1>1. /\ b.x \in Int /\ b.y \in Int /\ b.w \in Int /\ b.h \in Int
  BY DEF Boxes
<1>2. \A k \in Int : Quot(k, ModelSize) \in Int
  <2>1. \A k \in Int : k \div ModelSize \in Int
    BY VisionBounds DEF VisionBounds
  <2>2. QED
    BY <2>1 DEF Quot
<1>3. PICK el : el = Rectangle(Quot(b.x, ModelSize), Quot(b.y, ModelSize), Quot(b.w, ModelSize), Quot(b.h, ModelSize))
  OBVIOUS
<1>4. el.x \in Int /\ el.y \in Int /\ el.w \in Int /\ el.h \in Int
  BY <1>1, <1>2, <1>3 DEF Rectangle
<1>5. PICK x, y : x = Greater(el.x, 0) /\ y = Greater(el.y, 0) /\ x \in Nat /\ y \in Nat
  BY <1>4 DEF Greater
<1>6. PICK u, v : /\ u = Lesser(el.x + el.w, image.w) - x /\ v = Lesser(el.y + el.h, image.h) - y
                  /\ u \in Int /\ v \in Int /\ x + u <= image.w /\ y + v <= image.h
  BY <1>4, <1>5 DEF Lesser
<1>7. r = Rectangle(x, y, u, v) /\ u > 0 /\ v > 0
  <2>1. clipElementToImage(b, image) =
          LET clipped == Rectangle(x, y, u, v)
          IN IF \/ el.w <= 0 \/ el.h <= 0 \/ clipped.w <= 0 \/ clipped.h <= 0
                \/ Middle(el).x \notin 0..(image.w - 1) \/ Middle(el).y \notin 0..(image.h - 1)
             THEN {} ELSE {clipped}
    BY <1>3, <1>5, <1>6 DEF clipElementToImage
  <2>2. Rectangle(x, y, u, v).w = u /\ Rectangle(x, y, u, v).h = v
    BY DEF Rectangle
  <2>3. QED
    BY <1>6, <2>1, <2>2
<1>8. QED
  BY <1>5, <1>6, <1>7 DEF Within, Rectangle, Rectangles

LEMMA ElementsWithin ==
  ASSUME NEW chosen \in Seq(Boxes), NEW image, image.w \in Int, image.h \in Int
  PROVE  Elements(chosen, image) \in Seq(ElementsOf(image))
<1>0. PICK N, E : N = Len(chosen) /\ E = ElementsOf(image)
  OBVIOUS
<1> DEFINE cut(n) == clipElementToImage(chosen[n], image)
           el(n) == [box |-> CHOOSE r \in cut(n) : TRUE, conf |-> chosen[n].conf, of |-> chosen[n].of]
           Next(f, n) == IF n = 0 THEN <<>> ELSE IF cut(n) = {} THEN f[n - 1] ELSE Append(f[n - 1], el(n))
<1>1. N \in Nat /\ \A n \in 1..N : chosen[n] \in Boxes
  BY <1>0
<1>2. ASSUME NEW n \in 1..N, cut(n) # {} PROVE el(n) \in E
  <2>1. (CHOOSE r \in cut(n) : TRUE) \in cut(n)
    BY <1>2, Zenon
  <2>2. chosen[n] \in Boxes
    BY <1>1
  <2>3. PICK r : r = CHOOSE q \in cut(n) : TRUE
    OBVIOUS
  <2>4. Within(r, image)
    BY <2>1, <2>2, <2>3, ClippedWithin
  <2>5. r \in Rectangles /\ chosen[n].conf \in Int /\ chosen[n].of \in Marks
    BY <2>2, <2>4 DEF Within, Boxes
  <2>6. el(n) = [box |-> r, conf |-> chosen[n].conf, of |-> chosen[n].of]
    BY <2>3
  <2> HIDE DEF el, cut
  <2>7. QED
    BY <1>0, <2>4, <2>5, <2>6 DEF ElementsOf
<1>3. PICK g : g = [n \in 1..N |-> [t \in Seq(E) |-> IF cut(n) = {} THEN t ELSE Append(t, el(n))]]
  OBVIOUS
<1>4. ASSUME NEW n \in 1..N, NEW t \in Seq(E)
      PROVE  g[n][t] \in Seq(E) /\ g[n][t] = IF cut(n) = {} THEN t ELSE Append(t, el(n))
  <2>1. g[n][t] = IF cut(n) = {} THEN t ELSE Append(t, el(n))
    BY <1>3
  <2> HIDE DEF el, cut
  <2>2. cut(n) # {} => Append(t, el(n)) \in Seq(E)
    BY <1>2
  <2>3. QED
    BY <2>1, <2>2
<1>5. g \in [1..N -> [Seq(E) -> Seq(E)]]
  <2> HIDE DEF el, cut
  <2>1. QED
    BY <1>3, <1>4
<1>6. PICK f : Stepping(f, Seq(E), <<>>, g, N)
  <2> HIDE DEF Next
  <2>1. PICK Q, z : Q = Seq(E) /\ z = <<>>
    OBVIOUS
  <2>2. z \in Q /\ g \in [1..N -> [Q -> Q]] /\ N \in Nat
    BY <1>1, <1>5, <2>1
  <2>3. \E f : Stepping(f, Q, z, g, N)
    BY <2>2, StepByStep
  <2>4. QED
    BY <2>1, <2>3
<1>7. ASSUME NEW n \in 1..N PROVE f[n] = IF cut(n) = {} THEN f[n - 1] ELSE Append(f[n - 1], el(n))
  <2>1. n - 1 \in 0..N /\ f[n - 1] \in Seq(E)
    BY <1>1, <1>6 DEF Stepping
  <2> HIDE DEF el, cut
  <2>2. QED
    BY <1>4, <1>6, <2>1 DEF Stepping
<1>8. f = [n \in 0..N |-> Next(f, n)]
  <2> HIDE DEF el, cut
  <2>1. ASSUME NEW n \in 0..N PROVE f[n] = Next(f, n)
    <3>1. CASE n = 0
      BY <1>6, <3>1 DEF Stepping
    <3>2. CASE n # 0
      <4>1. n \in 1..N
        BY <3>2
      <4>2. QED
        BY <1>7, <3>2, <4>1
    <3>3. QED
      BY <3>1, <3>2
  <2>2. QED
    BY <1>6, <2>1 DEF Stepping
<1>9. PICK u : u = [n \in 0..N |-> Next(u, n)] /\ Elements(chosen, image) = u[N]
  <2> DEFINE c == CHOOSE v : v = [n \in 0..N |-> Next(v, n)]
  <2>1. c = [n \in 0..N |-> Next(c, n)]
    BY <1>8, Zenon
  <2>2. Elements(chosen, image) = c[N]
    BY <1>0, <1>1 DEF Elements
  <2>3. QED
    BY <2>1, <2>2
<1>10. f[N] = u[N]
  <2> HIDE DEF el, cut
  <2>1. \A n \in 0..N : u[n] = Next(u, n) /\ f[n] = Next(f, n)
    BY <1>8, <1>9
  <2>2. f[0] = u[0]
    <3>1. 0 \in 0..N
      BY <1>1
    <3>2. QED
      BY <2>1, <3>1
  <2>3. ASSUME NEW n \in 1..N, f[n - 1] = u[n - 1] PROVE f[n] = u[n]
    <3>1. n \in 0..N /\ n # 0
      BY <1>1
    <3>2. QED
      BY <2>1, <2>3, <3>1
  <2> HIDE DEF Next
  <2>4. QED
    BY <1>1, <2>2, <2>3, StepsAgree
<1>11. N \in 0..N /\ f[N] \in Seq(E)
  BY <1>1, <1>6 DEF Stepping
<1>12. QED
  BY <1>0, <1>9, <1>10, <1>11

Marked == [at : Int, score : Int]
Shifted(was, n, best) ==
  IF MatchesOverlap(was.array[n], was.array[best]) THEN was
  ELSE [array |-> [was.array EXCEPT ![was.kept + 1] = was.array[n]], kept |-> was.kept + 1]
Arrays(N) == [array : [1..N -> Marked], kept : Nat]
Compacting(f, cs, best) ==
  /\ f \in [0..Len(cs) -> Arrays(Len(cs))] /\ f[0] = [array |-> cs, kept |-> 0]
  /\ Compacted(cs, best) = SubSeq(f[Len(cs)].array, 1, f[Len(cs)].kept)
  /\ \A n \in 1..Len(cs) : f[n] = Shifted(f[n - 1], n, best)

LEMMA CompactedSteps ==
  ASSUME NEW cs \in Seq(Marked), NEW best \in 1..Len(cs)
  PROVE  \E f : Compacting(f, cs, best)
<1>0. PICK N, A : N = Len(cs) /\ A = Arrays(N)
  OBVIOUS
<1> DEFINE first == [array |-> cs, kept |-> 0]
           Next(f, n) == IF n = 0 THEN first ELSE Shifted(f[n - 1], n, best)
<1>1. N \in Nat /\ cs \in [1..N -> Marked]
  BY <1>0
<1>2. first \in A
  BY <1>0, <1>1 DEF Arrays
<1>3. PICK g : g = [n \in 1..N |-> [t \in A |-> Shifted(t, n, best)]]
  OBVIOUS
<1>4. ASSUME NEW n \in 1..N, NEW t \in A PROVE g[n][t] \in A /\ g[n][t] = Shifted(t, n, best)
  <2>1. g[n][t] = Shifted(t, n, best)
    BY <1>3
  <2>2. t.array \in [1..N -> Marked] /\ t.kept \in Nat
    BY <1>0 DEF Arrays
  <2>3. PICK r : r = [array |-> [t.array EXCEPT ![t.kept + 1] = t.array[n]], kept |-> t.kept + 1]
    OBVIOUS
  <2>4. t.array[n] \in Marked
    BY <2>2
  <2>5. [t.array EXCEPT ![t.kept + 1] = t.array[n]] \in [1..N -> Marked]
    BY <2>2, <2>4
  <2>6. r \in A
    BY <1>0, <2>2, <2>3, <2>5 DEF Arrays
  <2>7. QED
    BY <2>1, <2>3, <2>6 DEF Shifted
<1>5. g \in [1..N -> [A -> A]]
  BY <1>3, <1>4
<1>6. PICK f : Stepping(f, A, first, g, N)
  BY <1>1, <1>2, <1>5, StepByStep
<1>7. ASSUME NEW n \in 1..N PROVE f[n] = Shifted(f[n - 1], n, best)
  <2>1. n - 1 \in 0..N /\ f[n - 1] \in A
    BY <1>1, <1>6 DEF Stepping
  <2>2. QED
    BY <1>4, <1>6, <2>1 DEF Stepping
<1> HIDE DEF first
<1>8. f = [n \in 0..N |-> Next(f, n)]
  <2>1. ASSUME NEW n \in 0..N PROVE f[n] = Next(f, n)
    <3>1. CASE n = 0
      BY <1>6, <3>1 DEF Stepping
    <3>2. CASE n # 0
      <4>1. n \in 1..N
        BY <3>2
      <4>2. QED
        BY <1>7, <3>2, <4>1
    <3>3. QED
      BY <3>1, <3>2
  <2>2. QED
    BY <1>6, <2>1 DEF Stepping
<1>9. PICK u : u = [n \in 0..N |-> Next(u, n)] /\ Compacted(cs, best) = SubSeq(u[N].array, 1, u[N].kept)
  <2> DEFINE c == CHOOSE v : v = [n \in 0..N |-> Next(v, n)]
  <2>1. c = [n \in 0..N |-> Next(c, n)]
    BY <1>8, Zenon
  <2>2. Compacted(cs, best) = SubSeq(c[N].array, 1, c[N].kept)
    BY <1>0, <1>1 DEF Compacted, Shifted, first
  <2>3. QED
    BY <2>1, <2>2
<1>10. f[N] = u[N]
  <2>1. \A n \in 0..N : u[n] = Next(u, n) /\ f[n] = Next(f, n)
    BY <1>8, <1>9
  <2>2. f[0] = u[0]
    <3>1. 0 \in 0..N
      BY <1>1
    <3>2. QED
      BY <2>1, <3>1
  <2>3. ASSUME NEW n \in 1..N, f[n - 1] = u[n - 1] PROVE f[n] = u[n]
    <3>1. n \in 0..N /\ n # 0
      BY <1>1
    <3>2. QED
      BY <2>1, <2>3, <3>1
  <2> HIDE DEF Next
  <2>4. QED
    BY <1>1, <2>2, <2>3, StepsAgree
<1>11. f \in [0..N -> A] /\ f[0] = [array |-> cs, kept |-> 0]
  BY <1>6 DEF Stepping, first
<1>12. QED
  BY <1>0, <1>7, <1>9, <1>10, <1>11 DEF Compacting

\* Far from all others in cs.
StandsAlone(cs, k) == \A m \in 1..Len(cs) : m # k => ~MatchesOverlap(cs[k], cs[m])
\* After n places the front of the array has, in order, some of those among cs that are not
\* the best, and all that are alone; the rest of the array is as it was.
Fronted(h, r, cs, best, n) ==
  /\ r.kept \in 0..n /\ h \in [1..r.kept -> (1..n) \ {best}]
  /\ \A i, j \in 1..r.kept : i < j => h[i] < h[j]
  /\ \A i \in 1..Len(cs) : r.array[i] = IF i <= r.kept THEN cs[h[i]] ELSE cs[i]
  /\ \A k \in (1..n) \ {best} : StandsAlone(cs, k) => \E i \in 1..r.kept : h[i] = k

LEMMA OverlapsItself == ASSUME NEW a, a.at \in Int PROVE MatchesOverlap(a, a)
<1>1. Size(a.at - a.at) = 0
  BY DEF Size
<1>2. TemplateWidth \in Nat /\ TemplateWidth > 0 /\ TemplateWidth > TemplateWidth \div 2
  BY VisionBounds DEF VisionBounds
<1>3. Greater(0, TemplateWidth - 0) = TemplateWidth
  BY <1>2 DEF Greater
<1>4. QED
  BY <1>1, <1>2, <1>3 DEF MatchesOverlap

LEMMA FrontedOn ==
  ASSUME NEW cs \in Seq(Marked), NEW best \in 1..Len(cs), NEW n \in 0..(Len(cs) - 1), NEW r \in Arrays(Len(cs)),
         NEW h, Fronted(h, r, cs, best, n)
  PROVE  \E g : Fronted(g, Shifted(r, n + 1, best), cs, best, n + 1)
<1>0. PICK N : N = Len(cs) /\ N \in Nat
  OBVIOUS
<1>1. PICK m, q : m = r.kept /\ q = r.array
  OBVIOUS
<1>2. /\ n \in 0..(N - 1) /\ n + 1 \in 1..N /\ best \in 1..N /\ m \in 0..n /\ q \in [1..N -> Marked] /\ \A i \in 1..N : cs[i] \in Marked
      /\ m + 1 \in 1..N /\ r = [array |-> q, kept |-> m]
  BY <1>0, <1>1 DEF Fronted, Arrays
<1>3. /\ h \in [1..m -> (1..n) \ {best}]
      /\ \A i, j \in 1..m : i < j => h[i] < h[j]
      /\ \A i \in 1..N : q[i] = IF i <= m THEN cs[h[i]] ELSE cs[i]
      /\ \A k \in (1..n) \ {best} : StandsAlone(cs, k) => \E i \in 1..m : h[i] = k
  BY <1>0, <1>1 DEF Fronted
<1>4. q[n + 1] = cs[n + 1]
  BY <1>2, <1>3
<1>5. PICK b \in 1..N : q[best] = cs[b] /\ (best = n + 1 => b = n + 1) /\ (best # n + 1 => b # n + 1)
  <2>1. CASE best <= m
    <3>1. best \in 1..m
      BY <1>2, <2>1
    <3>2. h[best] \in 1..n /\ q[best] = cs[h[best]]
      BY <1>2, <1>3, <3>1
    <3>3. PICK b : b = h[best] /\ b \in 1..n
      BY <3>2
    <3>4. b \in 1..N /\ b # n + 1 /\ best # n + 1
      BY <1>0, <1>2, <3>1, <3>3
    <3>5. QED
      BY <3>2, <3>3, <3>4
  <2>2. CASE ~(best <= m)
    BY <1>2, <1>3, <2>2
  <2>3. QED
    BY <2>1, <2>2
<1>6. CASE MatchesOverlap(q[n + 1], q[best])
  <2>1. Shifted(r, n + 1, best) = r
    BY <1>1, <1>6 DEF Shifted
  <2>2. n + 1 # best => ~StandsAlone(cs, n + 1)
    BY <1>0, <1>2, <1>4, <1>5, <1>6 DEF StandsAlone
  <2>3. m \in 0..(n + 1) /\ h \in [1..m -> (1..(n + 1)) \ {best}]
    <3>1. (1..n) \ {best} \subseteq (1..(n + 1)) \ {best}
      BY <1>2
    <3>2. QED
      BY <1>2, <1>3, <3>1
  <2>4. ASSUME NEW k \in (1..(n + 1)) \ {best}, StandsAlone(cs, k) PROVE \E i \in 1..m : h[i] = k
    <3>1. k \in (1..n) \ {best}
      BY <1>2, <2>2, <2>4
    <3>2. QED
      BY <1>3, <2>4, <3>1
  <2>5. Fronted(h, r, cs, best, n + 1)
    BY <1>0, <1>1, <1>3, <2>3, <2>4 DEF Fronted
  <2>6. QED
    BY <2>1, <2>5
<1>7. CASE ~MatchesOverlap(q[n + 1], q[best])
  <2>1. best # n + 1
    <3>1. ASSUME best = n + 1 PROVE FALSE
      <4>1. q[n + 1].at \in Int
        BY <1>2 DEF Marked
      <4>2. QED
        BY <1>7, <3>1, <4>1, OverlapsItself
    <3>2. QED
      BY <3>1
  <2>2. PICK p : p = [q EXCEPT ![m + 1] = q[n + 1]]
    OBVIOUS
  <2>3. PICK s : s = Shifted(r, n + 1, best) /\ s = [array |-> p, kept |-> m + 1]
    BY <1>1, <1>7, <2>2 DEF Shifted
  <2>4. PICK g : g = [i \in 1..(m + 1) |-> IF i = m + 1 THEN n + 1 ELSE h[i]]
    OBVIOUS
  <2>5. g[m + 1] = n + 1 /\ \A i \in 1..m : i \in 1..(m + 1) /\ g[i] = h[i] /\ h[i] \in (1..n) \ {best}
    <3>1. m + 1 \in 1..(m + 1) /\ \A i \in 1..m : i \in 1..(m + 1) /\ i # m + 1
      BY <1>2
    <3>2. \A i \in 1..m : h[i] \in (1..n) \ {best}
      BY <1>3
    <3>3. QED
      BY <2>4, <3>1, <3>2
  <2>6. \A i \in 1..(m + 1) : i = m + 1 \/ i \in 1..m
    BY <1>2
  <2>7. g \in [1..(m + 1) -> (1..(n + 1)) \ {best}]
    <3>1. ASSUME NEW i \in 1..(m + 1) PROVE g[i] \in (1..(n + 1)) \ {best}
      <4>1. CASE i = m + 1
        BY <1>2, <2>1, <2>5, <4>1
      <4>2. CASE i \in 1..m
        BY <1>2, <2>5, <4>2
      <4>3. QED
        BY <2>6, <4>1, <4>2
    <3>2. QED
      BY <2>4, <3>1
  <2>8. ASSUME NEW i \in 1..(m + 1), NEW j \in 1..(m + 1), i < j PROVE g[i] < g[j]
    <3>1. i \in 1..m /\ g[i] = h[i] /\ h[i] \in 1..n
      BY <1>2, <2>5, <2>6, <2>8
    <3>2. CASE j = m + 1
      BY <1>2, <2>5, <3>1, <3>2
    <3>3. CASE j \in 1..m
      BY <1>3, <2>5, <2>8, <3>1, <3>3
    <3>4. QED
      BY <2>6, <3>2, <3>3
  <2>9. ASSUME NEW i \in 1..N PROVE p[i] = IF i <= m + 1 THEN cs[g[i]] ELSE cs[i]
    <3>1. CASE i = m + 1
      BY <1>2, <1>4, <2>2, <2>5, <3>1
    <3>2. CASE i \in 1..m
      <4>1. p[i] = q[i] /\ q[i] = cs[h[i]] /\ g[i] = h[i] /\ i <= m + 1
        BY <1>2, <1>3, <2>2, <2>5, <3>2
      <4>2. QED
        BY <4>1
    <3>3. CASE i > m + 1
      <4>1. p[i] = q[i] /\ q[i] = cs[i] /\ ~(i <= m + 1)
        BY <1>2, <1>3, <2>2, <3>3
      <4>2. QED
        BY <4>1
    <3>4. i = m + 1 \/ i \in 1..m \/ i > m + 1
      BY <1>2
    <3>5. QED
      BY <3>1, <3>2, <3>3, <3>4
  <2>10. ASSUME NEW k \in (1..(n + 1)) \ {best}, StandsAlone(cs, k) PROVE \E i \in 1..(m + 1) : g[i] = k
    <3>1. CASE k = n + 1
      BY <1>2, <2>5, <3>1
    <3>2. CASE k # n + 1
      <4>1. k \in (1..n) \ {best}
        BY <1>2, <3>2
      <4>2. PICK i \in 1..m : h[i] = k
        BY <1>3, <2>10, <4>1
      <4>3. QED
        BY <2>5, <4>2
    <3>3. QED
      BY <3>1, <3>2
  <2>11. s.array = p /\ s.kept = m + 1 /\ m + 1 \in 0..(n + 1)
    BY <1>2, <2>3
  <2>12. Fronted(g, s, cs, best, n + 1)
    BY <1>0, <2>7, <2>8, <2>9, <2>10, <2>11 DEF Fronted
  <2>13. QED
    BY <2>3, <2>12
<1>8. QED
  BY <1>6, <1>7

\* What is left of cs once the best is taken: some of the others in order, and all that are alone.
Remains(h, c, cs, best) ==
  /\ h \in [1..Len(c) -> (1..Len(cs)) \ {best}]
  /\ \A i, j \in 1..Len(c) : i < j => h[i] < h[j]
  /\ \A i \in 1..Len(c) : c[i] = cs[h[i]]
  /\ \A k \in (1..Len(cs)) \ {best} : StandsAlone(cs, k) => \E i \in 1..Len(c) : h[i] = k

LEMMA CompactedRemains ==
  ASSUME NEW cs \in Seq(Marked), NEW best \in 1..Len(cs)
  PROVE  Compacted(cs, best) \in Seq(Marked) /\ \E h : Remains(h, Compacted(cs, best), cs, best)
<1>1. PICK f : Compacting(f, cs, best)
  BY CompactedSteps
<1>2. PICK N : N = Len(cs) /\ N \in Nat
  OBVIOUS
<1>3. /\ f \in [0..N -> Arrays(N)] /\ f[0] = [array |-> cs, kept |-> 0] /\ \A i \in 1..N : cs[i] \in Marked
      /\ \A n \in 1..N : f[n] = Shifted(f[n - 1], n, best)
  BY <1>1, <1>2 DEF Compacting
<1> DEFINE I == {n \in 0..N : \E h : Fronted(h, f[n], cs, best, n)}
<1>4. 0 \in I
  <2>1. f[0].kept = 0 /\ f[0].array = cs
    BY <1>3
  <2>2. Fronted([i \in 1..0 |-> 0], f[0], cs, best, 0)
    BY <1>2, <2>1 DEF Fronted
  <2>3. QED
    BY <1>2, <2>2
<1>5. ASSUME NEW n \in 0..N, n \in I, n # N PROVE n + 1 \in I
  <2>1. n \in 0..(N - 1) /\ n + 1 \in 1..N /\ n + 1 \in 0..N /\ (n + 1) - 1 = n
    BY <1>2, <1>5
  <2>2. f[n] \in Arrays(N) /\ f[n + 1] = Shifted(f[n], n + 1, best)
    <3>1. f[n + 1] = Shifted(f[(n + 1) - 1], n + 1, best)
      BY <1>3, <2>1
    <3>2. QED
      BY <1>3, <2>1, <3>1
  <2>3. PICK h : Fronted(h, f[n], cs, best, n)
    BY <1>5
  <2> HIDE DEF I
  <2>4. \E g : Fronted(g, f[n + 1], cs, best, n + 1)
    BY <1>2, <2>1, <2>2, <2>3, FrontedOn
  <2>5. QED
    BY <2>1, <2>4 DEF I
<1> HIDE DEF I
<1>6. N \in I
  BY <1>2, <1>4, <1>5, CountUp
<1>7. PICK h : Fronted(h, f[N], cs, best, N)
  BY <1>6 DEF I
<1>8. PICK m, q : m = f[N].kept /\ q = f[N].array
  OBVIOUS
<1>9. m \in 0..N /\ q \in [1..N -> Marked] /\ Compacted(cs, best) = SubSeq(q, 1, m)
  BY <1>1, <1>2, <1>3, <1>7, <1>8 DEF Fronted, Arrays, Compacting
<1>10. PICK c : c = Compacted(cs, best) /\ c \in Seq(Marked) /\ Len(c) = m /\ \A i \in 1..m : c[i] = q[i]
  <2>1. q \in Seq(Marked) /\ Len(q) = N
    BY <1>2, <1>9
  <2>2. PICK d : d = SubSeq(q, 1, m)
    OBVIOUS
  <2>3. Len(d) = m /\ \A i \in 1..m : d[i] = q[i]
    BY <1>2, <1>9, <2>1, <2>2
  <2>4. d \in Seq(Marked)
    BY <1>2, <1>9, <2>1, <2>2
  <2>5. QED
    BY <1>9, <2>2, <2>3, <2>4
<1>11. \A i \in 1..m : c[i] = cs[h[i]]
  <2>1. ASSUME NEW i \in 1..m PROVE c[i] = cs[h[i]]
    <3>1. i \in 1..N /\ i <= m
      BY <1>2, <1>9
    <3>2. q[i] = cs[h[i]]
      BY <1>2, <1>7, <1>8, <3>1 DEF Fronted
    <3>3. QED
      BY <1>10, <3>2
  <2>2. QED
    BY <2>1
<1>12. Remains(h, c, cs, best)
  BY <1>2, <1>7, <1>8, <1>10, <1>11 DEF Remains, Fronted
<1>13. QED
  BY <1>10, <1>12

LEMMA MarkedItems ==
  ASSUME NEW cs \in Seq(Marked)
  PROVE  /\ Len(cs) \in Nat /\ DOMAIN cs = 1..Len(cs) /\ (cs # <<>> => 1 \in DOMAIN cs)
         /\ \A k \in DOMAIN cs : cs[k] \in Marked /\ cs[k].at \in Int /\ cs[k].score \in Int
<1>1. Len(cs) \in Nat /\ DOMAIN cs = 1..Len(cs) /\ (cs # <<>> => 1 \in DOMAIN cs) /\ \A k \in DOMAIN cs : cs[k] \in Marked
  OBVIOUS
<1>2. \A c \in Marked : c.at \in Int /\ c.score \in Int
  BY DEF Marked
<1>3. QED
  BY <1>1, <1>2

\* The first of the best.
LEMMA BestIndexBest ==
  ASSUME NEW cs \in Seq(Marked), cs # <<>>, NEW top \in Nat, \A k \in DOMAIN cs : cs[k].score <= top
  PROVE  /\ BestIndex(cs) \in DOMAIN cs
         /\ \A k \in DOMAIN cs : cs[k].score < cs[BestIndex(cs)].score \/ (cs[k].score = cs[BestIndex(cs)].score /\ BestIndex(cs) <= k)
<1>1. PICK N : N = Len(cs) /\ N \in Nat /\ DOMAIN cs = 1..N /\ 1 \in 1..N
  OBVIOUS
<1>2. \A k \in 1..N : cs[k].score \in Int /\ top - cs[k].score \in Nat
  BY <1>1, MarkedItems
<1> DEFINE D == {top - cs[k].score : k \in 1..N}
<1>3. D \in SUBSET Nat /\ D # {}
  BY <1>1, <1>2
<1>4. PICK d \in D : \A e \in D : d <= e
  <2> HIDE DEF D
  <2>1. QED
    BY <1>3, LeastNumber
<1>5. PICK b \in 1..N : d = top - cs[b].score
  BY <1>4
<1>6. ASSUME NEW k \in 1..N PROVE cs[k].score <= cs[b].score
  <2>1. top - cs[k].score \in D
    OBVIOUS
  <2> HIDE DEF D
  <2>2. top - cs[b].score <= top - cs[k].score
    BY <1>4, <1>5, <2>1
  <2>3. cs[k].score \in Int /\ cs[b].score \in Int
    BY <1>2
  <2>4. QED
    BY <2>2, <2>3
<1> DEFINE T == {k \in 1..N : cs[k].score = cs[b].score}
<1>7. T \in SUBSET Nat /\ T # {}
  BY <1>5
<1>8. PICK n \in T : \A m \in T : n <= m
  <2> HIDE DEF T
  <2>1. QED
    BY <1>7, LeastNumber
<1>9. n \in 1..N /\ cs[n].score = cs[b].score
  BY <1>8
<1>10. ASSUME NEW k \in 1..N PROVE cs[k].score < cs[n].score \/ (cs[k].score = cs[n].score /\ n <= k)
  <2>1. CASE k \in T
    BY <1>8, <1>9, <2>1
  <2>2. CASE k \notin T
    <3>1. cs[k].score # cs[b].score
      BY <2>2
    <3>2. cs[k].score \in Int /\ cs[b].score \in Int
      BY <1>2
    <3>3. QED
      BY <1>6, <1>9, <3>1, <3>2
  <2>3. QED
    BY <2>1, <2>2
<1> HIDE DEF D, T
<1>11. \E i \in DOMAIN cs : \A k \in DOMAIN cs : cs[k].score < cs[i].score \/ (cs[k].score = cs[i].score /\ i <= k)
  BY <1>1, <1>9, <1>10
<1>12. QED
  BY <1>11, Zenon DEF BestIndex

AnyScores == [1..MatchPlaces -> 0..MaxScore]
Good(scores) == {p \in DOMAIN scores : scores[p] >= Threshold}
Scored(c, scores) == c.at \in Good(scores) /\ c.score = scores[c.at]
Listed(cs, scores) ==
  /\ cs \in Seq(Marked) /\ \A i \in DOMAIN cs : Scored(cs[i], scores)
  /\ \A i, j \in DOMAIN cs : i < j => cs[i].at < cs[j].at
Has(cs, p) == \E n \in DOMAIN cs : cs[n].at = p
Lonely(p, scores) == \A q \in Good(scores) \ {p} : ~MatchesOverlap([at |-> p], [at |-> q])
\* a are the matches found so far and cs the candidates left.
Ranked(a, cs, scores) ==
  /\ a \in Seq(Marked)
  /\ \A i, j \in DOMAIN a : i < j => a[i].score >= a[j].score /\ a[i].at # a[j].at
  /\ \A i \in DOMAIN a, j \in DOMAIN cs : a[i].score >= cs[j].score /\ a[i].at # cs[j].at
  /\ \A p \in Good(scores) : Lonely(p, scores) => Has(a, p) \/ Has(cs, p)
  /\ a = <<>> => \A p \in Good(scores) : Has(cs, p)
  /\ a # <<>> => \A p \in Good(scores) : scores[p] < a[1].score \/ (scores[p] = a[1].score /\ a[1].at <= p)

LEMMA FirstCandidates ==
  ASSUME NEW scores \in AnyScores, NEW cs,
         cs = Picked([p \in 1..MatchPlaces |-> [at |-> p, score |-> scores[p]]], {p \in 1..MatchPlaces : scores[p] >= Threshold})
  PROVE  Listed(cs, scores) /\ \A p \in Good(scores) : Has(cs, p)
<1>1. PICK s, at : s = [p \in 1..MatchPlaces |-> [at |-> p, score |-> scores[p]]] /\ at = {p \in 1..MatchPlaces : scores[p] >= Threshold}
  OBVIOUS
<1>2. PICK N : N = MatchPlaces /\ N \in Nat
  BY VisionBounds DEF VisionBounds
<1>3. /\ DOMAIN scores = 1..N /\ \A p \in 1..N : scores[p] \in Int
      /\ Good(scores) = at /\ at \subseteq 1..N
  BY <1>1, <1>2, VisionBounds DEF VisionBounds, AnyScores, Good
<1>4. \A p \in 1..N : s[p] = [at |-> p, score |-> scores[p]] /\ s[p] \in Marked /\ s[p].at = p /\ s[p].score = scores[p]
  BY <1>1, <1>2, <1>3 DEF Marked
<1>5. s \in Seq(Marked) /\ Len(s) = N
  <2>1. s \in [1..N -> Marked]
    BY <1>1, <1>2, <1>4
  <2>2. QED
    BY <1>2, <2>1
<1>6. cs \in Seq(Marked)
  <2>1. Picked(s, at) \in Seq(Marked)
    BY <1>5, PickedDrawn
  <2>2. QED
    BY <1>1, <2>1
<1>7. PICK h : Drawn(h, cs, s, at, N)
  <2>1. \E h : Drawn(h, Picked(s, at), s, at, Len(s))
    BY <1>5, PickedDrawn
  <2>2. PICK h : Drawn(h, Picked(s, at), s, at, Len(s))
    BY <2>1
  <2>3. Drawn(h, cs, s, at, N)
    BY <1>1, <1>5, <2>2
  <2>4. QED
    BY <2>3
<1>8. PICK m : m = Len(cs) /\ m \in Nat /\ DOMAIN cs = 1..m
  <2>1. Len(cs) \in Nat /\ DOMAIN cs = 1..Len(cs)
    BY <1>6, MarkedItems
  <2>2. QED
    BY <2>1, Zenon
<1>9. \A i \in 1..m : h[i] \in 1..N /\ h[i] \in at /\ cs[i] = s[h[i]]
  BY <1>7, <1>8 DEF Drawn
<1>10. \A i \in 1..m : cs[i].at = h[i] /\ cs[i].score = scores[h[i]]
  BY <1>4, <1>9
<1>11. \A i \in 1..m : Scored(cs[i], scores)
  BY <1>3, <1>9, <1>10 DEF Scored
<1>12. \A i, j \in 1..m : i < j => cs[i].at < cs[j].at
  BY <1>7, <1>8, <1>10 DEF Drawn
<1>13. ASSUME NEW p \in Good(scores) PROVE Has(cs, p)
  <2>1. p \in (1..N) \cap at
    BY <1>3
  <2>2. PICK i \in 1..m : h[i] = p
    BY <1>7, <1>8, <2>1 DEF Drawn
  <2>3. QED
    BY <1>8, <1>10, <2>2 DEF Has
<1>14. QED
  BY <1>6, <1>8, <1>11, <1>12, <1>13 DEF Listed

LEMMA AloneIfLonely ==
  ASSUME NEW scores, NEW cs, Listed(cs, scores), NEW k \in DOMAIN cs, Lonely(cs[k].at, scores)
  PROVE  StandsAlone(cs, k)
<1>1. PICK N : N = Len(cs) /\ N \in Nat /\ DOMAIN cs = 1..N /\ \A i \in 1..N : cs[i].at \in Int
  <2>1. cs \in Seq(Marked)
    BY DEF Listed
  <2>2. QED
    BY <2>1, MarkedItems
<1>2. ASSUME NEW m \in 1..N, m # k PROVE ~MatchesOverlap(cs[k], cs[m])
  <2>1. cs[m].at \in Good(scores) /\ cs[k].at \in Int /\ cs[m].at \in Int
    BY <1>1 DEF Listed, Scored
  <2>2. cs[m].at # cs[k].at
    <3>1. m < k \/ k < m
      BY <1>1, <1>2
    <3>2. cs[m].at < cs[k].at \/ cs[k].at < cs[m].at
      BY <1>1, <3>1 DEF Listed
    <3>3. QED
      BY <2>1, <3>2
  <2>3. ~MatchesOverlap([at |-> cs[k].at], [at |-> cs[m].at])
    BY <2>1, <2>2 DEF Lonely
  <2>4. QED
    BY <2>3 DEF MatchesOverlap
<1>3. QED
  BY <1>1, <1>2 DEF StandsAlone

LEMMA BestOfListed ==
  ASSUME NEW scores \in AnyScores, NEW cs, Listed(cs, scores), cs # <<>>, NEW b, b = BestIndex(cs)
  PROVE  /\ b \in DOMAIN cs /\ \A k \in DOMAIN cs : cs[k].score <= cs[b].score
         /\ (\A p \in Good(scores) : Has(cs, p)) =>
              \A p \in Good(scores) : scores[p] < cs[b].score \/ (scores[p] = cs[b].score /\ cs[b].at <= p)
<1>1. cs \in Seq(Marked) /\ \A k \in DOMAIN cs : cs[k] \in Marked /\ cs[k].score \in Int /\ cs[k].at \in Int
  <2>1. cs \in Seq(Marked)
    BY DEF Listed
  <2>2. QED
    BY <2>1, MarkedItems
<1>2. \A k \in DOMAIN cs : cs[k].at \in 1..MatchPlaces /\ cs[k].score = scores[cs[k].at]
  BY DEF Listed, Scored, Good, AnyScores
<1>3. \A k \in DOMAIN cs : cs[k].score <= MaxScore
  BY <1>2, VisionBounds DEF AnyScores, VisionBounds
<1>4. /\ b \in DOMAIN cs
      /\ \A k \in DOMAIN cs : cs[k].score < cs[b].score \/ (cs[k].score = cs[b].score /\ b <= k)
  BY <1>1, <1>3, BestIndexBest, VisionBounds DEF VisionBounds
<1>5. \A k \in DOMAIN cs : cs[k].score <= cs[b].score
  BY <1>1, <1>4
<1>6. ASSUME NEW p \in Good(scores), Has(cs, p)
      PROVE  scores[p] < cs[b].score \/ (scores[p] = cs[b].score /\ cs[b].at <= p)
  <2>1. PICK k \in DOMAIN cs : cs[k].at = p
    BY <1>6 DEF Has
  <2>2. cs[k].score = scores[p]
    BY <1>2, <2>1
  <2>3. ASSUME b <= k PROVE cs[b].at <= p
    <3>1. CASE b = k
      BY <1>1, <2>1, <3>1
    <3>2. CASE b # k
      <4>1. b < k
        <5>1. b \in Int /\ k \in Int
          BY <1>1, <1>4
        <5>2. QED
          BY <2>3, <3>2, <5>1
      <4>2. cs[b].at < cs[k].at
        BY <1>4, <4>1 DEF Listed
      <4>3. QED
        BY <1>1, <1>4, <2>1, <4>2
    <3>3. QED
      BY <3>1, <3>2
  <2>4. QED
    BY <1>4, <2>1, <2>2, <2>3
<1>7. QED
  BY <1>4, <1>5, <1>6

\* One round of FindAllImages.
LEMMA RoundRanks ==
  ASSUME NEW scores \in AnyScores, NEW a, NEW cs, Listed(cs, scores), Ranked(a, cs, scores), cs # <<>>,
         NEW b, b = BestIndex(cs), NEW a2, a2 = Append(a, cs[b]), NEW c2, c2 = Compacted(cs, b)
  PROVE  Listed(c2, scores) /\ Ranked(a2, c2, scores)
<1>1. cs \in Seq(Marked) /\ \A k \in DOMAIN cs : cs[k] \in Marked /\ cs[k].score \in Int /\ cs[k].at \in Int
  <2>1. cs \in Seq(Marked)
    BY DEF Listed
  <2>2. QED
    BY <2>1, MarkedItems
<1>2. PICK N : N = Len(cs) /\ N \in Nat /\ DOMAIN cs = 1..N
  BY <1>1
<1>3. /\ b \in 1..N /\ \A k \in 1..N : cs[k].score <= cs[b].score
      /\ (\A p \in Good(scores) : Has(cs, p)) =>
           \A p \in Good(scores) : scores[p] < cs[b].score \/ (scores[p] = cs[b].score /\ cs[b].at <= p)
  BY <1>2, BestOfListed
<1>4. c2 \in Seq(Marked) /\ \E h : Remains(h, c2, cs, b)
  BY <1>1, <1>2, <1>3, CompactedRemains
<1>5. PICK h : Remains(h, c2, cs, b)
  BY <1>4
<1>6. PICK m : m = Len(c2) /\ m \in Nat /\ DOMAIN c2 = 1..m
  BY <1>4
<1>7. \A i \in 1..m : h[i] \in 1..N /\ h[i] # b /\ c2[i] = cs[h[i]]
  BY <1>2, <1>5, <1>6 DEF Remains
<1>8. Listed(c2, scores)
  <2>1. \A i \in 1..m : Scored(c2[i], scores)
    BY <1>2, <1>7 DEF Listed
  <2>2. \A i, j \in 1..m : i < j => c2[i].at < c2[j].at
    <3>1. ASSUME NEW i \in 1..m, NEW j \in 1..m, i < j PROVE c2[i].at < c2[j].at
      <4>1. h[i] < h[j] /\ h[i] \in DOMAIN cs /\ h[j] \in DOMAIN cs
        BY <1>2, <1>5, <1>6, <1>7, <3>1 DEF Remains
      <4>2. cs[h[i]].at < cs[h[j]].at
        BY <4>1 DEF Listed
      <4>3. QED
        BY <1>7, <4>2
    <3>2. QED
      BY <3>1
  <2>3. QED
    BY <1>4, <1>6, <2>1, <2>2 DEF Listed
<1>9. PICK l, e : l = Len(a) /\ l \in Nat /\ DOMAIN a = 1..l /\ e = cs[b] /\ e \in Marked /\ a \in Seq(Marked)
  BY <1>1, <1>2, <1>3 DEF Ranked
<1>10. /\ a2 \in Seq(Marked) /\ DOMAIN a2 = 1..(l + 1) /\ a2[l + 1] = e /\ \A i \in 1..l : a2[i] = a[i]
  <2>1. a2 = Append(a, e) /\ a \in Seq(Marked) /\ e \in Marked
    BY <1>9
  <2>2. QED
    BY <1>9, <2>1, Appended
<1>11. \A i \in 1..(l + 1) : i = l + 1 \/ i \in 1..l
  BY <1>9
<1>12. \A i \in 1..l, j \in 1..N : a[i].score >= cs[j].score /\ a[i].at # cs[j].at
  BY <1>2, <1>9 DEF Ranked
<1>13. ASSUME NEW i \in 1..(l + 1), NEW j \in 1..(l + 1), i < j PROVE a2[i].score >= a2[j].score /\ a2[i].at # a2[j].at
  <2>1. i \in 1..l /\ a2[i] = a[i]
    BY <1>9, <1>10, <1>11, <1>13
  <2>2. CASE j = l + 1
    BY <1>3, <1>9, <1>10, <1>12, <2>1, <2>2
  <2>3. CASE j \in 1..l
    <3>1. a[i].score >= a[j].score /\ a[i].at # a[j].at
      BY <1>9, <1>13, <2>1, <2>3 DEF Ranked
    <3>2. QED
      BY <1>10, <2>1, <2>3, <3>1
  <2>4. QED
    BY <1>11, <2>2, <2>3
<1>14. ASSUME NEW i \in 1..(l + 1), NEW j \in 1..m PROVE a2[i].score >= c2[j].score /\ a2[i].at # c2[j].at
  <2>1. PICK k \in 1..N : k = h[j] /\ k # b /\ c2[j] = cs[k]
    BY <1>7
  <2>2. CASE i = l + 1
    <3>1. cs[k].score <= e.score /\ e.score \in Int /\ cs[k].score \in Int
      BY <1>1, <1>2, <1>3, <1>9
    <3>2. cs[k].at # cs[b].at
      <4>1. k < b \/ b < k
        BY <1>2, <1>3, <2>1
      <4>2. cs[k].at < cs[b].at \/ cs[b].at < cs[k].at
        BY <1>2, <1>3, <4>1 DEF Listed
      <4>3. cs[k].at \in Int /\ cs[b].at \in Int
        BY <1>1, <1>2, <1>3
      <4>4. QED
        BY <4>2, <4>3
    <3>3. QED
      BY <1>9, <1>10, <2>1, <2>2, <3>1, <3>2
  <2>3. CASE i \in 1..l
    BY <1>10, <1>12, <2>1, <2>3
  <2>4. QED
    BY <1>11, <2>2, <2>3
<1>15. ASSUME NEW p \in Good(scores), Lonely(p, scores) PROVE Has(a2, p) \/ Has(c2, p)
  <2>1. CASE Has(a, p)
    <3>1. PICK i \in 1..l : a[i].at = p
      BY <1>9, <2>1 DEF Has
    <3>2. i \in 1..(l + 1) /\ a2[i].at = p
      BY <1>9, <1>10, <3>1
    <3>3. QED
      BY <1>10, <3>2 DEF Has
  <2>2. CASE Has(cs, p)
    <3>1. PICK k \in 1..N : cs[k].at = p
      BY <1>2, <2>2 DEF Has
    <3>2. CASE k = b
      <4>1. l + 1 \in 1..(l + 1) /\ a2[l + 1].at = p
        BY <1>9, <1>10, <3>1, <3>2
      <4>2. QED
        BY <1>10, <4>1 DEF Has
    <3>3. CASE k # b
      <4>1. StandsAlone(cs, k)
        BY <1>2, <1>15, <3>1, AloneIfLonely
      <4>2. PICK i \in 1..m : h[i] = k
        BY <1>2, <1>5, <1>6, <3>3, <4>1 DEF Remains
      <4>3. c2[i].at = p
        BY <1>7, <3>1, <4>2
      <4>4. QED
        BY <1>6, <4>3 DEF Has
    <3>4. QED
      BY <3>2, <3>3
  <2>3. Has(a, p) \/ Has(cs, p)
    BY <1>15 DEF Ranked
  <2>4. QED
    BY <2>1, <2>2, <2>3
<1>16. ASSUME NEW p \in Good(scores) PROVE scores[p] < a2[1].score \/ (scores[p] = a2[1].score /\ a2[1].at <= p)
  <2>1. CASE a = <<>>
    <3>1. l = 0 /\ a2[1] = e
      BY <1>9, <1>10, <2>1
    <3>2. \A q \in Good(scores) : Has(cs, q)
      BY <2>1 DEF Ranked
    <3>3. QED
      BY <1>3, <1>9, <3>1, <3>2
  <2>2. CASE a # <<>>
    <3>1. 1 \in 1..l /\ a2[1] = a[1]
      BY <1>9, <1>10, <2>2
    <3>2. scores[p] < a[1].score \/ (scores[p] = a[1].score /\ a[1].at <= p)
      BY <2>2 DEF Ranked
    <3>3. QED
      BY <3>1, <3>2
  <2>3. QED
    BY <2>1, <2>2
<1>17. a2 # <<>>
  <2>1. l + 1 \in DOMAIN a2
    BY <1>9, <1>10
  <2>2. QED
    BY <2>1
<1>18. Ranked(a2, c2, scores)
  <2>0. DOMAIN a2 = 1..(l + 1) /\ DOMAIN c2 = 1..m
    BY <1>6, <1>10
  <2>1. ASSUME NEW i \in DOMAIN a2, NEW j \in DOMAIN a2, i < j PROVE a2[i].score >= a2[j].score /\ a2[i].at # a2[j].at
    <3>1. i \in 1..(l + 1) /\ j \in 1..(l + 1)
      BY <2>0, Zenon
    <3>2. QED
      BY <1>13, <2>1, <3>1
  <2>2. ASSUME NEW i \in DOMAIN a2, NEW j \in DOMAIN c2 PROVE a2[i].score >= c2[j].score /\ a2[i].at # c2[j].at
    <3>1. i \in 1..(l + 1) /\ j \in 1..m
      BY <2>0, Zenon
    <3>2. QED
      BY <1>14, <3>1
  <2>3. QED
    BY <1>10, <1>15, <1>16, <1>17, <2>1, <2>2 DEF Ranked
<1>19. QED
  BY <1>8, <1>18

\* The lines of these up to the n-th that are l.
UpTo(l, s, n) == Cardinality({k \in 1..n : s[k] = l})
LEMMA UpToOne ==
  ASSUME NEW l, NEW s, NEW n \in Nat
  PROVE  /\ UpTo(l, s, n) \in Nat /\ UpTo(l, s, 0) = 0
         /\ UpTo(l, s, n + 1) = IF s[n + 1] = l THEN UpTo(l, s, n) + 1 ELSE UpTo(l, s, n)
<1> DEFINE T(k) == {i \in 1..k : s[i] = l}
<1>1. IsFiniteSet(T(n))
  <2>1. IsFiniteSet(1..n)
    BY FS_Interval
  <2>2. T(n) \in SUBSET (1..n)
    OBVIOUS
  <2>3. QED
    BY <2>1, <2>2, FS_Subset
<1>2. Cardinality(T(n)) \in Nat
  BY <1>1, FS_CardinalityType
<1>3. T(0) = {}
  OBVIOUS
<1>4. Cardinality(T(0)) = 0
  BY <1>3, FS_EmptySet
<1>5. Cardinality(T(n + 1)) = IF s[n + 1] = l THEN Cardinality(T(n)) + 1 ELSE Cardinality(T(n))
  <2>1. CASE s[n + 1] = l
    <3>1. T(n + 1) = T(n) \cup {n + 1} /\ n + 1 \notin T(n)
      BY <2>1
    <3> HIDE DEF T
    <3>2. QED
      BY <1>1, <2>1, <3>1, FS_AddElement
  <2>2. CASE s[n + 1] # l
    <3>1. T(n + 1) = T(n)
      BY <2>2
    <3>2. QED
      BY <2>2, <3>1
  <2>3. QED
    BY <2>1, <2>2
<1>6. QED
  BY <1>2, <1>4, <1>5 DEF UpTo

LEMMA UpToNext ==
  ASSUME NEW l, NEW s, NEW n \in Nat
  PROVE  UpTo(l, s, n + 1) = IF s[n + 1] = l THEN UpTo(l, s, n) + 1 ELSE UpTo(l, s, n)
BY UpToOne

LEMMA RepeatsUpTo ==
  ASSUME NEW S, NEW s \in Seq(S), NEW l
  PROVE  Repeats(l, s) \in Nat /\ Repeats(l, s) = UpTo(l, s, Len(s)) /\ (l \notin Range(s) => Repeats(l, s) = 0)
<1>1. DOMAIN s = 1..Len(s) /\ Len(s) \in Nat
  OBVIOUS
<1>2. Repeats(l, s) = UpTo(l, s, Len(s))
  BY <1>1 DEF Repeats, UpTo
<1>3. UpTo(l, s, Len(s)) \in Nat
  BY <1>1, UpToOne
<1>4. ASSUME l \notin Range(s) PROVE Repeats(l, s) = 0
  <2>1. {k \in DOMAIN s : s[k] = l} = {}
    BY <1>4 DEF Range
  <2>2. QED
    BY <2>1, FS_EmptySet DEF Repeats
<1>5. QED
  BY <1>2, <1>3, <1>4

LEMMA RepeatsOneMore ==
  ASSUME NEW S, NEW s \in Seq(S), NEW e \in S, NEW l
  PROVE  Repeats(l, Append(s, e)) = IF e = l THEN Repeats(l, s) + 1 ELSE Repeats(l, s)
<1>1. PICK n, p : n = Len(s) /\ p = Append(s, e)
  OBVIOUS
<1>2. n \in Nat /\ p \in Seq(S) /\ Len(p) = n + 1 /\ p[n + 1] = e /\ \A i \in 1..n : p[i] = s[i]
  BY <1>1, Appended
<1>3. Repeats(l, p) = UpTo(l, p, n + 1) /\ Repeats(l, s) = UpTo(l, s, n)
  <2>1. Repeats(l, p) = UpTo(l, p, Len(p))
    BY <1>2, RepeatsUpTo
  <2>2. Repeats(l, s) = UpTo(l, s, Len(s))
    BY RepeatsUpTo
  <2>3. QED
    BY <1>1, <1>2, <2>1, <2>2
<1>4. UpTo(l, p, n) = UpTo(l, s, n)
  <2>1. {k \in 1..n : p[k] = l} = {k \in 1..n : s[k] = l}
    BY <1>2
  <2>2. QED
    BY <2>1 DEF UpTo
<1>5. UpTo(l, p, n + 1) = IF e = l THEN UpTo(l, p, n) + 1 ELSE UpTo(l, p, n)
  <2>1. UpTo(l, p, n + 1) = IF p[n + 1] = l THEN UpTo(l, p, n) + 1 ELSE UpTo(l, p, n)
    <3>1. n \in Nat
      BY <1>2
    <3>2. QED
      BY <3>1, UpToNext
  <2>2. QED
    BY <1>2, <2>1
<1>6. QED
  BY <1>1, <1>3, <1>4, <1>5

Used(was, l) ==
  IF l = BlankLine THEN was
  ELSE IF was.count[l] <= 0 THEN [was EXCEPT !.lines = Append(@, l)]
  ELSE [was EXCEPT !.count[l] = @ - 1]
Counts(L) == [count : [L -> Int], lines : Seq(L)]
Using(f, these, those) ==
  /\ f \in [0..Len(these) -> Counts(Range(these))] /\ f[0] = [count |-> [l \in Range(these) |-> Repeats(l, those)], lines |-> <<>>]
  /\ LinesLeft(these, those) = f[Len(these)].lines
  /\ \A n \in 1..Len(these) : f[n] = Used(f[n - 1], these[n])

LEMMA UsedCounts ==
  ASSUME NEW L, NEW t \in Counts(L), NEW l \in L, l # BlankLine
  PROVE  /\ Used(t, l) \in Counts(L)
         /\ t.count[l] <= 0 => Used(t, l).count = t.count /\ Used(t, l).lines = Append(t.lines, l)
         /\ ~(t.count[l] <= 0) => Used(t, l).lines = t.lines /\ Used(t, l).count = [t.count EXCEPT ![l] = @ - 1]
<1>1. t.count \in [L -> Int] /\ t.lines \in Seq(L) /\ t = [count |-> t.count, lines |-> t.lines]
  BY DEF Counts
<1>2. PICK c, s : c = t.count /\ s = t.lines
  OBVIOUS
<1>3. c \in [L -> Int] /\ s \in Seq(L) /\ c[l] \in Int /\ t = [count |-> c, lines |-> s]
  BY <1>1, <1>2
<1>4. CASE c[l] <= 0
  <2>1. Used(t, l) = [count |-> c, lines |-> Append(s, l)]
    BY <1>2, <1>3, <1>4 DEF Used
  <2>2. Append(s, l) \in Seq(L)
    BY <1>3
  <2>3. Used(t, l) \in Counts(L) /\ Used(t, l).count = c /\ Used(t, l).lines = Append(s, l)
    <3>1. PICK s2 : s2 = Append(s, l)
      OBVIOUS
    <3>2. s2 \in Seq(L) /\ Used(t, l) = [count |-> c, lines |-> s2]
      BY <2>1, <2>2, <3>1
    <3>3. Used(t, l) \in Counts(L)
      BY <1>3, <3>2 DEF Counts
    <3>4. QED
      BY <3>1, <3>2, <3>3
  <2>4. QED
    BY <1>2, <1>4, <2>3
<1>5. CASE ~(c[l] <= 0)
  <2>1. Used(t, l) = [count |-> [c EXCEPT ![l] = @ - 1], lines |-> s]
    BY <1>2, <1>3, <1>5 DEF Used
  <2>2. [c EXCEPT ![l] = @ - 1] \in [L -> Int]
    BY <1>3
  <2>3. Used(t, l) \in Counts(L) /\ Used(t, l).lines = s /\ Used(t, l).count = [c EXCEPT ![l] = @ - 1]
    <3>1. PICK c2 : c2 = [c EXCEPT ![l] = @ - 1]
      OBVIOUS
    <3>2. c2 \in [L -> Int] /\ Used(t, l) = [count |-> c2, lines |-> s]
      BY <2>1, <2>2, <3>1
    <3>3. Used(t, l) \in Counts(L)
      BY <1>3, <3>2 DEF Counts
    <3>4. QED
      BY <3>1, <3>2, <3>3
  <2>4. QED
    BY <1>2, <1>5, <2>3
<1>6. QED
  BY <1>4, <1>5

LEMMA UsedAdds ==
  ASSUME NEW L, NEW t \in Counts(L), NEW l \in L, l # BlankLine, t.count[l] <= 0
  PROVE  Used(t, l).count = t.count /\ Used(t, l).lines = Append(t.lines, l)
<1>1. PICK s : s = Append(t.lines, l)
  OBVIOUS
<1>2. t \in [count : [L -> Int], lines : Seq(L)]
  BY DEF Counts
<1>3. Used(t, l) = [t EXCEPT !.lines = s]
  BY <1>1 DEF Used
<1>4. Used(t, l).count = t.count /\ Used(t, l).lines = s
  BY <1>2, <1>3
<1>5. QED
  BY <1>1, <1>4

LEMMA LinesSteps ==
  ASSUME NEW S, NEW these \in Seq(S), NEW those \in Seq(S)
  PROVE  \E f : Using(f, these, those)
<1>0. PICK N, L, A : N = Len(these) /\ L = Range(these) /\ A = Counts(L)
  OBVIOUS
<1> DEFINE first == [count |-> [l \in L |-> Repeats(l, those)], lines |-> <<>>]
           Next(f, n) == IF n = 0 THEN first ELSE Used(f[n - 1], these[n])
<1>1. N \in Nat /\ \A n \in 1..N : these[n] \in L
  BY <1>0 DEF Range
<1>2. first \in A
  <2>1. \A l \in L : Repeats(l, those) \in Int
    BY RepeatsUpTo
  <2>2. QED
    BY <1>0, <2>1 DEF Counts
<1>3. PICK g : g = [n \in 1..N |-> [t \in A |-> Used(t, these[n])]]
  OBVIOUS
<1>4. ASSUME NEW n \in 1..N, NEW t \in A PROVE g[n][t] \in A /\ g[n][t] = Used(t, these[n])
  <2>1. g[n][t] = Used(t, these[n])
    BY <1>3
  <2>2. CASE these[n] = BlankLine
    BY <2>1, <2>2 DEF Used
  <2>3. CASE these[n] # BlankLine
    <3>1. t \in Counts(L) /\ these[n] \in L
      BY <1>0, <1>1
    <3>2. Used(t, these[n]) \in Counts(L)
      BY <2>3, <3>1, UsedCounts
    <3>3. QED
      BY <1>0, <2>1, <3>2
  <2>4. QED
    BY <2>2, <2>3
<1>5. g \in [1..N -> [A -> A]]
  BY <1>3, <1>4
<1>6. PICK f : Stepping(f, A, first, g, N)
  BY <1>1, <1>2, <1>5, StepByStep
<1>7. ASSUME NEW n \in 1..N PROVE f[n] = Used(f[n - 1], these[n])
  <2>1. n - 1 \in 0..N /\ f[n - 1] \in A
    BY <1>1, <1>6 DEF Stepping
  <2>2. QED
    BY <1>4, <1>6, <2>1 DEF Stepping
<1> HIDE DEF first
<1>8. f = [n \in 0..N |-> Next(f, n)]
  <2>1. ASSUME NEW n \in 0..N PROVE f[n] = Next(f, n)
    <3>1. CASE n = 0
      BY <1>6, <3>1 DEF Stepping
    <3>2. CASE n # 0
      <4>1. n \in 1..N
        BY <3>2
      <4>2. QED
        BY <1>7, <3>2, <4>1
    <3>3. QED
      BY <3>1, <3>2
  <2>2. QED
    BY <1>6, <2>1 DEF Stepping
<1>9. PICK u : u = [n \in 0..N |-> Next(u, n)] /\ LinesLeft(these, those) = u[N].lines
  <2> DEFINE c == CHOOSE v : v = [n \in 0..N |-> Next(v, n)]
  <2>1. c = [n \in 0..N |-> Next(c, n)]
    BY <1>8, Zenon
  <2>2. LinesLeft(these, those) = c[N].lines
    BY <1>0, <1>1 DEF LinesLeft, Used, first
  <2>3. QED
    BY <2>1, <2>2
<1>10. f[N] = u[N]
  <2>1. \A n \in 0..N : u[n] = Next(u, n) /\ f[n] = Next(f, n)
    BY <1>8, <1>9
  <2>2. f[0] = u[0]
    <3>1. 0 \in 0..N
      BY <1>1
    <3>2. QED
      BY <2>1, <3>1
  <2>3. ASSUME NEW n \in 1..N, f[n - 1] = u[n - 1] PROVE f[n] = u[n]
    <3>1. n \in 0..N /\ n # 0
      BY <1>1
    <3>2. QED
      BY <2>1, <2>3, <3>1
  <2> HIDE DEF Next
  <2>4. QED
    BY <1>1, <2>2, <2>3, StepsAgree
<1>11. f \in [0..N -> A] /\ f[0] = [count |-> [l \in L |-> Repeats(l, those)], lines |-> <<>>]
  BY <1>6 DEF Stepping, first
<1>12. QED
  BY <1>0, <1>7, <1>9, <1>10, <1>11 DEF Using

\* What is left of a line once as many as there are on the other side are used up.
Beyond(a, b) == IF a > b THEN a - b ELSE 0
LEMMA LinesLeftOver ==
  ASSUME NEW S, NEW these \in Seq(S), NEW those \in Seq(S), NEW l, l # BlankLine
  PROVE  Repeats(l, LinesLeft(these, those)) = Beyond(Repeats(l, these), Repeats(l, those))
<1>0. PICK N, L, c0 : N = Len(these) /\ L = Range(these) /\ c0 = Repeats(l, those)
  OBVIOUS
<1>1. N \in Nat /\ \A n \in 1..N : these[n] \in L
  BY <1>0 DEF Range
<1>2. c0 \in Nat /\ Repeats(l, these) = UpTo(l, these, N) /\ (l \notin L => Repeats(l, these) = 0)
  BY <1>0, RepeatsUpTo
<1>3. PICK f : Using(f, these, those)
  BY LinesSteps
<1>4. /\ \A n \in 0..N : f[n] \in Counts(L) /\ f[n].lines \in Seq(L) /\ f[n].count \in [L -> Int]
      /\ \A n \in 1..N : f[n] = Used(f[n - 1], these[n])
      /\ f[0].lines = <<>> /\ (l \in L => f[0].count[l] = c0) /\ LinesLeft(these, those) = f[N].lines
  <2>1. \A n \in 0..N : f[n] \in Counts(L)
    BY <1>0, <1>3 DEF Using
  <2>2. \A n \in 0..N : f[n].lines \in Seq(L) /\ f[n].count \in [L -> Int]
    BY <2>1 DEF Counts
  <2>3. f[0] = [count |-> [k \in L |-> Repeats(k, those)], lines |-> <<>>]
    BY <1>0, <1>3 DEF Using
  <2>4. f[0].lines = <<>> /\ (l \in L => f[0].count[l] = c0)
    BY <1>0, <2>3
  <2>5. LinesLeft(these, those) = f[N].lines /\ \A n \in 1..N : f[n] = Used(f[n - 1], these[n])
    BY <1>0, <1>3 DEF Using
  <2>6. QED
    BY <2>1, <2>2, <2>4, <2>5
<1>5. CASE l \notin L
  <2>1. 0 \in 0..N /\ N \in 0..N
    BY <1>1
  <2>2. f[N].lines \in Seq(L)
    BY <1>4, <2>1
  <2>3. l \notin Range(f[N].lines)
    BY <1>5, <2>2 DEF Range
  <2>4. Repeats(l, f[N].lines) = 0
    BY <2>2, <2>3, RepeatsUpTo
  <2>5. QED
    BY <1>0, <1>2, <1>4, <1>5, <2>4 DEF Beyond
<1>6. CASE l \in L
  <2> DEFINE I == {n \in 0..N : /\ f[n].count[l] = Beyond(c0, UpTo(l, these, n))
                               /\ Repeats(l, f[n].lines) = Beyond(UpTo(l, these, n), c0)}
  <2>1. 0 \in I
    <3>1. UpTo(l, these, 0) = 0
      BY UpToOne
    <3>2. Repeats(l, <<>>) = 0
      <4>1. <<>> \in Seq(L) /\ l \notin Range(<<>>)
        BY DEF Range
      <4>2. QED
        BY <4>1, RepeatsUpTo
    <3>3. QED
      BY <1>1, <1>2, <1>4, <1>6, <3>1, <3>2 DEF Beyond
  <2>2. ASSUME NEW n \in 0..N, n \in I, n # N PROVE n + 1 \in I
    <3>1. n + 1 \in 1..N /\ (n + 1) - 1 = n /\ n + 1 \in 0..N /\ n \in Nat
      BY <1>1, <2>2
    <3>2. PICK t, e, k : t = f[n] /\ e = these[n + 1] /\ k = UpTo(l, these, n)
      OBVIOUS
    <3>3. t \in Counts(L) /\ t.lines \in Seq(L) /\ t.count \in [L -> Int] /\ e \in L /\ f[n + 1] = Used(t, e)
      BY <1>1, <1>4, <3>1, <3>2
    <3>4. t.count[l] = Beyond(c0, k) /\ Repeats(l, t.lines) = Beyond(k, c0)
      BY <2>2, <3>2
    <3>5. k \in Nat /\ UpTo(l, these, n + 1) = IF e = l THEN k + 1 ELSE k
      <4>1. /\ UpTo(l, these, n) \in Nat
            /\ UpTo(l, these, n + 1) = IF these[n + 1] = l THEN UpTo(l, these, n) + 1 ELSE UpTo(l, these, n)
        BY <3>1, UpToOne
      <4>2. QED
        BY <3>2, <4>1
    <3>6. PICK r : r = Used(t, e)
      OBVIOUS
    <3>7. r.count[l] = Beyond(c0, UpTo(l, these, n + 1)) /\ Repeats(l, r.lines) = Beyond(UpTo(l, these, n + 1), c0)
      <4>1. CASE e = BlankLine
        <5>1. r = t /\ UpTo(l, these, n + 1) = k
          BY <3>5, <3>6, <4>1 DEF Used
        <5>2. QED
          BY <3>4, <5>1
      <4>2. CASE e # BlankLine /\ t.count[e] <= 0
        <5>1. r.count = t.count /\ r.lines = Append(t.lines, e)
          <6>1. Used(t, e).count = t.count /\ Used(t, e).lines = Append(t.lines, e)
            BY <3>3, <4>2, UsedAdds
          <6>2. QED
            BY <3>6, <6>1
        <5>2. Repeats(l, r.lines) = IF e = l THEN Repeats(l, t.lines) + 1 ELSE Repeats(l, t.lines)
          BY <3>3, <5>1, RepeatsOneMore
        <5>3. CASE e = l
          BY <1>2, <3>4, <3>5, <4>2, <5>1, <5>2, <5>3 DEF Beyond
        <5>4. CASE e # l
          BY <1>2, <3>4, <3>5, <5>1, <5>2, <5>4
        <5>5. QED
          BY <5>3, <5>4
      <4>3. CASE e # BlankLine /\ ~(t.count[e] <= 0)
        <5>1. r.lines = t.lines /\ r.count = [t.count EXCEPT ![e] = @ - 1]
          BY <3>3, <3>6, <4>3, UsedCounts
        <5>2. CASE e = l
          <6>1. r.count[l] = t.count[l] - 1
            BY <1>6, <3>3, <5>1, <5>2
          <6>2. QED
            BY <1>2, <3>4, <3>5, <4>3, <5>1, <5>2, <6>1 DEF Beyond
        <5>3. CASE e # l
          <6>1. r.count[l] = t.count[l]
            BY <1>6, <3>3, <5>1, <5>3
          <6>2. QED
            BY <3>4, <3>5, <5>1, <5>3, <6>1
        <5>4. QED
          BY <5>2, <5>3
      <4>4. QED
        BY <4>1, <4>2, <4>3
    <3>8. QED
      BY <3>1, <3>3, <3>6, <3>7
  <2> HIDE DEF I
  <2>3. N \in I
    BY <1>1, <2>1, <2>2, CountUp
  <2>4. Repeats(l, f[N].lines) = Beyond(UpTo(l, these, N), c0)
    BY <2>3 DEF I
  <2>5. QED
    BY <1>0, <1>2, <1>4, <2>4
<1>7. QED
  BY <1>5, <1>6

\* What is removed and added makes up the difference.
LEMMA DiffOfLines ==
  ASSUME NEW S, NEW before \in Seq(S), NEW after \in Seq(S), NEW l, l # BlankLine, NEW d, d = computeTextDiff(before, after)
  PROVE  Repeats(l, before) - Repeats(l, d.removed) + Repeats(l, d.added) = Repeats(l, after)
<1>1. d.added = LinesLeft(after, before) /\ d.removed = LinesLeft(before, after)
  BY DEF computeTextDiff
<1>2. Repeats(l, d.added) = Beyond(Repeats(l, after), Repeats(l, before))
  BY <1>1, LinesLeftOver
<1>3. Repeats(l, d.removed) = Beyond(Repeats(l, before), Repeats(l, after))
  BY <1>1, LinesLeftOver
<1>4. Repeats(l, before) \in Nat /\ Repeats(l, after) \in Nat
  BY RepeatsUpTo
<1>5. QED
  BY <1>2, <1>3, <1>4 DEF Beyond

-----------------------------------------------------------------------------
\* A tool's record keeps its fields.
Shaped(r) == r = [f \in DOMAIN NoLook |-> r[f]]
\* What is captured has a surface, and is the screen if that was asked for.
AimFits ==
  look.stage \in {"aimed", "shot", "placed", "matching", "detected"} =>
    /\ look.aim \in Rectangles /\ look.aim.w > 0 /\ look.aim.h > 0
    /\ look.ask.tool \in {"query", "classify", "find", "find_all"}
    /\ look.ask.source = "screen" => look.aim = Virtual
\* Until the template is tried, or once it was not found, no place is good enough; in between
\* matches and candidates are good places, best match first, and no place that stands alone is lost.
SearchFits ==
  look.ask.tool \in {"find", "find_all"} =>
    /\ look.stage \in {"start", "aimed", "shot", "placed", "detected"} => Good(look.scores) = {} /\ look.answer = <<>>
    /\ look.stage = "matching" =>
         /\ look.scores \in AnyScores /\ Listed(look.candidates, look.scores) /\ Ranked(look.answer, look.candidates, look.scores)
         /\ look.ask.tool = "find" => look.answer = <<>>
\* A stored element's verdict agrees with where its window is now.
Pixels == [x : Int, y : Int]
Verdicts == [valid : BOOLEAN, at : Pixels, how : {"stale", "drifted", "ok"}]
Follows(e, el, now) ==
  /\ e.valid => e.how \in {"drifted", "ok"}
  /\ e.valid /\ now.w = el.window.w /\ now.h = el.window.h =>
       e.at = [x |-> el.at.x + now.x - el.window.x, y |-> el.at.y + now.y - el.window.y]
Stored(n) == look.ask.stored[n]
CheckFits ==
  look.ask.tool = "layout" =>
    /\ look.stage = "start" => look.answer = <<>>
    /\ look.stage = "checking" =>
         /\ look.readAt \in WindowPlaces \cup {Nowhere} /\ look.answer \in Seq(Verdicts) /\ Len(look.answer) < Len(look.ask.stored)
         /\ \A n \in 1..Len(look.answer) : Follows(look.answer[n], Stored(n), look.readAt)
VerifyFits ==
  look.ask.tool = "verify" /\ look.stage = "before" =>
    look.before \in Lines /\ look.aim = SmartRegionAround(look.ask.x, look.ask.y, look.ask.size)
ElementsFit ==
  /\ look.stage = "detected" => look.elements \in Seq(ElementsOf(look.aim))
  /\ look.stage = "annotated" => look.ask.tool = "query"
VisionTypes ==
  /\ Shaped(look) /\ place \in WindowPlaces \cup {Nowhere} /\ look.ask \in VisionRequests \cup {[tool |-> "none"]}
VisionInv == VisionTypes /\ AimFits /\ SearchFits /\ CheckFits /\ VerifyFits /\ ElementsFit /\ ComparedAsSeen

\* The region read around a place on the screen holds it.
LEMMA SmartRegionHolds ==
  ASSUME NEW x \in Int, NEW y \in Int, NEW size \in Nat \ {0}, Holds(Virtual, x, y)
  PROVE  Holds(SmartRegionAround(x, y, size), x, y)
<1>1. PICK vx, vy, vw, vh : vx = Virtual.x /\ vy = Virtual.y /\ vw = Virtual.w /\ vh = Virtual.h
  OBVIOUS
<1>2. vx \in Int /\ vy \in Int /\ vw \in Int /\ vh \in Int
  BY <1>1, ScreenAssumption DEF ScreenAssumption, Rectangles
<1>3. vx <= x /\ x < vx + vw /\ vy <= y /\ y < vy + vh
  BY <1>1, <1>2 DEF Holds
<1>4. PICK half : half = size \div 2 /\ half \in Nat /\ half < size
  OBVIOUS
<1>5. PICK rx, ry : rx = Greater(x - half, vx) /\ ry = Greater(y - half, vy)
  OBVIOUS
<1>6. rx \in Int /\ ry \in Int /\ rx <= x /\ ry <= y /\ x < rx + size /\ y < ry + size
  BY <1>2, <1>3, <1>4, <1>5 DEF Greater
<1>7. PICK w, h : w = Lesser(rx + size, vx + vw) - rx /\ h = Lesser(ry + size, vy + vh) - ry
  OBVIOUS
<1>8. w \in Int /\ h \in Int /\ x < rx + w /\ y < ry + h
  BY <1>2, <1>3, <1>6, <1>7 DEF Lesser
<1>9. SmartRegionAround(x, y, size) = [x |-> rx, y |-> ry, w |-> w, h |-> h]
  BY <1>1, <1>4, <1>5, <1>7 DEF SmartRegionAround, Rectangle
<1>10. x \in rx..(rx + w - 1) /\ y \in ry..(ry + h - 1)
  BY <1>6, <1>8
<1>11. QED
  BY <1>9, <1>10 DEF Holds

\* A crop covers the element it is made for and stays on the screen.
Covers(c, box) ==
  LET r == Shift(box, Virtual.x, Virtual.y)
  IN /\ c.x <= r.x /\ c.y <= r.y /\ r.x + r.w <= c.x + c.w /\ r.y + r.h <= c.y + c.h
     /\ Virtual.x <= c.x /\ c.x + c.w <= Virtual.x + Virtual.w /\ c.y + c.h <= Virtual.y + Virtual.h
LEMMA CropCovers ==
  ASSUME NEW box, Within(box, Virtual)
  PROVE  Covers(elementCropRegion(box), box)
<1>1. PICK vx, vy, vw, vh : vx = Virtual.x /\ vy = Virtual.y /\ vw = Virtual.w /\ vh = Virtual.h
  OBVIOUS
<1>2. vx \in Int /\ vy \in Int /\ vw \in Int /\ vh \in Int
  BY <1>1, ScreenAssumption DEF ScreenAssumption, Rectangles
<1>3. box \in Rectangles /\ box.x >= 0 /\ box.y >= 0 /\ box.w > 0 /\ box.h > 0 /\ box.x + box.w <= vw /\ box.y + box.h <= vh
  BY <1>1 DEF Within
<1>4. PICK bx, by, bw, bh : bx = box.x /\ by = box.y /\ bw = box.w /\ bh = box.h
  OBVIOUS
<1>5. /\ bx \in Int /\ by \in Int /\ bw \in Int /\ bh \in Int /\ box = [x |-> bx, y |-> by, w |-> bw, h |-> bh]
      /\ bx >= 0 /\ by >= 0 /\ bw > 0 /\ bh > 0 /\ bx + bw <= vw /\ by + bh <= vh
  BY <1>3, <1>4 DEF Rectangles
<1>6. /\ Shift(box, vx, vy).x = bx + vx /\ Shift(box, vx, vy).y = by + vy
      /\ Shift(box, vx, vy).w = bw /\ Shift(box, vx, vy).h = bh
  BY <1>3, <1>4 DEF Shift, Rectangles
<1>7. CropPadding \in Nat
  BY VisionBounds DEF VisionBounds
<1>8. PICK x, y : x = Greater(vx + bx - CropPadding, vx) /\ y = Greater(vy + by - CropPadding, vy)
  OBVIOUS
<1>9. x \in Int /\ y \in Int /\ x <= bx + vx /\ y <= by + vy /\ vx <= x /\ vy <= y
  BY <1>2, <1>5, <1>7, <1>8 DEF Greater
<1>10. PICK w, h : w = Lesser(vx + bx + bw + CropPadding, vx + vw) - x /\ h = Lesser(vy + by + bh + CropPadding, vy + vh) - y
  OBVIOUS
<1>11. /\ w \in Int /\ h \in Int /\ bx + vx + bw <= x + w /\ by + vy + bh <= y + h /\ x + w <= vx + vw /\ y + h <= vy + vh
  BY <1>2, <1>5, <1>7, <1>9, <1>10 DEF Lesser
<1>12. elementCropRegion(box) = [x |-> x, y |-> y, w |-> w, h |-> h]
  BY <1>1, <1>4, <1>8, <1>10 DEF elementCropRegion, Rectangle
<1>13. QED
  BY <1>1, <1>6, <1>9, <1>11, <1>12 DEF Covers

LEMMA CropsAreCovers ==
  ASSUME NEW els \in Seq(ElementsOf(Virtual)), NEW at, NEW crops,
         crops = [n \in DOMAIN els |-> [image |-> els[n].box, crop |-> elementCropRegion(els[n].box)]],
         NEW n \in DOMAIN Picked(crops, at)
  PROVE  Covers(Picked(crops, at)[n].crop, Picked(crops, at)[n].image)
<1> DEFINE S == {c \in [image : Rectangles, crop : {elementCropRegion(r) : r \in Rectangles}] : Covers(c.crop, c.image)}
<1>1. PICK N : N = Len(els) /\ N \in Nat /\ DOMAIN els = 1..N
  OBVIOUS
<1>2. ASSUME NEW k \in 1..N PROVE crops[k] \in S
  <2>1. els[k] \in ElementsOf(Virtual)
    BY <1>1
  <2>2. PICK r : r = els[k].box
    OBVIOUS
  <2>3. Within(r, Virtual)
    BY <2>1, <2>2 DEF ElementsOf
  <2>4. Covers(elementCropRegion(r), r) /\ r \in Rectangles
    BY <2>3, CropCovers DEF Within
  <2>5. crops[k] = [image |-> r, crop |-> elementCropRegion(r)]
    BY <1>1, <2>2
  <2>6. crops[k].image = r /\ crops[k].crop = elementCropRegion(r)
    BY <2>5
  <2>7. crops[k] \in [image : Rectangles, crop : {elementCropRegion(b) : b \in Rectangles}]
    <3>1. PICK c : c = elementCropRegion(r)
      OBVIOUS
    <3>2. c \in {elementCropRegion(b) : b \in Rectangles} /\ r \in Rectangles
      BY <2>4, <3>1
    <3>3. PICK T, R : T = {elementCropRegion(b) : b \in Rectangles} /\ R = Rectangles
      OBVIOUS
    <3>4. c \in T /\ r \in R /\ crops[k] = [image |-> r, crop |-> c]
      BY <2>5, <3>1, <3>2, <3>3
    <3>5. crops[k] \in [image : R, crop : T]
      BY <3>4
    <3>6. QED
      BY <3>3, <3>5
  <2>8. QED
    BY <2>4, <2>6, <2>7
<1>3. crops \in Seq(S)
  <2>1. crops \in [1..N -> S]
    BY <1>1, <1>2
  <2>2. QED
    BY <1>1, <2>1
<1> HIDE DEF S
<1>4. Picked(crops, at) \in Seq(S)
  BY <1>3, PickedDrawn
<1>5. Picked(crops, at)[n] \in S
  BY <1>4
<1>6. QED
  BY <1>5 DEF S

\* Half of twice a number is the number.
LEMMA HalfOfTwice == ASSUME NEW k \in Int PROVE Quot(2 * k, 2) = k
BY DEF Quot

StoredElements == [at : Pixels, words : BOOLEAN, window : {r \in Rectangles : r.w > 0 \/ r = [x |-> 0, y |-> 0, w |-> 0, h |-> 0]}]
\* What validate_layout says of one element.
Verdict(el, now, tolerance, seen) ==
  LET known == now # Nowhere /\ el.window.w > 0
      dx == IF known THEN Quot(2 * now.x + now.w - 2 * el.window.x - el.window.w, 2) ELSE 0
      dy == IF known THEN Quot(2 * now.y + now.h - 2 * el.window.y - el.window.h, 2) ELSE 0
      far == Size(dx) > tolerance \/ Size(dy) > tolerance
      drift == dx # 0 \/ dy # 0
      read == ~el.words \/ seen
  IN [valid |-> read /\ ~far,
      at |-> IF far THEN el.at ELSE [x |-> el.at.x + dx, y |-> el.at.y + dy],
      how |-> CASE far \/ (~read /\ ~drift) -> "stale" [] drift -> "drifted" [] OTHER -> "ok"]

LEMMA VerdictFollows ==
  ASSUME NEW el \in StoredElements, NEW now \in WindowPlaces \cup {Nowhere}, NEW tolerance, NEW seen \in BOOLEAN
  PROVE  Verdict(el, now, tolerance, seen) \in Verdicts /\ Follows(Verdict(el, now, tolerance, seen), el, now)
<1>1. PICK s, p, words : s = el.window /\ p = el.at /\ words = el.words
  OBVIOUS
<1>2. s \in Rectangles /\ (s.w > 0 \/ s = Nowhere) /\ p \in Pixels /\ words \in BOOLEAN
  BY <1>1 DEF StoredElements, Nowhere, Rectangle
<1>3. /\ s.x \in Int /\ s.y \in Int /\ s.w \in Int /\ s.h \in Int /\ p.x \in Int /\ p.y \in Int
      /\ (s.w > 0 \/ (s.w = 0 /\ s.h = 0 /\ s.x = 0 /\ s.y = 0)) /\ p = [x |-> p.x, y |-> p.y]
  BY <1>2 DEF Rectangles, Pixels, Nowhere, Rectangle
<1>4. /\ now.x \in Int /\ now.y \in Int /\ now.w \in Int /\ now.h \in Int
      /\ (now = Nowhere => now.w = 0 /\ now.h = 0 /\ now.x = 0 /\ now.y = 0) /\ (now # Nowhere => now.w > 0)
  BY ScreenAssumption DEF ScreenAssumption, Rectangles, Nowhere, Rectangle
<1> DEFINE known == now # Nowhere /\ s.w > 0
<1>5. PICK dx, dy : /\ dx = IF known THEN Quot(2 * now.x + now.w - 2 * s.x - s.w, 2) ELSE 0
                    /\ dy = IF known THEN Quot(2 * now.y + now.h - 2 * s.y - s.h, 2) ELSE 0
  OBVIOUS
<1>6. dx \in Int /\ dy \in Int
  BY <1>3, <1>4, <1>5 DEF Quot
<1>7. PICK far, read : far = (Size(dx) > tolerance \/ Size(dy) > tolerance) /\ read = (~words \/ seen)
  OBVIOUS
<1>8. PICK e : e = Verdict(el, now, tolerance, seen)
  OBVIOUS
<1>9. /\ e = [valid |-> read /\ ~far, at |-> IF far THEN p ELSE [x |-> p.x + dx, y |-> p.y + dy],
              how |-> CASE far \/ (~read /\ ~(dx # 0 \/ dy # 0)) -> "stale" [] dx # 0 \/ dy # 0 -> "drifted" [] OTHER -> "ok"]
      /\ far \in BOOLEAN /\ read \in BOOLEAN
  BY <1>1, <1>5, <1>7, <1>8 DEF Verdict
<1>10. e.valid = (read /\ ~far) /\ (~far => e.at = [x |-> p.x + dx, y |-> p.y + dy]) /\ (far => e.at = p)
  BY <1>9
<1>11. e.how \in {"stale", "drifted", "ok"} /\ (e.valid => e.how \in {"drifted", "ok"})
  BY <1>9
<1>12. e \in Verdicts
  <2>1. e.at \in Pixels
    BY <1>3, <1>6, <1>9, <1>10 DEF Pixels
  <2>2. e.valid \in BOOLEAN
    BY <1>10
  <2>3. e = [valid |-> e.valid, at |-> e.at, how |-> e.how]
    BY <1>9
  <2>4. QED
    BY <1>11, <2>1, <2>2, <2>3 DEF Verdicts
<1>13. ASSUME e.valid, now.w = s.w, now.h = s.h
       PROVE  e.at = [x |-> p.x + now.x - s.x, y |-> p.y + now.y - s.y]
  <2>1. dx = now.x - s.x /\ dy = now.y - s.y
    <3>1. CASE known
      <4>1. 2 * now.x + now.w - 2 * s.x - s.w = 2 * (now.x - s.x) /\ 2 * now.y + now.h - 2 * s.y - s.h = 2 * (now.y - s.y)
        <5>1. now.w = s.w /\ now.h = s.h
          BY <1>13
        <5>2. /\ now.x \in Int /\ now.y \in Int /\ now.w \in Int /\ now.h \in Int
              /\ s.x \in Int /\ s.y \in Int /\ s.w \in Int /\ s.h \in Int
          BY <1>3, <1>4, <3>1
        <5>3. \A u, v, w \in Int : 2 * u + w - 2 * v - w = 2 * (u - v)
          OBVIOUS
        <5>4. QED
          BY <5>1, <5>2, <5>3
      <4>2. now.x - s.x \in Int /\ now.y - s.y \in Int
        BY <1>3, <1>4
      <4>3. \A k \in Int : Quot(2 * k, 2) = k
        BY HalfOfTwice
      <4>4. QED
        BY <1>5, <3>1, <4>1, <4>2, <4>3
    <3>2. CASE ~known
      BY <1>3, <1>4, <1>5, <1>13, <3>2
    <3>3. QED
      BY <3>1, <3>2
  <2>2. e.at = [x |-> p.x + dx, y |-> p.y + dy]
    BY <1>10, <1>13
  <2>3. p.x + dx = p.x + now.x - s.x /\ p.y + dy = p.y + now.y - s.y
    BY <1>3, <1>4, <2>1
  <2>4. QED
    BY <2>2, <2>3
<1>14. QED
  BY <1>1, <1>8, <1>11, <1>12, <1>13 DEF Follows

\* Each verdict is counted once.
Kept(r, how) == {n \in DOMAIN r : r[n].how = how /\ r[n].valid}
LEMMA VerdictsCounted ==
  ASSUME NEW r \in Seq(Verdicts), \A n \in DOMAIN r : r[n].valid => r[n].how \in {"drifted", "ok"}
  PROVE  Cardinality(Kept(r, "ok")) + Cardinality(Kept(r, "drifted")) + Cardinality({n \in DOMAIN r : ~r[n].valid}) = Len(r)
<1>1. PICK A, B, C : A = Kept(r, "ok") /\ B = Kept(r, "drifted") /\ C = {n \in DOMAIN r : ~r[n].valid}
  OBVIOUS
<1>2. PICK N : N = Len(r) /\ N \in Nat /\ DOMAIN r = 1..N
  OBVIOUS
<1>3. IsFiniteSet(1..N) /\ Cardinality(1..N) = N
  <2>1. IsFiniteSet(1..N) /\ Cardinality(1..N) = IF 1 > N THEN 0 ELSE N - 1 + 1
    <3>1. 1 \in Int /\ N \in Int
      BY <1>2
    <3>2. QED
      BY <3>1, FS_Interval
  <2>2. N \in Nat
    BY <1>2
  <2>3. QED
    BY <2>1, <2>2
<1>4. A \in SUBSET (1..N) /\ B \in SUBSET (1..N) /\ C \in SUBSET (1..N)
  BY <1>1, <1>2 DEF Kept
<1>5. IsFiniteSet(A) /\ IsFiniteSet(B) /\ IsFiniteSet(C)
  BY <1>3, <1>4, FS_Subset
<1>6. A \cap B = {} /\ (A \cup B) \cap C = {} /\ (A \cup B) \cup C = 1..N
  BY <1>1, <1>2 DEF Kept
<1>7. IsFiniteSet(A \cup B) /\ Cardinality(A \cup B) = Cardinality(A) + Cardinality(B) - Cardinality(A \cap B)
  BY <1>5, FS_Union
<1>8. Cardinality((A \cup B) \cup C) = Cardinality(A \cup B) + Cardinality(C) - Cardinality((A \cup B) \cap C)
  BY <1>5, <1>7, FS_Union
<1>9. Cardinality({}) = 0
  BY FS_EmptySet
<1>10. Cardinality(A) \in Nat /\ Cardinality(B) \in Nat /\ Cardinality(C) \in Nat
  BY <1>5, FS_CardinalityType
<1>11. Cardinality(A \cup B) = Cardinality(A) + Cardinality(B)
  <2>1. Cardinality(A \cap B) = 0
    BY <1>6, <1>9
  <2>2. Cardinality(A \cup B) = Cardinality(A) + Cardinality(B) - Cardinality(A \cap B)
    BY <1>7
  <2>3. QED
    BY <1>10, <2>1, <2>2
<1>12. N = Cardinality(A \cup B) + Cardinality(C)
  <2>1. Cardinality((A \cup B) \cap C) = 0 /\ Cardinality((A \cup B) \cup C) = N
    BY <1>3, <1>6, <1>9
  <2>2. Cardinality(A \cup B) \in Nat
    BY <1>10, <1>11
  <2>3. QED
    BY <1>8, <1>10, <2>1, <2>2
<1>13. QED
  BY <1>1, <1>2, <1>10, <1>11, <1>12

-----------------------------------------------------------------------------
LEMMA NothingToCompare ==
  ASSUME look'.stage \notin {"detected", "done"}
  PROVE  ComparedAsSeen'
BY DEF ComparedAsSeen, DetectionsApart, CropsCover, MatchesBestFirst, LayoutFollows, DiffBalances, Done

LEMMA ComparesNoOther ==
  ASSUME look'.stage = "done", look'.ask.tool \notin {"classify", "find", "find_all", "layout", "verify"}
  PROVE  ComparedAsSeen'
BY DEF ComparedAsSeen, DetectionsApart, CropsCover, MatchesBestFirst, LayoutFollows, DiffBalances, Done

\* A tool that has failed, or is between two steps that compare nothing.
LEMMA NothingPending ==
  ASSUME VisionTypes', look'.stage \in {"idle", "failed"} \/ (look'.stage = "annotated" /\ look'.ask.tool = "query")
  PROVE  VisionInv'
<1>1. ComparedAsSeen'
  BY NothingToCompare
<1>2. AimFits' /\ CheckFits' /\ VerifyFits' /\ ElementsFit'
  BY DEF AimFits, CheckFits, VerifyFits, ElementsFit
<1>3. SearchFits'
  BY DEF SearchFits
<1>4. QED
  BY <1>1, <1>2, <1>3 DEF VisionInv

\* A tool that is done: what it was asked to compare is all that matters.
LEMMA NothingButCompared ==
  ASSUME VisionTypes', look'.stage = "done", ComparedAsSeen'
  PROVE  VisionInv'
<1>1. AimFits' /\ CheckFits' /\ VerifyFits' /\ ElementsFit'
  BY DEF AimFits, CheckFits, VerifyFits, ElementsFit
<1>2. SearchFits'
  BY DEF SearchFits
<1>3. QED
  BY <1>1, <1>2 DEF VisionInv

\* A tool on its way, with what it aims at and the scores as they were.
LEMMA OnItsWay ==
  ASSUME VisionInv, VisionTypes', look'.ask = look.ask, look'.aim = look.aim, look'.scores = look.scores, look'.answer = look.answer,
         look.stage \in {"aimed", "shot"}, look'.stage \in {"shot", "placed"}
  PROVE  VisionInv'
<1>1. ComparedAsSeen'
  BY NothingToCompare
<1>2. AimFits'
  BY DEF VisionInv, AimFits
<1>3. SearchFits'
  <2>1. look.ask.tool \in {"find", "find_all"} => Good(look.scores) = {} /\ look.answer = <<>>
    BY DEF VisionInv, SearchFits
  <2>2. QED
    BY <2>1 DEF SearchFits
<1>4. CheckFits' /\ VerifyFits' /\ ElementsFit'
  BY DEF CheckFits, VerifyFits, ElementsFit
<1>5. QED
  BY <1>1, <1>2, <1>3, <1>4 DEF VisionInv

LEMMA NoLookShaped == Shaped(NoLook)
BY DEF Shaped, NoLook

LEMMA LookBeginsKeeps ==
  ASSUME VisionInv, NEW ask \in VisionRequests, LookBegins(ask)
  PROVE  VisionInv'
<1>1. look' = [NoLook EXCEPT !.stage = "start", !.ask = ask] /\ place' = place
  BY DEF LookBegins
<1>2. Shaped(look') /\ look'.stage = "start" /\ look'.ask = ask /\ look'.scores = <<>> /\ look'.answer = <<>>
  BY <1>1, NoLookShaped DEF Shaped, NoLook
<1>3. VisionTypes'
  BY <1>1, <1>2 DEF VisionInv, VisionTypes
<1>4. ComparedAsSeen'
  BY <1>2, NothingToCompare
<1>5. Good(<<>>) = {}
  BY DEF Good
<1>6. SearchFits'
  BY <1>2, <1>5 DEF SearchFits
<1>7. AimFits' /\ CheckFits' /\ VerifyFits' /\ ElementsFit'
  BY <1>2 DEF AimFits, CheckFits, VerifyFits, ElementsFit
<1>8. QED
  BY <1>3, <1>4, <1>6, <1>7 DEF VisionInv

\* All that VisionInv says is of the tool's record.
LEMMA LookUnchanged ==
  ASSUME VisionInv, look' = look, place' \in WindowPlaces \cup {Nowhere}
  PROVE  VisionInv'
<1>1. VisionTypes'
  BY DEF VisionInv, VisionTypes
<1>2. AimFits' /\ CheckFits' /\ VerifyFits' /\ ElementsFit'
  BY DEF VisionInv, AimFits, CheckFits, VerifyFits, ElementsFit, Stored
<1>3. SearchFits'
  BY DEF VisionInv, SearchFits
<1>4. (DetectionsApart /\ CropsCover)'
  BY DEF VisionInv, ComparedAsSeen, DetectionsApart, CropsCover, Done
<1>5. (MatchesBestFirst /\ LayoutFollows /\ DiffBalances)'
  BY DEF VisionInv, ComparedAsSeen, MatchesBestFirst, LayoutFollows, DiffBalances, Done
<1>6. QED
  BY <1>1, <1>2, <1>3, <1>4, <1>5 DEF VisionInv, ComparedAsSeen

LEMMA RectanglesHave == ASSUME NEW r \in Rectangles PROVE r.x \in Int /\ r.y \in Int /\ r.w \in Int /\ r.h \in Int
BY DEF Rectangles

LEMMA ScreenshotIsRectangle == ASSUME NEW p \in Rectangles PROVE ScreenshotElement(p) \in Rectangles
<1>1. Virtual \in Rectangles
  BY ScreenAssumption DEF ScreenAssumption
<1>2. PICK x, y : x = Greater(p.x, 0) /\ y = Greater(p.y, 0)
  OBVIOUS
<1>3. x \in Int /\ y \in Int
  BY <1>2, RectanglesHave DEF Greater
<1>4. PICK w, h : w = Lesser(p.x + p.w, Virtual.w) - x /\ h = Lesser(p.y + p.h, Virtual.h) - y
  OBVIOUS
<1>5. w \in Int /\ h \in Int
  BY <1>1, <1>3, <1>4, RectanglesHave DEF Lesser
<1>6. ScreenshotElement(p) = [x |-> x, y |-> y, w |-> w, h |-> h]
  BY <1>2, <1>4 DEF ScreenshotElement, Rectangle
<1>7. QED
  BY <1>3, <1>5, <1>6 DEF Rectangles

LEMMA AimKeeps ==
  ASSUME VisionInv, Aim
  PROVE  VisionInv'
<1>1. look.stage = "start" /\ look.ask.tool \in {"query", "classify", "find", "find_all"} /\ place' = place
  BY DEF Aim, Awaiting, Go
<1>2. PICK r : /\ r = CASE look.ask.source = "screen" -> Virtual [] look.ask.source = "window" -> ScreenshotElement(place) [] OTHER -> look.ask.region
               /\ look' = IF (look.ask.source = "window" /\ place = Nowhere) \/ r.w <= 0 \/ r.h <= 0 THEN Fails
                          ELSE [look EXCEPT !.stage = "aimed", !.aim = r, !.aimed = place]
  BY DEF Aim, Go
<1>3. Shaped(look) /\ look.ask \in VisionRequests /\ place \in WindowPlaces \cup {Nowhere}
  <2>1. look.ask \in VisionRequests \cup {[tool |-> "none"]}
    BY DEF VisionInv, VisionTypes
  <2>2. look.ask # [tool |-> "none"]
    BY <1>1
  <2>3. QED
    BY <2>1, <2>2 DEF VisionInv, VisionTypes
<1>4. CASE look' = Fails
  <2>1. Shaped(look') /\ look'.stage = "failed" /\ look'.ask = look.ask
    BY <1>3, <1>4 DEF Fails, Shaped, NoLook
  <2>2. VisionTypes'
    BY <1>1, <1>3, <2>1 DEF VisionTypes
  <2>3. QED
    BY <2>1, <2>2, NothingPending
<1>5. CASE look' # Fails
  <2>1. /\ look' = [look EXCEPT !.stage = "aimed", !.aim = r, !.aimed = place]
        /\ ~(look.ask.source = "window" /\ place = Nowhere) /\ ~(r.w <= 0) /\ ~(r.h <= 0)
    BY <1>2, <1>5
  <2>2. Shaped(look') /\ look'.stage = "aimed" /\ look'.ask = look.ask /\ look'.aim = r /\ look'.scores = look.scores /\ look'.answer = look.answer
    BY <1>3, <2>1 DEF Shaped, NoLook
  <2>3. VisionTypes'
    BY <1>1, <1>3, <2>2 DEF VisionTypes
  <2>4. r \in Rectangles /\ (look.ask.source = "screen" => r = Virtual)
    <3>1. CASE look.ask.source = "screen"
      BY <1>2, <3>1, ScreenAssumption DEF ScreenAssumption
    <3>2. CASE look.ask.source = "window"
      <4>1. r = ScreenshotElement(place)
        BY <1>2, <3>2
      <4>2. place \in Rectangles
        BY <1>3, <2>1, <3>2, ScreenAssumption DEF ScreenAssumption
      <4>3. QED
        BY <3>2, <4>1, <4>2, ScreenshotIsRectangle
    <3>3. CASE look.ask.source \notin {"screen", "window"}
      <4>1. r = look.ask.region
        BY <1>2, <3>3
      <4>2. look.ask.region \in Rectangles
        BY <1>1, <1>3, <3>3, VisionRequestsAssumption DEF VisionRequestsAssumption
      <4>3. QED
        BY <3>3, <4>1, <4>2
    <3>4. QED
      BY <3>1, <3>2, <3>3
  <2>5. r.w > 0 /\ r.h > 0
    BY <2>1, <2>4, RectanglesHave
  <2>6. AimFits'
    BY <1>1, <2>2, <2>4, <2>5 DEF AimFits
  <2>7. SearchFits'
    <3>1. look.ask.tool \in {"find", "find_all"} => Good(look.scores) = {} /\ look.answer = <<>>
      BY <1>1 DEF VisionInv, SearchFits
    <3>2. QED
      BY <2>2, <3>1 DEF SearchFits
  <2>8. CheckFits' /\ VerifyFits' /\ ElementsFit'
    BY <2>2 DEF CheckFits, VerifyFits, ElementsFit
  <2>9. ComparedAsSeen'
    BY <2>2, NothingToCompare
  <2>10. QED
    BY <2>3, <2>6, <2>7, <2>8, <2>9 DEF VisionInv
<1>6. QED
  BY <1>4, <1>5

LEMMA CaptureShotKeeps ==
  ASSUME VisionInv, CaptureShot
  PROVE  VisionInv'
<1>1. PICK v, stage : /\ look' = [look EXCEPT !.stage = stage, !.shown = v] /\ look.stage = "aimed" /\ place' = place
                      /\ stage \in {"shot", "placed"}
  BY DEF CaptureShot, Go
<1>2. Shaped(look)
  BY DEF VisionInv, VisionTypes
<1>3. Shaped(look') /\ look'.stage = stage /\ look'.ask = look.ask /\ look'.aim = look.aim /\ look'.scores = look.scores /\ look'.answer = look.answer
  BY <1>1, <1>2 DEF Shaped, NoLook
<1>4. VisionTypes'
  BY <1>1, <1>3 DEF VisionInv, VisionTypes
<1>5. QED
  BY <1>1, <1>3, <1>4, OnItsWay

LEMMA AnnotateWindowKeeps ==
  ASSUME VisionInv, AnnotateWindow
  PROVE  VisionInv'
<1>1. PICK v : look' = [look EXCEPT !.stage = "placed", !.readAt = place, !.origin = v] /\ look.stage = "shot" /\ place' = place
  BY DEF AnnotateWindow, Go
<1>2. Shaped(look)
  BY DEF VisionInv, VisionTypes
<1>3. Shaped(look') /\ look'.stage = "placed" /\ look'.ask = look.ask /\ look'.aim = look.aim /\ look'.scores = look.scores /\ look'.answer = look.answer
  BY <1>1, <1>2 DEF Shaped, NoLook
<1>4. VisionTypes'
  BY <1>1, <1>3 DEF VisionInv, VisionTypes
<1>5. QED
  BY <1>1, <1>3, <1>4, OnItsWay

LEMMA DetectKeeps ==
  ASSUME VisionInv, Detect
  PROVE  VisionInv'
<1>1. PICK rows \in SUBSET Detections(look.aim, look.shown) : DetectRows(rows)
  BY DEF Detect
<1>2. PICK B : B = parseYOLOOutput(rows, preprocessYOLO(look.aim.w, look.aim.h), 2)
  OBVIOUS
<1>3. PICK order \in FallingOrders(B) :
        /\ look' = [look EXCEPT !.stage = "detected", !.boxes = B, !.kept = nms(order), !.elements = Elements(nms(order), look.aim)]
        /\ look.stage = "placed" /\ place' = place
  BY <1>1, <1>2 DEF DetectRows, Go
<1>4. PICK chosen, els : chosen = nms(order) /\ els = Elements(nms(order), look.aim)
  OBVIOUS
<1>5. Shaped(look)
  BY DEF VisionInv, VisionTypes
<1>6. /\ Shaped(look') /\ look'.stage = "detected" /\ look'.ask = look.ask /\ look'.aim = look.aim /\ look'.scores = look.scores
      /\ look'.answer = look.answer /\ look'.boxes = B /\ look'.kept = chosen /\ look'.elements = els
  BY <1>3, <1>4, <1>5 DEF Shaped, NoLook
<1>7. VisionTypes'
  BY <1>3, <1>6 DEF VisionInv, VisionTypes
<1>8. look.aim \in Rectangles /\ look.aim.w > 0 /\ look.aim.h > 0
  BY <1>3 DEF VisionInv, AimFits
<1>9. look.aim.w \in Nat \ {0} /\ look.aim.h \in Nat \ {0} /\ look.aim.w \in Int /\ look.aim.h \in Int
  BY <1>8, RectanglesHave
<1>10. IsFiniteSet(B) /\ B \in SUBSET Boxes
  BY <1>2, <1>9, FoundAreBoxes
<1>11. chosen \in Seq(B) /\ Sifted(chosen, order, Len(order))
  BY <1>4, <1>10, NmsSifts
<1>12. \A b \in B : \E k \in 1..Len(order) : order[k] = b
  BY <1>10, OrderHasAll
<1>13. DetectionsApart'
  <2>1. \A i, j \in DOMAIN chosen : i # j => ~Reach(chosen[i], chosen[j])
    BY <1>11 DEF Sifted
  <2>2. ASSUME NEW b \in B
        PROVE  \E n \in DOMAIN chosen : chosen[n] = b \/ (Reach(chosen[n], b) /\ chosen[n].conf >= b.conf)
    <3>1. PICK k \in 1..Len(order) : order[k] = b
      BY <1>12
    <3>2. \E m \in DOMAIN chosen : chosen[m] = order[k] \/ (Reach(chosen[m], order[k]) /\ chosen[m].conf >= order[k].conf)
      BY <1>11 DEF Sifted
    <3>3. QED
      BY <3>1, <3>2
  <2>3. QED
    BY <1>6, <2>1, <2>2 DEF DetectionsApart, Reach
<1>14. ComparedAsSeen'
  BY <1>6, <1>13 DEF ComparedAsSeen, CropsCover, MatchesBestFirst, LayoutFollows, DiffBalances, Done
<1>15. els \in Seq(ElementsOf(look.aim))
  <2>1. chosen \in Seq(Boxes)
    BY <1>10, <1>11
  <2>2. QED
    BY <1>4, <1>9, <2>1, ElementsWithin
<1>16. AimFits' /\ CheckFits' /\ VerifyFits'
  BY <1>3, <1>6 DEF VisionInv, AimFits, CheckFits, VerifyFits
<1>17. ElementsFit'
  BY <1>6, <1>15 DEF ElementsFit
<1>18. SearchFits'
  <2>1. look.ask.tool \in {"find", "find_all"} => Good(look.scores) = {} /\ look.answer = <<>>
    BY <1>3 DEF VisionInv, SearchFits
  <2>2. QED
    BY <1>6, <2>1 DEF SearchFits
<1>19. QED
  BY <1>7, <1>14, <1>16, <1>17, <1>18 DEF VisionInv

LEMMA annotateCaptureKeeps ==
  ASSUME VisionInv, annotateCapture
  PROVE  VisionInv'
<1>1. PICK els, cs : look' = [look EXCEPT !.stage = "annotated", !.elements = els, !.candidates = cs] /\ look.ask.tool = "query" /\ place' = place
  BY DEF annotateCapture, Go, Awaiting
<1>2. Shaped(look)
  BY DEF VisionInv, VisionTypes
<1>3. Shaped(look') /\ look'.stage = "annotated" /\ look'.ask = look.ask
  BY <1>1, <1>2 DEF Shaped, NoLook
<1>4. VisionTypes'
  BY <1>1, <1>3 DEF VisionInv, VisionTypes
<1>5. QED
  BY <1>1, <1>3, <1>4, NothingPending

LEMMA buildElementsQueryKeeps ==
  ASSUME VisionInv, buildElementsQuery
  PROVE  VisionInv'
<1>1. PICK a : look' = [look EXCEPT !.stage = "done", !.answer = a] /\ look.stage = "annotated" /\ place' = place
  BY DEF buildElementsQuery, Go
<1>2. Shaped(look) /\ look.ask.tool = "query"
  BY <1>1 DEF VisionInv, VisionTypes, ElementsFit
<1>3. Shaped(look') /\ look'.stage = "done" /\ look'.ask = look.ask
  BY <1>1, <1>2 DEF Shaped, NoLook
<1>4. VisionTypes'
  BY <1>1, <1>3 DEF VisionInv, VisionTypes
<1>5. ComparedAsSeen'
  BY <1>2, <1>3, ComparesNoOther
<1>6. QED
  BY <1>3, <1>4, <1>5, NothingButCompared

LEMMA classifyElementListKeeps ==
  ASSUME VisionInv, classifyElementList
  PROVE  VisionInv'
<1>1. PICK crops, at :
        /\ crops = [n \in DOMAIN look.elements |-> [image |-> look.elements[n].box, crop |-> elementCropRegion(look.elements[n].box)]]
        /\ look' = [look EXCEPT !.stage = "done", !.readAt = place, !.answer = Picked(crops, at)]
        /\ look.stage = "detected" /\ look.ask.tool = "classify" /\ place' = place
  BY DEF classifyElementList, Go, Awaiting
<1>2. Shaped(look)
  BY DEF VisionInv, VisionTypes
<1>3. Shaped(look') /\ look'.stage = "done" /\ look'.ask = look.ask /\ look'.answer = Picked(crops, at)
  BY <1>1, <1>2 DEF Shaped, NoLook
<1>4. VisionTypes'
  BY <1>1, <1>3 DEF VisionInv, VisionTypes
<1>5. ASSUME look.ask.source = "screen", NEW n \in DOMAIN Picked(crops, at)
      PROVE  Covers(Picked(crops, at)[n].crop, Picked(crops, at)[n].image)
  <2>1. look.aim = Virtual /\ look.elements \in Seq(ElementsOf(look.aim))
    BY <1>1, <1>5 DEF VisionInv, AimFits, ElementsFit
  <2>2. look.elements \in Seq(ElementsOf(Virtual))
    BY <2>1
  <2>3. QED
    BY <1>1, <2>2, CropsAreCovers
<1>6. CropsCover'
  BY <1>3, <1>5 DEF CropsCover, Covers
<1>7. ComparedAsSeen'
  BY <1>1, <1>3, <1>6 DEF ComparedAsSeen, DetectionsApart, MatchesBestFirst, LayoutFollows, DiffBalances, Done
<1>8. QED
  BY <1>3, <1>4, <1>7, NothingButCompared

LEMMA ScoreKeeps ==
  ASSUME VisionInv, NEW scores \in AnyScores, Score(scores)
  PROVE  VisionInv'
<1>1. PICK cs : cs = Picked([p \in 1..MatchPlaces |-> [at |-> p, score |-> scores[p]]], {p \in 1..MatchPlaces : scores[p] >= Threshold})
  OBVIOUS
<1>2. /\ look' = [look EXCEPT !.scores = scores, !.stage = "matching", !.candidates = cs]
      /\ look.stage = "placed" /\ look.ask.tool \in {"find", "find_all"} /\ place' = place
  BY <1>1 DEF Score, Awaiting
<1>3. Shaped(look)
  BY DEF VisionInv, VisionTypes
<1>4. /\ Shaped(look') /\ look'.stage = "matching" /\ look'.ask = look.ask /\ look'.aim = look.aim /\ look'.scores = scores
      /\ look'.candidates = cs /\ look'.answer = look.answer
  BY <1>2, <1>3 DEF Shaped, NoLook
<1>5. VisionTypes'
  BY <1>2, <1>4 DEF VisionInv, VisionTypes
<1>6. look.answer = <<>>
  BY <1>2 DEF VisionInv, SearchFits
<1>7. Listed(cs, scores) /\ \A p \in Good(scores) : Has(cs, p)
  BY <1>1, FirstCandidates
<1>8. Ranked(<<>>, cs, scores)
  BY <1>7 DEF Ranked
<1>9. SearchFits'
  BY <1>4, <1>6, <1>7, <1>8 DEF SearchFits
<1>10. AimFits' /\ CheckFits' /\ VerifyFits' /\ ElementsFit'
  BY <1>2, <1>4 DEF VisionInv, AimFits, CheckFits, VerifyFits, ElementsFit
<1>11. ComparedAsSeen'
  BY <1>4, NothingToCompare
<1>12. QED
  BY <1>5, <1>9, <1>10, <1>11 DEF VisionInv

\* A tool's first step after the template was not found anywhere.
LEMMA NotFoundKeeps ==
  ASSUME VisionInv, look.stage = "matching", look.ask.tool \in {"find", "find_all"}, look.candidates = <<>>, look.answer = <<>>,
         look' = [look EXCEPT !.stage = "placed"], place' = place
  PROVE  VisionInv'
<1>1. Shaped(look)
  BY DEF VisionInv, VisionTypes
<1>2. /\ Shaped(look') /\ look'.stage = "placed" /\ look'.ask = look.ask /\ look'.aim = look.aim /\ look'.scores = look.scores
      /\ look'.answer = <<>>
  BY <1>1 DEF Shaped, NoLook
<1>3. VisionTypes'
  BY <1>2 DEF VisionInv, VisionTypes
<1>4. Ranked(<<>>, <<>>, look.scores)
  BY DEF VisionInv, SearchFits
<1>5. \A p \in Good(look.scores) : Has(<<>>, p)
  BY <1>4 DEF Ranked
<1>6. Good(look.scores) = {}
  BY <1>5 DEF Has
<1>7. SearchFits'
  BY <1>2, <1>6 DEF SearchFits
<1>8. AimFits' /\ CheckFits' /\ VerifyFits' /\ ElementsFit'
  BY <1>2 DEF VisionInv, AimFits, CheckFits, VerifyFits, ElementsFit
<1>9. ComparedAsSeen'
  BY <1>2, NothingToCompare
<1>10. QED
  BY <1>3, <1>7, <1>8, <1>9 DEF VisionInv

\* What the matches found are, once none is left.
LEMMA BestFirst ==
  ASSUME look'.ask.tool \in {"find", "find_all"}, look'.stage = "done",
         Good(look'.scores) # {} =>
           /\ \A p \in Good(look'.scores) : look'.scores[p] < look'.answer[1].score
                                          \/ (look'.scores[p] = look'.answer[1].score /\ look'.answer[1].at <= p)
           /\ \A i, j \in DOMAIN look'.answer : i < j => look'.answer[i].score >= look'.answer[j].score /\ look'.answer[i].at # look'.answer[j].at,
         look'.ask.tool = "find_all" =>
           \A p \in Good(look'.scores) : Lonely(p, look'.scores) => Has(look'.answer, p)
  PROVE  ComparedAsSeen'
<1>1. MatchesBestFirst'
  BY DEF MatchesBestFirst, Done, Good, Lonely, Has
<1>2. QED
  BY <1>1 DEF ComparedAsSeen, DetectionsApart, CropsCover, LayoutFollows, DiffBalances, Done

LEMMA FindImageKeeps ==
  ASSUME VisionInv, FindImage
  PROVE  VisionInv'
<1>1. look.stage = "matching" /\ look.ask.tool = "find" /\ place' = place
  BY DEF FindImage, Awaiting, Go
<1>2. look.scores \in AnyScores /\ Listed(look.candidates, look.scores) /\ Ranked(<<>>, look.candidates, look.scores) /\ look.answer = <<>>
  BY <1>1 DEF VisionInv, SearchFits
<1>3. CASE look.candidates = <<>>
  <2>1. look' = [look EXCEPT !.stage = "placed"]
    BY <1>3 DEF FindImage, Go
  <2>2. QED
    BY <1>1, <1>2, <1>3, <2>1, NotFoundKeeps
<1>4. CASE look.candidates # <<>>
  <2>1. PICK cs, b, e, scores : cs = look.candidates /\ b = BestIndex(cs) /\ e = cs[b] /\ scores = look.scores
    OBVIOUS
  <2>2. look' = [look EXCEPT !.stage = "done", !.answer = <<e>>]
    BY <1>4, <2>1 DEF FindImage, Go
  <2>3. Shaped(look)
    BY DEF VisionInv, VisionTypes
  <2>4. Shaped(look') /\ look'.stage = "done" /\ look'.ask = look.ask /\ look'.scores = scores /\ look'.answer = <<e>>
    BY <2>1, <2>2, <2>3 DEF Shaped, NoLook
  <2>5. VisionTypes'
    BY <1>1, <2>4 DEF VisionInv, VisionTypes
  <2>6. \A p \in Good(scores) : Has(cs, p)
    BY <1>2, <2>1 DEF Ranked
  <2>7. \A p \in Good(scores) : scores[p] < e.score \/ (scores[p] = e.score /\ e.at <= p)
    BY <1>2, <1>4, <2>1, <2>6, BestOfListed
  <2>8. look'.answer[1] = e /\ \A i, j \in DOMAIN look'.answer : ~(i < j)
    BY <2>4
  <2>9. ComparedAsSeen'
    BY <1>1, <2>4, <2>7, <2>8, BestFirst
  <2>10. QED
    BY <2>4, <2>5, <2>9, NothingButCompared
<1>5. QED
  BY <1>3, <1>4

LEMMA findImageONNXFallbackKeeps ==
  ASSUME VisionInv, findImageONNXFallback
  PROVE  VisionInv'
<1>1. look.stage = "detected" /\ look.ask.tool = "find" /\ place' = place
  BY DEF findImageONNXFallback, Awaiting, Go
<1>2. Shaped(look) /\ Good(look.scores) = {}
  BY <1>1 DEF VisionInv, VisionTypes, SearchFits
<1>3. CASE look' = Fails
  <2>1. Shaped(look') /\ look'.stage = "failed" /\ look'.ask = look.ask
    BY <1>2, <1>3 DEF Fails, Shaped, NoLook
  <2>2. VisionTypes'
    BY <1>1, <2>1 DEF VisionInv, VisionTypes
  <2>3. QED
    BY <2>1, <2>2, NothingPending
<1>4. CASE \E a : look' = [look EXCEPT !.stage = "done", !.answer = a]
  <2>1. PICK a : look' = [look EXCEPT !.stage = "done", !.answer = a]
    BY <1>4
  <2>2. Shaped(look') /\ look'.stage = "done" /\ look'.ask = look.ask /\ look'.scores = look.scores
    BY <1>2, <2>1 DEF Shaped, NoLook
  <2>3. VisionTypes'
    BY <1>1, <2>2 DEF VisionInv, VisionTypes
  <2>4. ComparedAsSeen'
    BY <1>1, <1>2, <2>2, BestFirst
  <2>5. QED
    BY <2>2, <2>3, <2>4, NothingButCompared
<1>5. QED
  BY <1>3, <1>4 DEF findImageONNXFallback, Go

LEMMA FindAllRoundKeeps ==
  ASSUME VisionInv, FindAllRound
  PROVE  VisionInv'
<1>1. look.stage = "matching" /\ look.ask.tool = "find_all" /\ place' = place
  BY DEF FindAllRound, Awaiting, Go
<1>2. PICK cs, a, scores : cs = look.candidates /\ a = look.answer /\ scores = look.scores
  OBVIOUS
<1>3. scores \in AnyScores /\ Listed(cs, scores) /\ Ranked(a, cs, scores) /\ Shaped(look)
  BY <1>1, <1>2 DEF VisionInv, VisionTypes, SearchFits
<1>4. CASE cs = <<>> /\ a = <<>>
  <2>1. look' = [look EXCEPT !.stage = "placed"]
    BY <1>2, <1>4 DEF FindAllRound, Go
  <2>2. QED
    BY <1>1, <1>2, <1>4, <2>1, NotFoundKeeps
<1>5. CASE cs = <<>> /\ a # <<>>
  <2>1. look' = [look EXCEPT !.stage = "done"]
    BY <1>2, <1>5 DEF FindAllRound, Go
  <2>2. Shaped(look') /\ look'.stage = "done" /\ look'.ask = look.ask /\ look'.scores = scores /\ look'.answer = a
    BY <1>2, <1>3, <2>1 DEF Shaped, NoLook
  <2>3. VisionTypes'
    BY <1>1, <2>2 DEF VisionInv, VisionTypes
  <2>4. /\ \A p \in Good(scores) : scores[p] < a[1].score \/ (scores[p] = a[1].score /\ a[1].at <= p)
        /\ \A i, j \in DOMAIN a : i < j => a[i].score >= a[j].score /\ a[i].at # a[j].at
    BY <1>3, <1>5 DEF Ranked
  <2>5. ~Has(cs, 0) /\ \A p \in Good(scores) : ~Has(cs, p)
    BY <1>5 DEF Has
  <2>6. \A p \in Good(scores) : Lonely(p, scores) => Has(a, p)
    BY <1>3, <2>5 DEF Ranked
  <2>7. ComparedAsSeen'
    BY <1>1, <2>2, <2>4, <2>6, BestFirst
  <2>8. QED
    BY <2>2, <2>3, <2>7, NothingButCompared
<1>6. CASE cs # <<>>
  <2>1. PICK b, a2, c2 : b = BestIndex(cs) /\ a2 = Append(a, cs[b]) /\ c2 = Compacted(cs, b)
    OBVIOUS
  <2>2. look' = [look EXCEPT !.answer = a2, !.candidates = c2]
    BY <1>2, <1>6, <2>1 DEF FindAllRound, Go
  <2>3. /\ Shaped(look') /\ look'.stage = "matching" /\ look'.ask = look.ask /\ look'.aim = look.aim /\ look'.scores = scores
        /\ look'.answer = a2 /\ look'.candidates = c2
    BY <1>1, <1>2, <1>3, <2>2 DEF Shaped, NoLook
  <2>4. VisionTypes'
    BY <1>1, <2>3 DEF VisionInv, VisionTypes
  <2>5. Listed(c2, scores) /\ Ranked(a2, c2, scores)
    BY <1>3, <1>6, <2>1, RoundRanks
  <2>6. SearchFits'
    BY <1>1, <1>3, <2>3, <2>5 DEF SearchFits
  <2>7. AimFits' /\ CheckFits' /\ VerifyFits' /\ ElementsFit'
    BY <1>1, <2>3 DEF VisionInv, AimFits, CheckFits, VerifyFits, ElementsFit
  <2>8. ComparedAsSeen'
    BY <2>3, NothingToCompare
  <2>9. QED
    BY <2>4, <2>6, <2>7, <2>8 DEF VisionInv
<1>7. QED
  BY <1>4, <1>5, <1>6

LEMMA findAllONNXFallbackKeeps ==
  ASSUME VisionInv, findAllONNXFallback
  PROVE  VisionInv'
<1>1. PICK a : look' = [look EXCEPT !.stage = "done", !.answer = a] /\ look.stage = "detected" /\ look.ask.tool = "find_all" /\ place' = place
  BY DEF findAllONNXFallback, Awaiting, Go
<1>2. Shaped(look) /\ Good(look.scores) = {}
  BY <1>1 DEF VisionInv, VisionTypes, SearchFits
<1>3. Shaped(look') /\ look'.stage = "done" /\ look'.ask = look.ask /\ look'.scores = look.scores
  BY <1>1, <1>2 DEF Shaped, NoLook
<1>4. VisionTypes'
  BY <1>1, <1>3 DEF VisionInv, VisionTypes
<1>5. ComparedAsSeen'
  BY <1>1, <1>2, <1>3, BestFirst
<1>6. QED
  BY <1>3, <1>4, <1>5, NothingButCompared

LEMMA AskedFor ==
  ASSUME VisionInv, look.ask.tool # "none"
  PROVE  Shaped(look) /\ look.ask \in VisionRequests /\ place \in WindowPlaces \cup {Nowhere}
<1>1. look.ask \in VisionRequests \cup {[tool |-> "none"]}
  BY DEF VisionInv, VisionTypes
<1>2. look.ask # [tool |-> "none"]
  OBVIOUS
<1>3. QED
  BY <1>1, <1>2 DEF VisionInv, VisionTypes

LEMMA StoredAsked ==
  ASSUME NEW ask \in VisionRequests, ask.tool = "layout"
  PROVE  ask.stored \in Seq(StoredElements) /\ Len(ask.stored) \in Nat \ {0} /\ \A n \in 1..Len(ask.stored) : ask.stored[n] \in StoredElements
<1>1. ask.stored \in Seq(StoredElements) /\ ask.stored # <<>>
  BY VisionRequestsAssumption DEF VisionRequestsAssumption, StoredElements, Pixels
<1>2. PICK s : s = ask.stored
  OBVIOUS
<1>3. s \in Seq(StoredElements) /\ s # <<>>
  BY <1>1, <1>2
<1>4. Len(s) \in Nat \ {0} /\ \A n \in 1..Len(s) : s[n] \in StoredElements
  BY <1>3
<1>5. QED
  BY <1>1, <1>2, <1>4

LEMMA LayoutDone ==
  ASSUME NEW r \in Seq(Verdicts), NEW stored, NEW now, look'.stage = "done", look'.ask.tool = "layout", look'.answer = r,
         look'.ask.stored = stored, look'.readAt = now, Len(r) = Len(stored), \A n \in 1..Len(r) : Follows(r[n], stored[n], now)
  PROVE  ComparedAsSeen'
<1>1. DOMAIN r = 1..Len(r)
  OBVIOUS
<1>2. \A n \in DOMAIN r : r[n].valid => r[n].how \in {"drifted", "ok"}
  BY <1>1 DEF Follows
<1>3. Cardinality(Kept(r, "ok")) + Cardinality(Kept(r, "drifted")) + Cardinality({n \in DOMAIN r : ~r[n].valid}) = Len(r)
  BY <1>2, VerdictsCounted
<1>4. ASSUME NEW n \in DOMAIN r, r[n].valid, now.w = stored[n].window.w, now.h = stored[n].window.h
      PROVE  r[n].at = [x |-> stored[n].at.x + now.x - stored[n].window.x, y |-> stored[n].at.y + now.y - stored[n].window.y]
  BY <1>1, <1>4 DEF Follows
<1>5. LayoutFollows'
  BY <1>3, <1>4 DEF LayoutFollows, Kept
<1>6. QED
  BY <1>5 DEF ComparedAsSeen, DetectionsApart, CropsCover, MatchesBestFirst, DiffBalances, Done

LEMMA LayoutReadsKeeps ==
  ASSUME VisionInv, LayoutReads
  PROVE  VisionInv'
<1>1. look.stage = "start" /\ look.ask.tool = "layout" /\ place' = place
  BY DEF LayoutReads, Awaiting, Go
<1>2. Shaped(look) /\ look.ask \in VisionRequests /\ place \in WindowPlaces \cup {Nowhere} /\ look.answer = <<>>
  <2>1. look.answer = <<>>
    BY <1>1 DEF VisionInv, CheckFits
  <2>2. QED
    BY <1>1, <2>1, AskedFor
<1>3. PICK stored : stored = look.ask.stored
  OBVIOUS
<1>4. stored \in Seq(StoredElements) /\ Len(stored) \in Nat \ {0} /\ \A n \in 1..Len(stored) : stored[n] \in StoredElements
  BY <1>1, <1>2, <1>3, StoredAsked
<1>5. CASE place = Nowhere /\ look.ask.by = "handle"
  <2>1. PICK r : r = [n \in DOMAIN stored |-> [valid |-> FALSE, at |-> stored[n].at, how |-> "stale"]]
    OBVIOUS
  <2>2. look' = [look EXCEPT !.stage = "done", !.answer = r]
    BY <1>3, <1>5, <2>1 DEF LayoutReads, Go
  <2>3. Shaped(look') /\ look'.stage = "done" /\ look'.ask = look.ask /\ look'.answer = r
    BY <1>2, <2>2 DEF Shaped, NoLook
  <2>4. VisionTypes'
    BY <1>1, <1>2, <2>3 DEF VisionTypes
  <2>5. PICK N : N = Len(stored) /\ N \in Nat /\ DOMAIN stored = 1..N
    BY <1>4
  <2>6. \A n \in 1..N : r[n] \in Verdicts /\ r[n].valid = FALSE
    <3>1. ASSUME NEW n \in 1..N PROVE r[n] \in Verdicts /\ r[n].valid = FALSE
      <4>1. stored[n].at \in Pixels
        BY <1>4, <2>5 DEF StoredElements
      <4>2. r[n] = [valid |-> FALSE, at |-> stored[n].at, how |-> "stale"]
        BY <2>1, <2>5
      <4>3. QED
        BY <4>1, <4>2 DEF Verdicts
    <3>2. QED
      BY <3>1
  <2>7. r \in Seq(Verdicts) /\ Len(r) = N
    <3>1. r \in [1..N -> Verdicts]
      BY <2>1, <2>5, <2>6
    <3>2. QED
      BY <2>5, <3>1
  <2>8. \A n \in 1..Len(r) : Follows(r[n], stored[n], look'.readAt)
    BY <2>6, <2>7 DEF Follows
  <2>9. ComparedAsSeen'
    BY <1>1, <1>3, <2>3, <2>5, <2>7, <2>8, LayoutDone
  <2>10. QED
    BY <2>3, <2>4, <2>9, NothingButCompared
<1>6. CASE ~(place = Nowhere /\ look.ask.by = "handle")
  <2>1. look' = [look EXCEPT !.stage = "checking", !.readAt = place]
    BY <1>6 DEF LayoutReads, Go
  <2>2. Shaped(look') /\ look'.stage = "checking" /\ look'.ask = look.ask /\ look'.answer = <<>> /\ look'.readAt = place
    BY <1>2, <2>1 DEF Shaped, NoLook
  <2>3. VisionTypes'
    BY <1>1, <1>2, <2>2 DEF VisionTypes
  <2>4. CheckFits'
    <3>1. <<>> \in Seq(Verdicts) /\ Len(<<>>) = 0
      OBVIOUS
    <3>2. Len(<<>>) < Len(look.ask.stored)
      BY <1>3, <1>4, <3>1
    <3>3. \A n \in 1..Len(<<>>) : FALSE
      BY <3>1
    <3>4. QED
      BY <1>2, <2>2, <3>1, <3>2, <3>3 DEF CheckFits
  <2>5. AimFits' /\ SearchFits' /\ VerifyFits' /\ ElementsFit'
    BY <1>1, <2>2 DEF AimFits, SearchFits, VerifyFits, ElementsFit
  <2>6. ComparedAsSeen'
    BY <2>2, NothingToCompare
  <2>7. QED
    BY <2>3, <2>4, <2>5, <2>6 DEF VisionInv
<1>7. QED
  BY <1>5, <1>6

LEMMA ValidateLayoutKeeps ==
  ASSUME VisionInv, NEW seen \in BOOLEAN, ValidateLayout(seen)
  PROVE  VisionInv'
<1>1. look.stage = "checking" /\ look.ask.tool = "layout" /\ place' = place
  BY DEF ValidateLayout, Awaiting, Go
<1>2. Shaped(look) /\ look.ask \in VisionRequests /\ place \in WindowPlaces \cup {Nowhere}
  BY <1>1, AskedFor
<1>3. PICK stored, a, now, n : stored = look.ask.stored /\ a = look.answer /\ now = look.readAt /\ n = Len(a) + 1
  OBVIOUS
<1>4. PICK res : res = Verdict(stored[n], now, look.ask.tolerance, seen)
  OBVIOUS
<1>5. PICK r, stage : r = Append(a, res) /\ stage = IF n = Len(stored) THEN "done" ELSE "checking"
  OBVIOUS
<1>6. look' = [look EXCEPT !.answer = r, !.stage = stage]
  BY <1>3, <1>4, <1>5 DEF ValidateLayout, Go, Verdict
<1>7. Shaped(look') /\ look'.stage = stage /\ look'.ask = look.ask /\ look'.answer = r /\ look'.readAt = now
  BY <1>2, <1>3, <1>6 DEF Shaped, NoLook
<1>8. VisionTypes'
  BY <1>1, <1>2, <1>7 DEF VisionTypes
<1>9. /\ now \in WindowPlaces \cup {Nowhere} /\ a \in Seq(Verdicts) /\ Len(a) < Len(stored)
      /\ \A k \in 1..Len(a) : Follows(a[k], stored[k], now)
  BY <1>1, <1>3 DEF VisionInv, CheckFits, Stored
<1>10. Len(stored) \in Nat /\ \A k \in 1..Len(stored) : stored[k] \in StoredElements
  BY <1>1, <1>2, <1>3, StoredAsked
<1>11. n \in 1..Len(stored) /\ n \in Nat /\ n = Len(a) + 1 /\ n <= Len(stored) /\ Len(a) \in Nat
  BY <1>3, <1>9, <1>10
<1>12. res \in Verdicts /\ Follows(res, stored[n], now)
  <2>1. stored[n] \in StoredElements
    BY <1>10, <1>11
  <2>2. QED
    BY <1>4, <1>9, <2>1, VerdictFollows
<1>13. r \in Seq(Verdicts) /\ Len(r) = n /\ r[n] = res /\ \A k \in 1..Len(a) : r[k] = a[k]
  <2>1. a \in Seq(Verdicts) /\ res \in Verdicts
    BY <1>9, <1>12
  <2>2. QED
    BY <1>5, <1>11, <2>1, Appended
<1>14. ASSUME NEW k \in 1..Len(r) PROVE Follows(r[k], stored[k], now)
  <2>1. CASE k = n
    BY <1>12, <1>13, <2>1
  <2>2. CASE k # n
    <3>1. k \in 1..Len(a)
      BY <1>11, <1>13, <2>2
    <3>2. QED
      BY <1>9, <1>13, <3>1
  <2>3. QED
    BY <2>1, <2>2
<1>15. CASE n = Len(stored)
  <2>1. look'.stage = "done" /\ Len(r) = Len(stored) /\ look'.ask.stored = stored /\ look'.ask.tool = "layout"
    BY <1>1, <1>3, <1>5, <1>7, <1>13, <1>15
  <2>2. ComparedAsSeen'
    BY <1>7, <1>13, <1>14, <2>1, LayoutDone
  <2>3. QED
    BY <1>8, <2>1, <2>2, NothingButCompared
<1>16. CASE n # Len(stored)
  <2>1. look'.stage = "checking" /\ look'.ask.tool = "layout" /\ Len(r) < Len(stored)
    BY <1>1, <1>5, <1>7, <1>10, <1>11, <1>13, <1>16
  <2>2. CheckFits'
    BY <1>3, <1>7, <1>9, <1>13, <1>14, <2>1 DEF CheckFits, Stored
  <2>3. AimFits' /\ SearchFits' /\ VerifyFits' /\ ElementsFit'
    BY <2>1 DEF AimFits, SearchFits, VerifyFits, ElementsFit
  <2>4. ComparedAsSeen'
    BY <2>1, NothingToCompare
  <2>5. QED
    BY <1>8, <2>2, <2>3, <2>4 DEF VisionInv
<1>17. QED
  BY <1>15, <1>16

LEMMA VerifyBeforeKeeps ==
  ASSUME VisionInv, NEW lines \in Lines, VerifyBefore(lines)
  PROVE  VisionInv'
<1>1. look.stage = "start" /\ look.ask.tool = "verify" /\ place' = place
  BY DEF VerifyBefore, Awaiting, Go
<1>2. Shaped(look) /\ look.ask \in VisionRequests /\ place \in WindowPlaces \cup {Nowhere}
  BY <1>1, AskedFor
<1>3. PICK r : r = SmartRegionAround(look.ask.x, look.ask.y, look.ask.size)
  OBVIOUS
<1>4. CASE look' = Fails
  <2>1. Shaped(look') /\ look'.stage = "failed" /\ look'.ask = look.ask
    BY <1>2, <1>4 DEF Fails, Shaped, NoLook
  <2>2. VisionTypes'
    BY <1>1, <1>2, <2>1 DEF VisionTypes
  <2>3. QED
    BY <2>1, <2>2, NothingPending
<1>5. CASE look' = [look EXCEPT !.stage = "before", !.before = lines, !.aim = r]
  <2>1. Shaped(look') /\ look'.stage = "before" /\ look'.ask = look.ask /\ look'.before = lines /\ look'.aim = r
    BY <1>2, <1>5 DEF Shaped, NoLook
  <2>2. VisionTypes'
    BY <1>1, <1>2, <2>1 DEF VisionTypes
  <2>3. VerifyFits'
    BY <1>3, <2>1 DEF VerifyFits
  <2>4. AimFits' /\ SearchFits' /\ CheckFits' /\ ElementsFit'
    BY <1>1, <2>1 DEF AimFits, SearchFits, CheckFits, ElementsFit
  <2>5. ComparedAsSeen'
    BY <2>1, NothingToCompare
  <2>6. QED
    BY <2>2, <2>3, <2>4, <2>5 DEF VisionInv
<1>6. QED
  BY <1>3, <1>4, <1>5 DEF VerifyBefore, Go

LEMMA verifyOCRResultsKeeps ==
  ASSUME VisionInv, NEW lines \in Lines, verifyOCRResults(lines)
  PROVE  VisionInv'
<1>1. look.stage = "before" /\ look.ask.tool = "verify" /\ place' = place
  BY DEF verifyOCRResults, Awaiting, Go
<1>2. Shaped(look) /\ look.ask \in VisionRequests /\ place \in WindowPlaces \cup {Nowhere}
  BY <1>1, AskedFor
<1>3. PICK before, d : before = look.before /\ d = computeTextDiff(before, lines)
  OBVIOUS
<1>4. PICK passed : look' = [look EXCEPT !.stage = "done", !.after = lines, !.answer = [added |-> d.added, removed |-> d.removed, passed |-> passed]]
  BY <1>3 DEF verifyOCRResults, Go
<1>5. /\ Shaped(look') /\ look'.stage = "done" /\ look'.ask = look.ask /\ look'.before = before /\ look'.after = lines /\ look'.aim = look.aim
      /\ look'.answer.added = d.added /\ look'.answer.removed = d.removed
  BY <1>2, <1>3, <1>4 DEF Shaped, NoLook
<1>6. VisionTypes'
  BY <1>1, <1>2, <1>5 DEF VisionTypes
<1>7. before \in Lines /\ look.aim = SmartRegionAround(look.ask.x, look.ask.y, look.ask.size)
  BY <1>1, <1>3 DEF VisionInv, VerifyFits
<1>8. ASSUME NEW l, l # BlankLine PROVE Repeats(l, before) - Repeats(l, d.removed) + Repeats(l, d.added) = Repeats(l, lines)
  <2>1. PICK S : S = STRING
    OBVIOUS
  <2>2. before \in Seq(S) /\ lines \in Seq(S)
    BY <1>7, <2>1, ScreenAssumption DEF ScreenAssumption
  <2>3. QED
    BY <1>3, <1>8, <2>2, DiffOfLines
<1>9. look.ask.x \in Int /\ look.ask.y \in Int /\ look.ask.size \in Nat \ {0}
  BY <1>1, <1>2, VisionRequestsAssumption DEF VisionRequestsAssumption
<1>10. Holds(Virtual, look.ask.x, look.ask.y) => Holds(look.aim, look.ask.x, look.ask.y)
  BY <1>7, <1>9, SmartRegionHolds
<1>11. DiffBalances'
  BY <1>5, <1>8, <1>10 DEF DiffBalances, Holds
<1>12. ComparedAsSeen'
  BY <1>1, <1>5, <1>11 DEF ComparedAsSeen, DetectionsApart, CropsCover, MatchesBestFirst, LayoutFollows, Done
<1>13. QED
  BY <1>5, <1>6, <1>12, NothingButCompared

LEMMA VisionInvHolds == VisionSpec => []VisionInv
<1>1. VisionInit => VisionInv
  <2>1. SUFFICES ASSUME VisionInit PROVE VisionInv
    OBVIOUS
  <2>2. look = NoLook /\ place \in WindowPlaces
    BY <2>1 DEF VisionInit
  <2>3. Shaped(look) /\ look.stage = "idle" /\ look.ask = [tool |-> "none"]
    BY <2>2, NoLookShaped DEF NoLook
  <2>4. VisionTypes
    BY <2>2, <2>3 DEF VisionTypes
  <2>5. AimFits /\ SearchFits /\ CheckFits /\ VerifyFits /\ ElementsFit
    BY <2>3 DEF AimFits, SearchFits, CheckFits, VerifyFits, ElementsFit
  <2>6. ComparedAsSeen
    BY <2>3 DEF ComparedAsSeen, DetectionsApart, CropsCover, MatchesBestFirst, LayoutFollows, DiffBalances, Done
  <2>7. QED
    BY <2>4, <2>5, <2>6 DEF VisionInv
<1>2. VisionInv /\ [VisionNext]_visionVars => VisionInv'
  <2>1. SUFFICES ASSUME VisionInv, [VisionNext]_visionVars PROVE VisionInv'
    OBVIOUS
  <2>2. CASE UNCHANGED visionVars
    <3>1. look' = look /\ place' = place
      BY <2>2 DEF visionVars
    <3>2. place' \in WindowPlaces \cup {Nowhere}
      BY <2>1, <3>1 DEF VisionInv, VisionTypes
    <3>3. QED
      BY <2>1, <3>1, <3>2, LookUnchanged
  <2>3. CASE \E ask \in VisionRequests : LookBegins(ask)
    BY <2>1, <2>3, LookBeginsKeeps
  <2>4. CASE \E p \in WindowPlaces \cup {Nowhere} : WindowMoves(p)
    <3>1. look' = look /\ place' \in WindowPlaces \cup {Nowhere}
      BY <2>4 DEF WindowMoves
    <3>2. QED
      BY <2>1, <3>1, LookUnchanged
  <2>5. CASE Aim
    BY <2>1, <2>5, AimKeeps
  <2>6. CASE CaptureShot
    BY <2>1, <2>6, CaptureShotKeeps
  <2>7. CASE AnnotateWindow
    BY <2>1, <2>7, AnnotateWindowKeeps
  <2>8. CASE Detect
    BY <2>1, <2>8, DetectKeeps
  <2>9. CASE annotateCapture
    BY <2>1, <2>9, annotateCaptureKeeps
  <2>10. CASE buildElementsQuery
    BY <2>1, <2>10, buildElementsQueryKeeps
  <2>11. CASE classifyElementList
    BY <2>1, <2>11, classifyElementListKeeps
  <2>12. CASE \E scores \in [1..MatchPlaces -> 0..MaxScore] : Score(scores)
    BY <2>1, <2>12, ScoreKeeps DEF AnyScores
  <2>13. CASE FindImage
    BY <2>1, <2>13, FindImageKeeps
  <2>14. CASE findImageONNXFallback
    BY <2>1, <2>14, findImageONNXFallbackKeeps
  <2>15. CASE FindAllRound
    BY <2>1, <2>15, FindAllRoundKeeps
  <2>16. CASE findAllONNXFallback
    BY <2>1, <2>16, findAllONNXFallbackKeeps
  <2>17. CASE LayoutReads
    BY <2>1, <2>17, LayoutReadsKeeps
  <2>18. CASE \E seen \in BOOLEAN : ValidateLayout(seen)
    BY <2>1, <2>18, ValidateLayoutKeeps
  <2>19. CASE \E lines \in Lines : VerifyBefore(lines)
    BY <2>1, <2>19, VerifyBeforeKeeps
  <2>20. CASE \E lines \in Lines : verifyOCRResults(lines)
    BY <2>1, <2>20, verifyOCRResultsKeeps
  <2>21. CASE VisionNext
    <3>1. (\E lines \in Lines : VerifyBefore(lines) \/ verifyOCRResults(lines)) =>
            (\E lines \in Lines : VerifyBefore(lines)) \/ (\E lines \in Lines : verifyOCRResults(lines))
      OBVIOUS
    <3>2. QED
      BY <2>3, <2>4, <2>5, <2>6, <2>7, <2>8, <2>9, <2>10, <2>11, <2>12, <2>13, <2>14, <2>15, <2>16, <2>17, <2>18, <2>19, <2>20,
         <2>21, <3>1 DEF VisionNext
  <2>22. QED
    BY <2>1, <2>2, <2>21
<1>3. QED
  BY <1>1, <1>2, PTL DEF VisionSpec

\* The screen tools' comparisons come out as what they looked at has it: boxes kept apart and none
\* dropped without a better one (onnx.go:489), crops around their elements and on the screen
\* (watcher.go:259), matches best first and none missing that stands alone (template.go:158), a
\* layout moved with its window (validate_layout.go:46), lines that balance (verify.go:142).
THEOREM ComparedAsSeenHolds == VisionSpec => []ComparedAsSeen
<1>1. VisionInv => ComparedAsSeen
  BY DEF VisionInv
<1>2. QED
  BY <1>1, VisionInvHolds, PTL

=============================================================================
