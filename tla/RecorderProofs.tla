--------------------------- MODULE RecorderProofs ---------------------------
(***************************************************************************)
(* Recordings, for any calls in any number and for any inputs: types, that *)
(* what is noticed is kept, that a recording in progress has its loop, and *)
(* that a recording is returned once.                                      *)
(***************************************************************************)
EXTENDS Recorder, FiniteSetTheorems, TLAPS

\* There is a number left for the channel of a call that has not begun.
Busy == {c \in Calls : pc[c] # "idle"}
Numbered == klDone <= Cardinality(Busy)

\* A loop is launched with its channel, notices nothing before, and selects
\* on that channel or a later one.
LoopsOK ==
    \A l \in Chans :
        /\ l > klDone => at[l] = "none"
        /\ at[l] = "none" => polled[l] = {}
        /\ at[l] = "wait" => sel[l] \in l..klDone

\* What RecordingHasLoop needs of the channel in force, and two facts of types.
ChannelOK ==
    /\ klActive => klDone >= 1
    /\ klActive /\ klDone \notin closed => at[klDone] \notin {"none", "ended"}
    /\ klActive /\ klDone \in closed => \E c \in Calls : pc[c] = "finish"
    /\ \A c \in Calls : pc[c] \in {"close", "finish"} => klDone >= 1
    /\ \A c \in Calls : pc[c] \in {"forget", "snapshot"} => began[c] >= 1

\* With every start hooked, a channel that is open is that of a recording in
\* progress, and of the stops only the one that closed it gets to the end.
AllHooked == Started = 1..klDone

OnceOK ==
    /\ klDone >= 1 /\ klDone \notin closed => klActive
    /\ \A c \in Calls : pc[c] = "finish" => klActive /\ klDone \in closed
    /\ \A c, d \in Calls : pc[c] = "finish" /\ pc[d] = "finish" => c = d
    /\ \A c \in Calls : got[c] <= klDone
    /\ \A c \in Calls : got[c] # 0 /\ got[c] = klDone => ~klActive
    /\ \A c, d \in Calls : got[c] # 0 /\ got[c] = got[d] => c = d

IInv == /\ TypeOK /\ Numbered /\ LoopsOK /\ ChannelOK /\ RecordedSoFar
        /\ AllHooked => OnceOK

-----------------------------------------------------------------------------
(* Numbers of channels                                                     *)

LEMMA CountType == Cardinality(Calls) \in Nat /\ IsFiniteSet(Busy) /\ Cardinality(Busy) \in Nat
BY FiniteAssumption, FS_CardinalityType, FS_Subset DEF Busy

\* A call that begins leaves room for the channel it makes.
LEMMA Room ==
    ASSUME TypeOK, Numbered, NEW c \in Calls, pc[c] = "idle",
           pc'[c] # "idle", \A d \in Calls \ {c} : pc'[d] = pc[d]
    PROVE  klDone + 1 <= Cardinality(Calls) /\ klDone + 1 <= Cardinality(Busy')
<1>1. Busy' = Busy \cup {c} /\ c \notin Busy /\ Busy' \in SUBSET Calls
  BY DEF Busy, TypeOK
<1>2. Cardinality(Busy') = Cardinality(Busy) + 1
  BY <1>1, CountType, FS_AddElement
<1>3. Cardinality(Busy') <= Cardinality(Calls)
  BY <1>1, FiniteAssumption, FS_Subset
<1> QED
  BY <1>2, <1>3, CountType DEF Numbered, TypeOK

\* A call never becomes idle again.
LEMMA StaysNumbered ==
    ASSUME TypeOK, Numbered, klDone' = klDone,
           \A c \in Calls : pc[c] # "idle" => pc'[c] # "idle"
    PROVE  Numbered'
<1>1. Busy \in SUBSET Busy' /\ Busy' \in SUBSET Calls
  BY DEF Busy
<1>2. IsFiniteSet(Busy') /\ Cardinality(Busy') \in Nat
  BY <1>1, FiniteAssumption, FS_Subset, FS_CardinalityType
<1>3. Cardinality(Busy) <= Cardinality(Busy')
  BY <1>1, <1>2, FS_Subset
<1> QED
  BY <1>2, <1>3, CountType DEF Numbered, TypeOK

-----------------------------------------------------------------------------
(* Types                                                                   *)

USE DEF Chans

LEMMA TypeInit == Init => TypeOK
<1> SUFFICES ASSUME Init PROVE TypeOK
  OBVIOUS
<1>1. klActive \in BOOLEAN /\ klEvents \subseteq Inputs /\ made \subseteq Inputs /\ crashed \in BOOLEAN
  BY DEF Init
<1>2. klDone \in 0..Cardinality(Calls) /\ windowsAtRecordStart \subseteq Chans /\ closed \subseteq 1..klDone
  BY CountType DEF Init
<1>3. /\ pc \in [Calls -> {"idle", "forget", "snapshot", "sleep", "read", "drop",
                           "check", "close", "finish", "done"}]
      /\ began \in [Calls -> 0..Cardinality(Calls)] /\ got \in [Calls -> 0..Cardinality(Calls)]
      /\ snap \in [Calls -> SUBSET Chans]
  BY CountType DEF Init
<1>4. /\ at \in [Chans -> {"none", "new", "choose", "wait", "poll", "ended"}]
      /\ sel \in [Chans -> 0..Cardinality(Calls)]
  BY CountType DEF Init
<1>5. prev \in [Chans -> SUBSET Inputs] /\ todo \in [Chans -> SUBSET Inputs]
      /\ polled \in [Chans -> SUBSET Inputs]
  BY DEF Init
<1> QED
  BY <1>1, <1>2, <1>3, <1>4, <1>5 DEF TypeOK

LEMMA TypeStep ==
    ASSUME TypeOK, Numbered, ChannelOK, [Next]_vars
    PROVE  TypeOK' /\ Numbered'
<1> USE CountType, CallAssumption DEF call, kl, loop
<1>1. CASE UNCHANGED vars
  BY <1>1, StaysNumbered DEF TypeOK, vars
<1>2. CASE UserActs
  <2>1. TypeOK'
    BY <1>2 DEF UserActs, TypeOK
  <2> QED
    BY <1>2, <2>1, StaysNumbered DEF UserActs
<1>3. ASSUME NEW c \in Calls, AlreadyActive(c) PROVE TypeOK' /\ Numbered'
  <2>1. TypeOK'
    BY <1>3 DEF AlreadyActive, StartAnswers, GoOn, TypeOK
  <2>2. \A d \in Calls : pc[d] # "idle" => pc'[d] # "idle"
    BY <1>3 DEF AlreadyActive, StartAnswers, GoOn, TypeOK
  <2> QED
    BY <1>3, <2>1, <2>2, StaysNumbered DEF AlreadyActive
<1>4. ASSUME NEW c \in Calls, StartKeylogger(c) PROVE TypeOK' /\ Numbered'
  <2>1. pc[c] = "idle" /\ pc'[c] # "idle" /\ \A d \in Calls \ {c} : pc'[d] = pc[d]
    BY <1>4 DEF StartKeylogger, StartAnswers, GoOn, TypeOK
  <2>2. klDone + 1 <= Cardinality(Calls) /\ klDone + 1 <= Cardinality(Busy')
    BY <2>1, Room
  <2>3. TypeOK'
    BY <1>4, <2>2 DEF StartKeylogger, StartAnswers, GoOn, TypeOK
  <2> QED
    BY <1>4, <2>2, <2>3 DEF StartKeylogger, Numbered
<1>5. ASSUME NEW c \in Calls, HookRefused(c) PROVE TypeOK' /\ Numbered'
  <2>1. pc[c] = "idle" /\ pc'[c] # "idle" /\ \A d \in Calls \ {c} : pc'[d] = pc[d]
    BY <1>5 DEF HookRefused, StartAnswers, GoOn, TypeOK
  <2>2. klDone + 1 <= Cardinality(Calls) /\ klDone + 1 <= Cardinality(Busy')
    BY <2>1, Room
  <2>3. TypeOK'
    BY <1>5, <2>2 DEF HookRefused, StartAnswers, GoOn, TypeOK
  <2> QED
    BY <1>5, <2>2, <2>3 DEF HookRefused, Numbered
<1>6. ASSUME NEW c \in Calls, BeginStop(c) PROVE TypeOK' /\ Numbered'
  <2>1. TypeOK'
    BY <1>6 DEF BeginStop, GoOn, TypeOK
  <2>2. klDone' = klDone /\ \A d \in Calls : pc[d] # "idle" => pc'[d] # "idle"
    BY <1>6 DEF BeginStop, GoOn, TypeOK
  <2> QED
    BY <2>1, <2>2, StaysNumbered
<1>7. ASSUME NEW c \in Calls, Proceed(c) PROVE TypeOK' /\ Numbered'
  <2>1. TypeOK'
    <3>1. CASE ForgetWindows(c)
      BY <3>1 DEF ForgetWindows, GoOn, TypeOK
    <3>2. CASE SnapshotWindows(c)
      <4>1. began[c] \in Chans
        BY <3>2 DEF SnapshotWindows, GoOn, ChannelOK, TypeOK
      <4> QED
        BY <3>2, <4>1 DEF SnapshotWindows, AfterSnapshot, GoOn, TypeOK
    <3>3. CASE TimeUp(c)
      BY <3>3 DEF TimeUp, GoOn, TypeOK
    <3>4. CASE ReadWindows(c)
      BY <3>4 DEF ReadWindows, GoOn, TypeOK
    <3>5. CASE DropWindows(c)
      BY <3>5 DEF DropWindows, GoOn, TypeOK
    <3>6. CASE CheckActive(c)
      BY <3>6 DEF CheckActive, GoOn, TypeOK
    <3>7. CASE CloseDone(c)
      BY <3>7 DEF CloseDone, GoOn, TypeOK, ChannelOK
    <3>8. CASE ClosePanics(c)
      BY <3>8 DEF ClosePanics, GoOn, TypeOK
    <3>9. CASE FinishStop(c)
      BY <3>9 DEF FinishStop, GoOn, TypeOK
    <3> QED
      BY <1>7, <3>1, <3>2, <3>3, <3>4, <3>5, <3>6, <3>7, <3>8, <3>9 DEF Proceed
  <2>2. klDone' = klDone
    BY <1>7 DEF Proceed, ForgetWindows, SnapshotWindows, TimeUp, ReadWindows, DropWindows,
                CheckActive, CloseDone, ClosePanics, FinishStop
  <2>3. \A d \in Calls : pc[d] # "idle" => pc'[d] # "idle"
    BY <1>7 DEF Proceed, ForgetWindows, SnapshotWindows, AfterSnapshot, TimeUp, ReadWindows,
                DropWindows, CheckActive, CloseDone, ClosePanics, FinishStop, GoOn, TypeOK
  <2> QED
    BY <2>1, <2>2, <2>3, StaysNumbered
<1>8. ASSUME NEW l \in Chans, LoopProceeds(l) PROVE TypeOK' /\ Numbered'
  <2> USE DEF Move
  <2>1. TypeOK'
    <3>1. CASE BeginLoop(l)
      BY <3>1 DEF BeginLoop, LoopStep, TypeOK
    <3>2. CASE Select(l)
      BY <3>2 DEF Select, LoopStep, TypeOK
    <3>3. CASE Tick(l)
      BY <3>3 DEF Tick, LoopStep, TypeOK
    <3>4. CASE EndTick(l)
      BY <3>4 DEF EndTick, LoopStep, TypeOK
    <3>5. CASE SeeDone(l)
      BY <3>5 DEF SeeDone, LoopStep, TypeOK
    <3>6. ASSUME NEW i \in Inputs, Poll(l, i) PROVE TypeOK'
      BY <3>6 DEF Poll, klRecord, LoopStep, TypeOK
    <3> QED
      BY <1>8, <3>1, <3>2, <3>3, <3>4, <3>5, <3>6 DEF LoopProceeds
  <2>2. klDone' = klDone /\ pc' = pc
    BY <1>8 DEF LoopProceeds, BeginLoop, Select, Tick, EndTick, SeeDone, Poll, LoopStep
  <2> QED
    BY <2>1, <2>2, StaysNumbered
<1> QED
  BY <1>1, <1>2, <1>3, <1>4, <1>5, <1>6, <1>7, <1>8 DEF Next

-----------------------------------------------------------------------------
(* The invariant                                                           *)

LEMMA InvInit == Init => IInv
<1> SUFFICES ASSUME Init PROVE IInv
  OBVIOUS
<1>1. TypeOK
  BY TypeInit
<1>2. Numbered
  BY CountType DEF Init, Numbered
<1>3. LoopsOK /\ ChannelOK /\ RecordedSoFar /\ OnceOK
  BY DEF Init, LoopsOK, ChannelOK, RecordedSoFar, OnceOK
<1> QED
  BY <1>1, <1>2, <1>3 DEF IInv

LEMMA LoopsStep ==
    ASSUME TypeOK, TypeOK', LoopsOK, [Next]_vars
    PROVE  LoopsOK'
<1> USE CountType DEF call, kl, loop
<1>1. ASSUME NEW c \in Calls, StartKeylogger(c) PROVE LoopsOK'
  BY <1>1 DEF StartKeylogger, StartAnswers, TypeOK, LoopsOK
<1>2. ASSUME NEW c \in Calls, HookRefused(c) PROVE LoopsOK'
  BY <1>2 DEF HookRefused, StartAnswers, TypeOK, LoopsOK
<1>3. ASSUME NEW l \in Chans, LoopProceeds(l) PROVE LoopsOK'
  <2> USE DEF Move
  <2>1. CASE BeginLoop(l)
    BY <2>1 DEF BeginLoop, LoopStep, TypeOK, LoopsOK
  <2>2. CASE Select(l)
    BY <2>2 DEF Select, LoopStep, TypeOK, LoopsOK
  <2>3. CASE Tick(l)
    BY <2>3 DEF Tick, LoopStep, TypeOK, LoopsOK
  <2>4. CASE EndTick(l)
    BY <2>4 DEF EndTick, LoopStep, TypeOK, LoopsOK
  <2>5. CASE SeeDone(l)
    BY <2>5 DEF SeeDone, LoopStep, TypeOK, LoopsOK
  <2>6. ASSUME NEW i \in Inputs, Poll(l, i) PROVE LoopsOK'
    BY <2>6 DEF Poll, LoopStep, TypeOK, LoopsOK
  <2> QED
    BY <1>3, <2>1, <2>2, <2>3, <2>4, <2>5, <2>6 DEF LoopProceeds
<1>4. CASE UNCHANGED <<klDone, loop>>
  BY <1>4 DEF LoopsOK
<1> QED
  BY <1>1, <1>2, <1>3, <1>4
  DEF Next, vars, UserActs, AlreadyActive, StartAnswers, BeginStop, Proceed, ForgetWindows,
      SnapshotWindows, TimeUp, ReadWindows, DropWindows, CheckActive, CloseDone, ClosePanics,
      FinishStop

\* What a loop notices is recorded while a recording is in progress, and a
\* recording begins with a loop that has noticed nothing.
LEMMA RecordedStep ==
    ASSUME TypeOK, TypeOK', LoopsOK, RecordedSoFar, ChannelOK, [Next]_vars
    PROVE  RecordedSoFar'
<1> USE CountType DEF call, kl, loop
<1>1. ASSUME NEW c \in Calls, StartKeylogger(c) PROVE RecordedSoFar'
  BY <1>1 DEF StartKeylogger, StartAnswers, TypeOK, LoopsOK, RecordedSoFar
<1>2. ASSUME NEW c \in Calls, HookRefused(c) PROVE RecordedSoFar'
  BY <1>2 DEF HookRefused, RecordedSoFar
<1>3. ASSUME NEW c \in Calls, FinishStop(c) PROVE RecordedSoFar'
  BY <1>3 DEF FinishStop, RecordedSoFar
<1>4. ASSUME NEW l \in Chans, NEW i \in Inputs, Poll(l, i) PROVE RecordedSoFar'
  BY <1>4 DEF Poll, klRecord, LoopStep, TypeOK, RecordedSoFar, ChannelOK
<1>5. CASE UNCHANGED <<klActive, klDone, klEvents, polled>>
  BY <1>5 DEF RecordedSoFar
<1> QED
  BY <1>1, <1>2, <1>3, <1>4, <1>5
  DEF Next, vars, UserActs, AlreadyActive, StartAnswers, BeginStop, Proceed, ForgetWindows,
      SnapshotWindows, TimeUp, ReadWindows, DropWindows, CheckActive, CloseDone, ClosePanics,
      LoopProceeds, BeginLoop, Select, Tick, EndTick, SeeDone, LoopStep

\* The loop of the channel in force ends only when that channel is closed,
\* and the stop that closed it clears the flag before it is over.
LEMMA ChannelStep ==
    ASSUME TypeOK, TypeOK', LoopsOK, ChannelOK, [Next]_vars
    PROVE  ChannelOK'
<1> USE CountType DEF call, kl, loop
<1>1. ASSUME NEW c \in Calls, StartKeylogger(c) PROVE ChannelOK'
  BY <1>1 DEF StartKeylogger, StartAnswers, GoOn, TypeOK, ChannelOK
<1>2. ASSUME NEW c \in Calls, HookRefused(c) PROVE ChannelOK'
  BY <1>2 DEF HookRefused, StartAnswers, GoOn, TypeOK, ChannelOK
<1>3. ASSUME NEW c \in Calls, AlreadyActive(c) PROVE ChannelOK'
  BY <1>3 DEF AlreadyActive, StartAnswers, GoOn, TypeOK, ChannelOK
<1>4. ASSUME NEW c \in Calls, BeginStop(c) PROVE ChannelOK'
  BY <1>4 DEF BeginStop, GoOn, TypeOK, ChannelOK
<1>5. ASSUME NEW c \in Calls, Proceed(c) PROVE ChannelOK'
  <2> USE DEF GoOn, TypeOK, ChannelOK
  <2>1. CASE ForgetWindows(c)
    BY <2>1 DEF ForgetWindows
  <2>2. CASE SnapshotWindows(c)
    BY <2>2 DEF SnapshotWindows, AfterSnapshot
  <2>3. CASE TimeUp(c)
    BY <2>3 DEF TimeUp
  <2>4. CASE ReadWindows(c)
    BY <2>4 DEF ReadWindows
  <2>5. CASE DropWindows(c)
    BY <2>5 DEF DropWindows
  <2>6. CASE CheckActive(c)
    BY <2>6 DEF CheckActive
  <2>7. CASE CloseDone(c)
    BY <2>7 DEF CloseDone
  <2>8. CASE ClosePanics(c)
    BY <2>8 DEF ClosePanics
  <2>9. CASE FinishStop(c)
    BY <2>9 DEF FinishStop
  <2> QED
    BY <1>5, <2>1, <2>2, <2>3, <2>4, <2>5, <2>6, <2>7, <2>8, <2>9 DEF Proceed
<1>6. ASSUME NEW l \in Chans, LoopProceeds(l) PROVE ChannelOK'
  <2>1. \A k \in Chans : at'[k] \in {"none", "ended"} =>
            \/ at[k] \in {"none", "ended"}
            \/ at[k] = "wait" /\ sel[k] \in closed
    <3> USE DEF Move, TypeOK
    <3>1. CASE BeginLoop(l)
      BY <3>1 DEF BeginLoop
    <3>2. CASE Select(l)
      BY <3>2 DEF Select
    <3>3. CASE Tick(l)
      BY <3>3 DEF Tick
    <3>4. CASE EndTick(l)
      BY <3>4 DEF EndTick
    <3>5. CASE SeeDone(l)
      BY <3>5 DEF SeeDone
    <3>6. ASSUME NEW i \in Inputs, Poll(l, i) PROVE at' = at
      BY <3>6 DEF Poll
    <3> QED
      BY <1>6, <3>1, <3>2, <3>3, <3>4, <3>5, <3>6 DEF LoopProceeds
  <2>2. UNCHANGED <<klActive, klDone, closed, call>>
    BY <1>6 DEF LoopProceeds, BeginLoop, Select, Tick, EndTick, SeeDone, Poll, LoopStep
  <2>3. klActive => klDone \in Chans
    BY DEF ChannelOK, TypeOK
  <2>4. klActive /\ sel[klDone] \in closed /\ at[klDone] = "wait" => klDone \in closed
    BY <2>3 DEF LoopsOK, TypeOK
  <2> QED
    BY <2>1, <2>2, <2>3, <2>4 DEF ChannelOK
<1>7. CASE UNCHANGED <<klActive, klDone, closed, call, at>>
  BY <1>7 DEF ChannelOK
<1> QED
  BY <1>1, <1>2, <1>3, <1>4, <1>5, <1>6, <1>7 DEF Next, vars, UserActs

\* A channel without a loop tells that a start was refused.
LEMMA RefusedShows ==
    ASSUME TypeOK, TypeOK', LoopsOK, NEW c \in Calls, HookRefused(c)
    PROVE  ~AllHooked'
<1>1. klDone + 1 \in Chans /\ klDone + 1 > klDone
  BY CountType DEF HookRefused, TypeOK
<1>2. at'[klDone + 1] = "none" /\ klDone + 1 \in 1..klDone'
  BY <1>1 DEF HookRefused, LoopsOK
<1> QED
  BY <1>2 DEF AllHooked, Started

\* A start that is refused stays refused.
LEMMA HookedBefore ==
    ASSUME TypeOK, TypeOK', LoopsOK, ChannelOK, [Next]_vars, AllHooked'
    PROVE  AllHooked
<1> USE CountType DEF call, kl, loop, AllHooked, Started
<1>1. ASSUME NEW c \in Calls, StartKeylogger(c) PROVE AllHooked
  BY <1>1 DEF StartKeylogger, TypeOK
<1>2. ASSUME NEW c \in Calls, HookRefused(c) PROVE FALSE
  BY <1>2, RefusedShows
<1>3. ASSUME NEW l \in Chans, LoopProceeds(l) PROVE AllHooked
  <2>1. klDone' = klDone /\ \A k \in Chans : at'[k] # "none" => at[k] # "none"
    BY <1>3 DEF LoopProceeds, BeginLoop, Select, Tick, EndTick, SeeDone, Poll, Move, LoopStep, TypeOK
  <2> QED
    BY <2>1 DEF TypeOK
<1>4. CASE UNCHANGED <<klDone, at>>
  BY <1>4
<1> QED
  BY <1>1, <1>2, <1>3, <1>4
  DEF Next, vars, UserActs, AlreadyActive, StartAnswers, BeginStop, Proceed, ForgetWindows,
      SnapshotWindows, TimeUp, ReadWindows, DropWindows, CheckActive, CloseDone, ClosePanics,
      FinishStop

LEMMA OnceStep ==
    ASSUME TypeOK, TypeOK', LoopsOK, ChannelOK, AllHooked', OnceOK, [Next]_vars
    PROVE  OnceOK'
<1> USE CountType DEF call, kl, loop
<1>1. ASSUME NEW c \in Calls, StartKeylogger(c) PROVE OnceOK'
  BY <1>1 DEF StartKeylogger, StartAnswers, GoOn, TypeOK, OnceOK
<1>2. ASSUME NEW c \in Calls, HookRefused(c) PROVE OnceOK'
  BY <1>2, RefusedShows
<1>3. ASSUME NEW c \in Calls, AlreadyActive(c) PROVE OnceOK'
  BY <1>3 DEF AlreadyActive, StartAnswers, GoOn, TypeOK, OnceOK
<1>4. ASSUME NEW c \in Calls, BeginStop(c) PROVE OnceOK'
  BY <1>4 DEF BeginStop, GoOn, TypeOK, OnceOK
<1>5. ASSUME NEW c \in Calls, CloseDone(c) PROVE OnceOK'
  BY <1>5 DEF CloseDone, GoOn, TypeOK, ChannelOK, OnceOK
<1>6. ASSUME NEW c \in Calls, FinishStop(c) PROVE OnceOK'
  BY <1>6 DEF FinishStop, GoOn, TypeOK, OnceOK
<1>7. ASSUME NEW c \in Calls, Proceed(c), UNCHANGED <<kl, got>> PROVE OnceOK'
  <2>1. \A d \in Calls : pc'[d] = "finish" => pc[d] = "finish"
    BY <1>7 DEF Proceed, ForgetWindows, SnapshotWindows, AfterSnapshot, TimeUp, ReadWindows,
                DropWindows, CheckActive, CloseDone, ClosePanics, FinishStop, GoOn, TypeOK
  <2> QED
    BY <1>7, <2>1 DEF OnceOK
<1>8. CASE UNCHANGED <<klActive, klDone, closed, call>>
  BY <1>8 DEF OnceOK
<1> QED
  BY <1>1, <1>2, <1>3, <1>4, <1>5, <1>6, <1>7, <1>8
  DEF Next, vars, UserActs, Proceed, ForgetWindows, SnapshotWindows, TimeUp, ReadWindows,
      DropWindows, CheckActive, ClosePanics, LoopProceeds, BeginLoop, Select, Tick, EndTick,
      SeeDone, Poll, LoopStep

-----------------------------------------------------------------------------
THEOREM Invariance == Spec => []IInv
<1>1. IInv /\ [Next]_vars => IInv'
  <2> SUFFICES ASSUME IInv, [Next]_vars PROVE IInv'
    OBVIOUS
  <2> USE DEF IInv
  <2>1. TypeOK' /\ Numbered'
    BY TypeStep
  <2>2. LoopsOK' /\ ChannelOK' /\ RecordedSoFar'
    BY <2>1, LoopsStep, ChannelStep, RecordedStep
  <2>3. ASSUME AllHooked' PROVE OnceOK'
    BY <2>1, <2>3, HookedBefore, OnceStep
  <2> QED
    BY <2>1, <2>2, <2>3
<1> QED
  BY <1>1, InvInit, PTL DEF Spec

(* Every variable of the recorder keeps its type, however many calls       *)
(* there are; in particular no channel is closed before there is one.      *)
THEOREM TypeCorrect == Spec => []TypeOK
BY Invariance, PTL DEF IInv

(* A recording in progress has a loop that polls for it, or a stop about   *)
(* to end it.                                                              *)
THEOREM LoopPresent == Spec => []RecordingHasLoop
<1>1. IInv => RecordingHasLoop
  BY DEF IInv, ChannelOK, RecordingHasLoop
<1> QED
  BY <1>1, Invariance, PTL

(* Nothing a recording's loop notices is lost before a stop takes it.      *)
THEOREM NothingLost == Spec => []RecordedSoFar
BY Invariance, PTL DEF IInv

(* An active recording has its loop, and all that was noticed.             *)
THEOREM ActiveRecordsHolds == Spec => []ActiveRecords
BY LoopPresent, NothingLost, PTL DEF ActiveRecords

(* With no start refused, at most one stop returns a recording.            *)
THEOREM ReturnedOnce == Spec => []SessionReturnedOnce
<1>1. IInv => SessionReturnedOnce
  BY DEF IInv, AllHooked, OnceOK, SessionReturnedOnce
<1> QED
  BY <1>1, Invariance, PTL
=============================================================================
