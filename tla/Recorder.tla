------------------------------ MODULE Recorder ------------------------------
(***************************************************************************)
(* Recording the user's input: internal/actions/keylogger.go and Record,   *)
(* RecordStop of record_replicate.go.  Calls run concurrently; each call   *)
(* of StartKeylogger that gets a hook launches a polling loop.  klMu       *)
(* protects the flag and the events; the loops read klDone, and the stops  *)
(* close it, outside the lock, and the window snapshot has no lock at all. *)
(*                                                                         *)
(* Done channels are numbered in the order of making, 0 is nil.  The       *)
(* recording a channel was made for and the loop launched with it bear its *)
(* number.  An input is a change of a key, a button or the window in front *)
(* that a poll finds by comparing with the one before.                     *)
(***************************************************************************)
EXTENDS Naturals, FiniteSets

CONSTANTS Calls,     \* the tool calls that happen (bounds their number)
          Inputs,    \* what the user may do (bounds the events)
          Op,        \* what each call is
          Unguarded  \* calls made by a chain's worker, which recovers no panic

Ops == {"keylogger_start", "keylogger_stop", "record", "timed_record", "record_stop"}
Recording == {"record", "timed_record"}
Starting == {"keylogger_start"} \cup Recording

ASSUME CallAssumption == Op \in [Calls -> Ops] /\ Unguarded \subseteq Calls
ASSUME FiniteAssumption == IsFiniteSet(Calls)

Chans == 1..Cardinality(Calls)

VARIABLES klActive, klEvents, klDone,   \* the package variables
          windowsAtRecordStart,         \* recordings whose windows it holds
          made,                         \* what the user has done
          closed,                       \* done channels that are closed
          pc, began, snap, got,         \* a call: how far it is, the recording it
                                        \* began, the windows and recording it returns
          at, sel, prev, todo,          \* a loop: how far it is, the channel it selects
                                        \* on, the state it compares with, what it found
          polled,                       \* history: the inputs a loop has passed to klRecord
          crashed                       \* a panic nobody recovers: the process is gone

kl == <<klActive, klEvents, klDone, closed>>
call == <<pc, began, snap, got>>
loop == <<at, sel, prev, todo, polled>>
vars == <<klActive, klEvents, klDone, windowsAtRecordStart, made, closed,
          pc, began, snap, got, at, sel, prev, todo, polled, crashed>>

TypeOK ==
    /\ klActive \in BOOLEAN
    /\ klEvents \subseteq Inputs
    /\ klDone \in 0..Cardinality(Calls)
    /\ windowsAtRecordStart \subseteq Chans
    /\ made \subseteq Inputs
    /\ closed \subseteq 1..klDone
    /\ pc \in [Calls -> {"idle", "forget", "snapshot", "sleep", "read", "drop",
                         "check", "close", "finish", "done"}]
    /\ began \in [Calls -> 0..Cardinality(Calls)]
    /\ snap \in [Calls -> SUBSET Chans]
    /\ got \in [Calls -> 0..Cardinality(Calls)]
    /\ at \in [Chans -> {"none", "new", "choose", "wait", "poll", "ended"}]
    /\ sel \in [Chans -> 0..Cardinality(Calls)]
    /\ prev \in [Chans -> SUBSET Inputs]
    /\ todo \in [Chans -> SUBSET Inputs]
    /\ polled \in [Chans -> SUBSET Inputs]
    /\ crashed \in BOOLEAN

Init ==
    /\ klActive = FALSE /\ klEvents = {} /\ klDone = 0
    /\ windowsAtRecordStart = {}
    /\ made = {} /\ closed = {}
    /\ pc = [c \in Calls |-> "idle"]
    /\ began = [c \in Calls |-> 0]
    /\ snap = [c \in Calls |-> {}]
    /\ got = [c \in Calls |-> 0]
    /\ at = [l \in Chans |-> "none"]
    /\ sel = [l \in Chans |-> 0]
    /\ prev = [l \in Chans |-> {}]
    /\ todo = [l \in Chans |-> {}]
    /\ polled = [l \in Chans |-> {}]
    /\ crashed = FALSE

-----------------------------------------------------------------------------
(* StartKeylogger, one critical section, and what Record does after it.    *)

GoOn(c, from, to) ==
    /\ ~crashed /\ pc[c] = from
    /\ pc' = [pc EXCEPT ![c] = to]

StartAnswers(c, to) ==
    /\ Op[c] \in Starting /\ GoOn(c, "idle", to)
    /\ UNCHANGED <<made, closed, windowsAtRecordStart, snap, got, sel, prev, todo,
                   polled, crashed>>

AlreadyActive(c) ==
    /\ StartAnswers(c, "done") /\ klActive
    /\ UNCHANGED <<klActive, klEvents, klDone, began, at>>

\* Mutant: the done channel is made once.
StartWithOldChannel(c) ==
    /\ StartAnswers(c, IF Op[c] \in Recording THEN "forget" ELSE "done") /\ ~klActive
    /\ klActive' = TRUE
    /\ klEvents' = {}
    /\ klDone' = IF klDone = 0 THEN 1 ELSE klDone
    /\ at' = [at EXCEPT ![klDone'] = "new"]
    /\ began' = [began EXCEPT ![c] = klDone']

\* A channel is made before the hook is asked for.
StartKeylogger(c) ==
    /\ StartAnswers(c, IF Op[c] \in Recording THEN "forget" ELSE "done") /\ ~klActive
    /\ klActive' = TRUE
    /\ klEvents' = {}
    /\ klDone' = klDone + 1
    /\ at' = [at EXCEPT ![klDone'] = "new"]
    /\ began' = [began EXCEPT ![c] = klDone']

\* Mutant: a refused start leaves no channel.
HookRefusedUndone(c) ==
    /\ StartAnswers(c, "done") /\ ~klActive
    /\ klEvents' = {}
    /\ klDone' = 0
    /\ UNCHANGED <<klActive, began, at>>

HookRefused(c) ==
    /\ StartAnswers(c, "done") /\ ~klActive
    /\ klEvents' = {}
    /\ klDone' = klDone + 1
    /\ UNCHANGED <<klActive, began, at>>

ForgetWindows(c) ==
    /\ GoOn(c, "forget", "snapshot")
    /\ windowsAtRecordStart' = {}
    /\ UNCHANGED <<kl, made, began, snap, got, loop, crashed>>

\* Mutant: no goroutine stops the recording.
NoTimer(c) == "done"

\* The windows are appended to whatever is there by then.
AfterSnapshot(c) == IF Op[c] = "timed_record" THEN "sleep" ELSE "done"

SnapshotWindows(c) ==
    /\ GoOn(c, "snapshot", AfterSnapshot(c))
    /\ windowsAtRecordStart' = windowsAtRecordStart \cup {began[c]}
    /\ UNCHANGED <<kl, made, began, snap, got, loop, crashed>>

\* The goroutine of a timed recording goes on as its timer.
TimeUp(c) ==
    /\ GoOn(c, "sleep", "read")
    /\ UNCHANGED <<kl, windowsAtRecordStart, made, began, snap, got, loop, crashed>>

-----------------------------------------------------------------------------
(* StopKeylogger; RecordStop takes the windows first.                      *)

BeginStop(c) ==
    /\ GoOn(c, "idle", IF Op[c] = "record_stop" THEN "read" ELSE "check") /\ Op[c] \notin Starting
    /\ UNCHANGED <<kl, windowsAtRecordStart, made, began, snap, got, loop, crashed>>

ReadWindows(c) ==
    /\ GoOn(c, "read", "drop")
    /\ snap' = [snap EXCEPT ![c] = windowsAtRecordStart]
    /\ UNCHANGED <<kl, windowsAtRecordStart, made, began, got, loop, crashed>>

DropWindows(c) ==
    /\ GoOn(c, "drop", "check")
    /\ windowsAtRecordStart' = {}
    /\ UNCHANGED <<kl, made, began, snap, got, loop, crashed>>

CheckActive(c) ==
    /\ GoOn(c, "check", IF klActive THEN "close" ELSE "done")
    /\ UNCHANGED <<kl, windowsAtRecordStart, made, began, snap, got, loop, crashed>>

CloseDone(c) ==
    /\ GoOn(c, "close", "finish") /\ klDone \notin closed
    /\ closed' = closed \cup {klDone}
    /\ UNCHANGED <<klActive, klEvents, klDone, windowsAtRecordStart, made, began,
                   snap, got, loop, crashed>>

\* Mutant: closing twice does no harm.
CloseAgain(c) ==
    /\ GoOn(c, "close", "finish") /\ klDone \in closed
    /\ UNCHANGED <<kl, windowsAtRecordStart, made, began, snap, got, loop, crashed>>

\* The server's handlers recover; the timer and a chain's worker do not.
ClosePanics(c) ==
    /\ GoOn(c, "close", "done") /\ klDone \in closed
    /\ crashed' = (Op[c] = "timed_record" \/ c \in Unguarded)
    /\ UNCHANGED <<kl, windowsAtRecordStart, made, began, snap, got, loop>>

FinishStop(c) ==
    /\ GoOn(c, "finish", "done")
    /\ klActive' = FALSE
    /\ got' = [got EXCEPT ![c] = klDone]
    /\ UNCHANGED <<klEvents, klDone, closed, windowsAtRecordStart, made, began,
                   snap, loop, crashed>>

Proceed(c) == \/ ForgetWindows(c) \/ SnapshotWindows(c) \/ TimeUp(c)
              \/ ReadWindows(c) \/ DropWindows(c) \/ CheckActive(c)
              \/ CloseDone(c) \/ ClosePanics(c) \/ FinishStop(c)

-----------------------------------------------------------------------------
(* pollLoop.                                                               *)

LoopStep ==
    /\ ~crashed
    /\ UNCHANGED <<klActive, klDone, closed, windowsAtRecordStart, made, call, crashed>>

Move(l, from, to) ==
    /\ at[l] = from
    /\ at' = [at EXCEPT ![l] = to]

\* The state to compare with is the one the loop finds when it first runs.
BeginLoop(l) ==
    /\ Move(l, "new", "choose")
    /\ prev' = [prev EXCEPT ![l] = made]
    /\ UNCHANGED <<klEvents, sel, todo, polled>> /\ LoopStep

\* Each select reads klDone anew, which may be a later recording's by then.
Select(l) ==
    /\ Move(l, "choose", "wait")
    /\ sel' = [sel EXCEPT ![l] = klDone]
    /\ UNCHANGED <<klEvents, prev, todo, polled>> /\ LoopStep

\* A tick with nothing new changes something only if klDone is another by now.
Tick(l) ==
    /\ Move(l, "wait", "poll")
    /\ made \ prev[l] # {} \/ sel[l] # klDone
    /\ todo' = [todo EXCEPT ![l] = made \ prev[l]]
    /\ UNCHANGED <<klEvents, sel, prev, polled>> /\ LoopStep

\* Mutant: nothing is recorded once the stop has closed the channel.
RecordWhileOpen(l, i) ==
    IF klActive /\ sel[l] \notin closed THEN klEvents \cup {i} ELSE klEvents

\* What klRecord makes of the events when it is given input i.
klRecord(l, i) == IF klActive THEN klEvents \cup {i} ELSE klEvents

Poll(l, i) ==
    /\ at[l] = "poll" /\ i \in todo[l]
    /\ klEvents' = klRecord(l, i)
    /\ prev' = [prev EXCEPT ![l] = @ \cup {i}]
    /\ todo' = [todo EXCEPT ![l] = @ \ {i}]
    /\ polled' = [polled EXCEPT ![l] = @ \cup {i}]
    /\ UNCHANGED <<at, sel>> /\ LoopStep

EndTick(l) ==
    /\ Move(l, "poll", "choose") /\ todo[l] = {}
    /\ UNCHANGED <<klEvents, sel, prev, todo, polled>> /\ LoopStep

\* Mutant: a break leaves the select instead of the loop.
SeeDoneBreaks(l) ==
    /\ Move(l, "wait", "choose") /\ sel[l] \in closed
    /\ UNCHANGED <<klEvents, sel, prev, todo, polled>> /\ LoopStep

SeeDone(l) ==
    /\ Move(l, "wait", "ended") /\ sel[l] \in closed
    /\ UNCHANGED <<klEvents, sel, prev, todo, polled>> /\ LoopStep

LoopProceeds(l) == \/ BeginLoop(l) \/ Select(l) \/ Tick(l) \/ EndTick(l) \/ SeeDone(l)
                   \/ \E i \in Inputs : Poll(l, i)

-----------------------------------------------------------------------------
UserActs ==
    /\ ~crashed
    /\ \E i \in Inputs \ made : made' = made \cup {i}
    /\ UNCHANGED <<kl, windowsAtRecordStart, call, loop, crashed>>

Next ==
    \/ UserActs
    \/ \E c \in Calls : \/ AlreadyActive(c) \/ StartKeylogger(c) \/ HookRefused(c)
                        \/ BeginStop(c) \/ Proceed(c)
    \/ \E l \in Chans : LoopProceeds(l)

Spec == Init /\ [][Next]_vars

\* Calls that have begun go on, sleeps end, loops are scheduled.  Each of them
\* takes finitely many steps, so that this asks no more than fairness to each.
Proceeding == (\E c \in Calls : Proceed(c)) \/ (\E l \in Chans : LoopProceeds(l))

Fairness == WF_vars(Proceeding)

FairSpec == Spec /\ Fairness

-----------------------------------------------------------------------------
Started == {l \in 1..klDone : at[l] # "none"}   \* those that got their hook

(* A recording in progress has a loop that polls for it, unless a stop     *)
(* that closed its channel is about to end it: keylogger_status is never   *)
(* "active" with nobody there to record.                                   *)
RecordingHasLoop ==
    klActive => \/ klDone \notin closed /\ at[klDone] \notin {"none", "ended"}
                \/ \E c \in Calls : pc[c] = "finish"

(* Whatever the loop of a recording in progress has noticed is among its   *)
(* events, also between the closing of its channel and the section of      *)
(* StopKeylogger that takes the events: a stop loses nothing.              *)
RecordedSoFar == klActive => polled[klDone] \subseteq klEvents

(* While a recording is active there is a loop to record it, and none of   *)
(* what it noticed is lost (StartKeylogger, pollLoop, StopKeylogger).      *)
ActiveRecords == RecordingHasLoop /\ RecordedSoFar

(* However many stops run at a time, a recording is returned by one of     *)
(* them only, as long as no start was refused its hook: the second one's   *)
(* close panics, or it finds the next recording.                           *)
SessionReturnedOnce ==
    Started = 1..klDone =>
        \A c, d \in Calls : got[c] # 0 /\ got[c] = got[d] => c = d

(* Once the last channel is closed for good, every loop ends, also one     *)
(* that missed the closing of the channel it was launched with and went on *)
(* under a later one.                                                      *)
LoopsEnd ==
    <>[](klDone \in closed) =>
        <>[](crashed \/ \A l \in Chans : at[l] \in {"none", "ended"})

(* A recording with a duration ends without anybody's doing: nobody has to *)
(* call record_stop.                                                       *)
TimedRecordingEnds ==
    \A c \in {d \in Calls : Op[d] = "timed_record"} :
        pc[c] = "forget" ~> (crashed \/ ~(klActive /\ klDone = began[c]))

(* No recording and no loop goes on for ever: both of the above.           *)
RecordingsEnd == LoopsEnd /\ TimedRecordingEnds

-----------------------------------------------------------------------------
(* docs/meta/CHANGELOG.md:276 says record "auto-stops after that duration  *)
(* [duration_secs]": the timer of a timed recording ends no other one.     *)
(* It may, when the recording it was set for was stopped by hand.          *)
TimerEndsOwn == \A c \in Calls : got[c] # 0 /\ Op[c] = "timed_record" => got[c] = began[c]
=============================================================================
