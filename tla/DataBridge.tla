----------------------------- MODULE DataBridge -----------------------------
(* The bridge of datalog.go between what was read on the screen and what was  *)
(* done: each action tool ends in LogToolCall, which looks for a text read    *)
(* before, leaves a pending pair, and reads the screen again; each OCR tool   *)
(* (ocr.go) pushes its text and completes the pending pair.  The tools run    *)
(* concurrently; pairMu and dlogMu are held for one step at a time.  A text   *)
(* is told apart by what had been done on the desktop when it was captured.   *)
EXTENDS Integers, Sequences, FiniteSets

CONSTANTS Agents,        \* concurrent callers of tools
          MaxLogged,     \* bound on tool calls
          MaxRecent,     \* length of the ring of texts (maxRecentOCR)
          Window,        \* how old a text or a pending pair may be (bridgeWindow)
          MaxClock

ASSUME BridgeBounds ==
  {MaxLogged, Window, MaxClock} \subseteq Nat /\ MaxRecent \in Nat \ {0}

VARIABLES
  done,           \* actions performed on the desktop so far
  agent,          \* caller -> how far its tool is
  recentOCR,      \* the ring, newest last
  pendingCmd,     \* the single pending pair, as a set of at most one
  pairs,          \* the rows of training_pairs
  logged,         \* tool calls so far
  database,       \* dlogDB: not opened yet, opened, or lost: dlogOnce is used up
  nilUsed,        \* a statement was run on the database that is not there
  clock,
  crossed         \* two tools have run at once

bridgeVars == <<done, agent, recentOCR, pendingCmd, pairs, logged, database, nilUsed, clock, crossed>>
dbVars == <<database, nilUsed>>

Text(upTo) == [upTo |-> upTo, at |-> clock]
NoText == [upTo |-> -1, at |-> 0]
Free == [at |-> "idle", act |-> 0, id |-> 0, again |-> FALSE, before |-> NoText, after |-> NoText, took |-> {}]
GoTo(a, s) == agent' = [agent EXCEPT ![a].at = s]
OnTheWay(a) == agent[a].at # "idle"

-----------------------------------------------------------------------------
(* A tool acts on the desktop (0: an OCR tool, which does not).  A chained    *)
(* tool is logged a second time by the chain, without acting again.           *)
Begin(a, what) ==
  /\ agent[a].at = "idle" /\ logged < MaxLogged
  /\ logged' = logged + 1
  /\ done' = IF what = "act" THEN done + 1 ELSE done
  /\ what = "again" => done > 0
  /\ agent' = [agent EXCEPT ![a] =
       [at |-> IF what = "ocr" THEN "capture" ELSE "find", act |-> done', id |-> logged', again |-> (what = "again"),
        before |-> NoText, after |-> NoText, took |-> {}]]
  /\ crossed' = (crossed \/ \E b \in Agents \ {a} : OnTheWay(b))
  /\ UNCHANGED <<recentOCR, pendingCmd, pairs, dbVars, clock>>

(* findRecentOCRBefore: the newest text that is not too old, if it holds any  *)
(* word.                                                                      *)
LastRecent == {i \in DOMAIN recentOCR :
  /\ clock - recentOCR[i].at <= Window
  /\ \A j \in (i + 1)..Len(recentOCR) : clock - recentOCR[j].at > Window}
FindBefore(a) ==
  /\ agent[a].at = "find"
  /\ \/ \E i \in LastRecent :
          agent' = [agent EXCEPT ![a].at = "pend", ![a].before = recentOCR[i]]
     \/ GoTo(a, "capture")
  /\ UNCHANGED <<done, recentOCR, pendingCmd, pairs, logged, dbVars, clock, crossed>>

(* The single slot: what was pending is given up.                             *)
SetPending(a) ==
  /\ agent[a].at = "pend"
  /\ pendingCmd' = {[id |-> agent[a].id, act |-> agent[a].act, again |-> agent[a].again,
                    before |-> agent[a].before, at |-> clock]}
  /\ GoTo(a, "capture")
  /\ UNCHANGED <<done, recentOCR, pairs, logged, dbVars, clock, crossed>>

(* OCRScreen: the capture, and after a while the text; either may fail.       *)
Capture(a) ==
  /\ agent[a].at = "capture"
  /\ \/ agent' = [agent EXCEPT ![a].at = "push", ![a].after = Text(done)]
     \/ agent' = [agent EXCEPT ![a] = Free]
  /\ UNCHANGED <<done, recentOCR, pendingCmd, pairs, logged, dbVars, clock, crossed>>

(* pushRecentOCR stamps the text with the time of the push.                   *)
CutOldest(s) == IF Len(s) > MaxRecent THEN SubSeq(s, Len(s) - MaxRecent + 1, Len(s)) ELSE s
PushRecentOCR(a) ==
  /\ agent[a].at = "push"
  /\ recentOCR' = CutOldest(Append(recentOCR, Text(agent[a].after.upTo)))
  /\ GoTo(a, "take")
  /\ UNCHANGED <<done, pendingCmd, pairs, logged, dbVars, clock, crossed>>

(* tryCompletePair takes the pending pair whatever its age...                 *)
\* Mutant: the pending pair stays when it is taken.
TakePendingKept(a) ==
  /\ agent[a].at = "take"
  /\ agent' = IF pendingCmd = {} THEN [agent EXCEPT ![a] = Free]
               ELSE [agent EXCEPT ![a].at = "insert", ![a].took = pendingCmd]
  /\ UNCHANGED <<done, recentOCR, pendingCmd, pairs, logged, dbVars, clock, crossed>>
TakePending(a) ==
  /\ agent[a].at = "take"
  /\ agent' = IF pendingCmd = {} THEN [agent EXCEPT ![a] = Free]
               ELSE [agent EXCEPT ![a].at = "insert", ![a].took = pendingCmd]
  /\ pendingCmd' = {}
  /\ UNCHANGED <<done, recentOCR, pairs, logged, dbVars, clock, crossed>>

(* ...and logs it unless it is too old.  The first use of the database opens  *)
(* it; when that fails, the next one finds dlogOnce used up, no error, and no *)
(* database, and panics, which ends the tool (or the process, when it is the  *)
(* goroutine of LogCommand).                                                  *)
OpenOrUse(ok) ==
  \/ database = "closed" /\ database' = (IF ok THEN "open" ELSE "lost") /\ UNCHANGED nilUsed
  \/ database = "open" /\ ok /\ UNCHANGED dbVars
  \/ database = "lost" /\ ~ok /\ nilUsed' = TRUE /\ UNCHANGED database
LogTrainingPair(a) ==
  /\ agent[a].at = "insert"
  /\ \E p \in agent[a].took, ok \in BOOLEAN :
       IF clock - p.at <= Window
       THEN /\ OpenOrUse(ok)
            /\ pairs' = IF ok THEN Append(pairs, [id |-> p.id, act |-> p.act, again |-> p.again, before |-> p.before,
                                                  after |-> agent[a].after, span |-> clock - p.at])
                        ELSE pairs
       ELSE UNCHANGED <<pairs, dbVars>>
  /\ agent' = [agent EXCEPT ![a] = Free]
  /\ UNCHANGED <<done, recentOCR, pendingCmd, logged, clock, crossed>>

(* reset_state                                                                *)
ResetBridgeState ==
  /\ recentOCR # <<>> \/ pendingCmd # {}
  /\ recentOCR' = <<>> /\ pendingCmd' = {}
  /\ UNCHANGED <<done, agent, pairs, logged, dbVars, clock, crossed>>

ClockTicks ==
  /\ clock < MaxClock
  /\ clock' = clock + 1
  /\ UNCHANGED <<done, agent, recentOCR, pendingCmd, pairs, logged, dbVars, crossed>>

BridgeInit ==
  /\ done = 0 /\ logged = 0 /\ clock = 0
  /\ agent = [a \in Agents |-> Free]
  /\ recentOCR = <<>> /\ pendingCmd = {} /\ pairs = <<>>
  /\ database = "closed" /\ nilUsed = FALSE /\ crossed = FALSE

AgentStep(a) ==
  \/ FindBefore(a) \/ SetPending(a) \/ Capture(a) \/ PushRecentOCR(a) \/ TakePending(a)
  \/ LogTrainingPair(a)
BridgeNext ==
  \/ \E a \in Agents : AgentStep(a) \/ \E what \in {"act", "again", "ocr"} : Begin(a, what)
  \/ ResetBridgeState \/ ClockTicks
BridgeSpec == BridgeInit /\ [][BridgeNext]_bridgeVars

-----------------------------------------------------------------------------
Pending == [id : 1..MaxLogged, act : 0..MaxLogged, again : BOOLEAN, before : [upTo : 0..MaxLogged, at : 0..MaxClock],
            at : 0..MaxClock]
BridgeTypeOK ==
  /\ done \in 0..MaxLogged /\ logged \in 0..MaxLogged /\ clock \in 0..MaxClock
  /\ Len(recentOCR) <= MaxRecent /\ Cardinality(pendingCmd) <= 1 /\ pendingCmd \subseteq Pending
  /\ \A a \in Agents : /\ agent[a].took \subseteq Pending
                       /\ agent[a].at \in {"idle", "find", "pend", "capture", "push", "take", "insert"}
  /\ database \in {"closed", "open", "lost"} /\ nilUsed \in BOOLEAN /\ crossed \in BOOLEAN

(* A logged call is in one training pair at most, whatever reads the screen   *)
(* meanwhile; its pair was completed within the window; and as long as tools  *)
(* run one after another, the text before it is from before its action and    *)
(* the text after it from after.                                              *)
(* (With two tools at once the text "after" may have been captured before the *)
(* action, and the text "before" after it; the second pair of a chained tool  *)
(* always has the text its first logging captured as the one "before".)       *)
PairsAround ==
  /\ \A i, j \in DOMAIN pairs : pairs[i].id = pairs[j].id => i = j
  /\ \A i \in DOMAIN pairs :
       LET p == pairs[i] IN
       /\ p.span <= Window
       /\ ~crossed /\ ~p.again => p.before.upTo < p.act /\ p.act <= p.after.upTo
=============================================================================
