------------------------------ MODULE MLLedger ------------------------------
(***************************************************************************)
(* The outcome ledger of internal/actions/ml_ledger.go: each prediction of *)
(* where to click is a row that starts out pending and is judged by the    *)
(* clicks that follow.  Click (mouse.go) resolves the ledger when it is    *)
(* over; clicks run in goroutines of their own.  A resolution locks dlogMu *)
(* once to expire old rows, once to read the pending ones, once for each   *)
(* row it judges and once to recover misses, and lets go in between.  The  *)
(* rows are in a database file and outlive the process, the resolutions    *)
(* do not.                                                                 *)
(*                                                                         *)
(* The screen is a line of places, 0 stands for "no coordinates"; the tool *)
(* of a resolution is always click and no window title is ever given, as   *)
(* in the calls of the repository.                                         *)
(***************************************************************************)
EXTENDS Integers, FiniteSets

CONSTANTS Preds,          \* the rows (bounds their number)
          Clicks,         \* the calls of Click (bounds their number)
          Predictions,    \* what an engine may predict: a tool and a place
          Targets,        \* where a click may go
          OnScreen,       \* places that lie on the screen
          ClickFamily,    \* tools whose prediction a click can confirm
          Radius,         \* hitRadius, the same as long as the screen is
          RecoverWindow, PendingWindow, UnknownAfter,
          MaxTime,        \* bounds the clock
          NoClick

Prediction == [engine : STRING, tool : STRING, place : Nat]

ASSUME PlaceAssumption ==
    /\ Predictions \subseteq Prediction /\ Predictions # {}
    /\ Targets \subseteq Nat /\ Radius \in Nat
ASSUME TimeAssumption ==
    /\ {RecoverWindow, PendingWindow, UnknownAfter, MaxTime} \subseteq Nat
    /\ RecoverWindow <= PendingWindow /\ PendingWindow <= UnknownAfter
ASSUME ClickAssumption == "click" \in ClickFamily /\ NoClick \notin Clicks

VARIABLES now,
          status, pred, born,  \* the row: its outcome, what was predicted, when
          by,                  \* the click whose coordinates the row holds
          everMiss,            \* history: rows that have been a miss
          pc, at,              \* a click: how far it is, where it went
          asOf,                \* the time its resolution reckons with
          targets, todo,       \* rows it decided to judge, and has yet to judge
          taught               \* rows on whose account it taught the adaptive engine

row == <<status, pred, born, by, everMiss>>
click == <<pc, at, asOf, targets, todo, taught>>
vars == <<now, status, pred, born, by, everMiss, pc, at, asOf, targets, todo, taught>>

Abs(n) == IF n < 0 THEN -n ELSE n
Dist(p, c) == Abs(pred[p].place - at[c])
HasXY(p) == pred[p].place # 0
Near(p, c, r) == HasXY(p) /\ Dist(p, c) <= r

\* Click fails only when its coordinates are off the screen.
Succeeded(c) == at[c] \in OnScreen

ToolMatches(p) == pred[p].tool \in ClickFamily

Init ==
    /\ now = 0
    /\ status = [p \in Preds |-> "absent"]
    /\ pred = [p \in Preds |-> CHOOSE x \in Predictions : TRUE]
    /\ born = [p \in Preds |-> 0]
    /\ by = [p \in Preds |-> NoClick]
    /\ everMiss = {}
    /\ pc = [c \in Clicks |-> "idle"]
    /\ at = [c \in Clicks |-> 0]
    /\ asOf = [c \in Clicks |-> 0]
    /\ targets = [c \in Clicks |-> {}]
    /\ todo = [c \in Clicks |-> {}]
    /\ taught = [c \in Clicks |-> {}]

Tick ==
    /\ now < MaxTime
    /\ now' = now + 1
    /\ UNCHANGED <<row, click>>

\* An engine's prediction is inserted.
LogMLPrediction(p) ==
    /\ status[p] = "absent"
    /\ status' = [status EXCEPT ![p] = "pending"]
    /\ \E x \in Predictions : pred' = [pred EXCEPT ![p] = x]
    /\ born' = [born EXCEPT ![p] = now]
    /\ UNCHANGED <<now, by, everMiss, click>>

\* The cursor has moved and the buttons were pressed, or the place was refused.
Click(c) ==
    /\ pc[c] = "idle"
    /\ \E x \in Targets : at' = [at EXCEPT ![c] = x]
    /\ pc' = [pc EXCEPT ![c] = "acted"]
    /\ UNCHANGED <<now, row, asOf, targets, todo, taught>>

\* expireStalePredictions: pending for too long is unknown, not a miss.
Expire ==
    status' = [p \in Preds |->
        IF status[p] = "pending" /\ now - born[p] > UnknownAfter THEN "unknown" ELSE status[p]]

ExpireStalePredictions(c) ==
    /\ pc[c] = "acted"
    /\ Expire
    /\ pc' = [pc EXCEPT ![c] = "expired"]
    /\ UNCHANGED <<now, pred, born, by, everMiss, at, asOf, targets, todo, taught>>

\* ml_status and ml_outcome_status expire before they count.
OutcomeStats ==
    /\ Expire
    /\ UNCHANGED <<now, pred, born, by, everMiss, click>>

Pending == {p \in Preds : status[p] = "pending" /\ now - born[p] <= PendingWindow}

\* The rows a click judges: those near it, or if it failed with none near it,
\* those of its own kind within twice the distance.
Scored(c) ==
    LET near == {p \in Pending : Near(p, c, Radius)}
    IN  IF near # {} \/ Succeeded(c) THEN near
        ELSE {p \in Pending : ToolMatches(p) /\ Near(p, c, 2 * Radius)}

QueryPending(c) ==
    /\ pc[c] = "expired"
    /\ asOf' = [asOf EXCEPT ![c] = now]
    /\ targets' = [targets EXCEPT ![c] = Scored(c)]
    /\ todo' = [todo EXCEPT ![c] = Scored(c)]
    /\ pc' = [pc EXCEPT ![c] = IF Scored(c) = {} THEN "done" ELSE "judging"]
    /\ UNCHANGED <<now, row, at, taught>>

\* Mutant: UPDATE without the test of the status.
OpenAlways(p) == TRUE

\* UPDATE ... WHERE status IN (pending, miss)
Open(p) == status[p] \in {"pending", "miss"}

\* Mutant: the outcome and its source change places.
VerdictSource(c) == "click"

Verdict(c) == IF Succeeded(c) THEN "hit" ELSE "miss"

\* One row, in the order the database returned them (none is asked for).
ApplyResolution(c, p) ==
    /\ pc[c] = "judging" /\ p \in todo[c]
    /\ IF Open(p)
       THEN /\ status' = [status EXCEPT ![p] = Verdict(c)]
            /\ by' = [by EXCEPT ![p] = c]
            /\ everMiss' = IF Succeeded(c) THEN everMiss ELSE everMiss \cup {p}
       ELSE UNCHANGED <<status, by, everMiss>>
    /\ todo' = [todo EXCEPT ![c] = @ \ {p}]
    /\ pc' = [pc EXCEPT ![c] = IF Succeeded(c) THEN "teaching" ELSE "judging"]
    /\ UNCHANGED <<now, pred, born, at, asOf, targets, taught>>

\* Mutant: the engine that made the guess is not asked for.
LessonsOfAll(c) == targets[c] \ todo[c]

\* What the transformer guessed is not taught to the adaptive engine.
Lessons(c) == {p \in targets[c] \ todo[c] : pred[p].engine # "transformer"}

\* MLTeach for the row just treated, whether or not the update found it open.
Teach(c) ==
    /\ pc[c] = "teaching"
    /\ taught' = [taught EXCEPT ![c] = Lessons(c)]
    /\ pc' = [pc EXCEPT ![c] = "judging"]
    /\ UNCHANGED <<now, row, at, asOf, targets, todo>>

\* Mutant: the loop is left as soon as one row is judged.
JudgedAny(c) == todo[c] # targets[c]

\* Mutant: an update that finds its row closed is tried again.
JudgedAllItself(c) == \A p \in targets[c] : by[p] = c

JudgedAll(c) == todo[c] = {}

\* A failed click ends here, one that hit goes on to the misses before it.
FinishJudging(c) ==
    /\ pc[c] = "judging" /\ JudgedAll(c)
    /\ pc' = [pc EXCEPT ![c] = IF Succeeded(c) THEN "recover" ELSE "done"]
    /\ UNCHANGED <<now, row, at, asOf, targets, todo, taught>>

\* Mutant: misses of any tool.
RecoverableAnyTool(c) ==
    {p \in Preds : /\ status[p] = "miss"
                   /\ asOf[c] - born[p] <= RecoverWindow
                   /\ HasXY(p) => Dist(p, c) <= 3 * Radius}

Recoverable(c) ==
    {p \in Preds : /\ status[p] = "miss" /\ pred[p].tool = "click"
                   /\ asOf[c] - born[p] <= RecoverWindow
                   /\ HasXY(p) => Dist(p, c) <= 3 * Radius}

RecoverRecentMisses(c) ==
    /\ pc[c] = "recover"
    /\ status' = [p \in Preds |-> IF p \in Recoverable(c) THEN "recovered" ELSE status[p]]
    /\ by' = [p \in Preds |-> IF p \in Recoverable(c) THEN c ELSE by[p]]
    /\ pc' = [pc EXCEPT ![c] = "done"]
    /\ UNCHANGED <<now, pred, born, everMiss, at, asOf, targets, todo, taught>>

Resolve(c) ==
    \/ ExpireStalePredictions(c) \/ QueryPending(c)
    \/ \E p \in Preds : ApplyResolution(c, p)
    \/ Teach(c) \/ FinishJudging(c) \/ RecoverRecentMisses(c)

\* The process ends and is started again: resolutions stop where they are.
Restart ==
    /\ \E c \in Clicks : pc[c] \notin {"idle", "done", "gone"}
    /\ pc' = [c \in Clicks |-> IF pc[c] \in {"idle", "done"} THEN pc[c] ELSE "gone"]
    /\ UNCHANGED <<now, row, at, asOf, targets, todo, taught>>

Next ==
    \/ Tick \/ OutcomeStats \/ Restart
    \/ \E p \in Preds : LogMLPrediction(p)
    \/ \E c \in Clicks : Click(c) \/ Resolve(c)

Spec == Init /\ [][Next]_vars

\* A deferred call runs to its end; dlogMu is held for single statements.
FairSpec == Spec /\ \A c \in Clicks : WF_vars(Resolve(c))

----------------------------------------------------------------------------
(* Properties                                                              *)

Statuses == {"absent", "pending", "hit", "miss", "unknown", "recovered"}
Positive == {"hit", "recovered"}

TypeOK ==
    /\ now \in Nat
    /\ status \in [Preds -> Statuses]
    /\ pred \in [Preds -> Predictions]
    /\ born \in [Preds -> Nat]
    /\ by \in [Preds -> Clicks \cup {NoClick}]
    /\ everMiss \subseteq Preds
    /\ pc \in [Clicks -> {"idle", "acted", "expired", "judging", "teaching", "recover",
                           "done", "gone"}]
    /\ at \in [Clicks -> Nat]
    /\ asOf \in [Clicks -> Nat]
    /\ targets \in [Clicks -> SUBSET Preds]
    /\ todo \in [Clicks -> SUBSET Preds]
    /\ taught \in [Clicks -> SUBSET Preds]

\* What the label of a row says of the click whose coordinates the row holds.
Explained(p) ==
    LET c == by[p]
    IN  /\ status[p] = "hit" =>
              c # NoClick /\ Succeeded(c) /\ Near(p, c, Radius)
        /\ status[p] = "miss" =>
              /\ c # NoClick /\ ~Succeeded(c) /\ Near(p, c, 2 * Radius)
              /\ p \in everMiss
        /\ status[p] = "recovered" =>
              /\ c # NoClick /\ Succeeded(c) /\ Near(p, c, 3 * Radius)
              /\ p \in everMiss /\ pred[p].tool = "click"
        /\ status[p] \in {"absent", "pending", "unknown"} =>
              c = NoClick /\ p \notin everMiss

\* Every label can be explained, however resolutions interleave: a hit by a click that
\* worked within the radius, a miss by one that failed, a recovery by one that worked
\* after a failure.  What is unknown or pending no click has judged.
Evidence == \A p \in Preds : Explained(p)

\* A label the training may have used is not taken back: of two resolutions that read
\* the same pending row, the later one leaves a hit, a recovery and an unknown alone.
LabelsStay ==
    [][\A p \in Preds :
          /\ status[p] \in Positive \cup {"unknown"} => status'[p] = status[p]
          /\ status[p] = "miss" => status'[p] \in Positive \cup {"miss"}]_vars

\* A resolution that has judged its rows leaves none of them pending, whatever the
\* other resolutions did to them since it read them.
NoneLeftPending ==
    \A c \in Clicks : pc[c] \in {"recover", "done"} =>
        \A p \in targets[c] : status[p] \in Positive \cup {"miss", "unknown"}

\* What a click taught was within its reach and it worked, and no guess of the
\* transformer is among it; a hit has been taught by the time its click is over.
TaughtHits ==
    /\ \A c \in Clicks : \A p \in taught[c] :
          Succeeded(c) /\ Near(p, c, Radius) /\ pred[p].engine # "transformer"
    /\ \A p \in Preds :
          status[p] = "hit" /\ pc[by[p]] = "done" /\ pred[p].engine # "transformer"
          => p \in taught[by[p]]

\* Every click ends its resolution, if the process lives.
ClicksEnd == \A c \in Clicks : pc[c] = "acted" ~> pc[c] \in {"done", "gone"}

----------------------------------------------------------------------------
(* What the documentation says and the code does not do                    *)

\* docs/meta/CHANGELOG.md:49: "recovered — a miss followed within ~45s by a successful
\* nearby same-tool action": no miss in reach survives the end of such a click.
MissesRecovered ==
    [][\A c \in Clicks, p \in Preds :
          /\ pc[c] # "done" /\ pc'[c] = "done" /\ Succeeded(c)
          /\ status[p] = "miss" /\ pred[p].tool = "click"
          /\ now - born[p] <= RecoverWindow /\ Near(p, c, Radius)
          => status'[p] = "recovered"]_vars
=============================================================================
