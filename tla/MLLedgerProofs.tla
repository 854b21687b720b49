--------------------------- MODULE MLLedgerProofs ---------------------------
(***************************************************************************)
(* The labels of the ledger: type correctness, the evidence behind every   *)
(* label, that labels stay, and what a finished click has judged and       *)
(* taught, for any number of rows and of concurrent clicks.                *)
(***************************************************************************)
EXTENDS MLLedger, TLAPS

\* What the place of a click says of the rows it has chosen.
PlaceOK(c) ==
    /\ pc[c] \in {"idle", "acted", "expired"} => targets[c] = {} /\ taught[c] = {}
    /\ pc[c] = "idle" => \A p \in Preds : by[p] # c
    /\ pc[c] \in {"teaching", "recover"} => Succeeded(c)
    /\ pc[c] \in {"recover", "done"} => todo[c] = {}
    /\ todo[c] \subseteq targets[c]
    /\ taught[c] # {} => Succeeded(c)
    /\ taught[c] \subseteq Lessons(c)
    /\ pc[c] \in {"judging", "recover", "done"} /\ Succeeded(c) => Lessons(c) \subseteq taught[c]

\* A chosen row is in reach of the click, and not pending once its turn is over.
TargetsOK(c) ==
    \A p \in targets[c] :
        /\ status[p] # "absent"
        /\ Near(p, c, IF Succeeded(c) THEN Radius ELSE 2 * Radius)
        /\ p \notin todo[c] => status[p] # "pending"

\* A hit was chosen by the click whose coordinates it holds, and had its turn.
HitsOK == \A p \in Preds : status[p] = "hit" => p \in targets[by[p]] \ todo[by[p]]

IInv ==
    /\ TypeOK
    /\ Evidence
    /\ \A c \in Clicks : PlaceOK(c) /\ TargetsOK(c)
    /\ HitsOK

----------------------------------------------------------------------------
(* Types                                                                   *)

USE DEF Statuses

LEMMA TypeInit == Init => TypeOK
<1> SUFFICES ASSUME Init PROVE TypeOK
    OBVIOUS
<1>1. (CHOOSE x \in Predictions : TRUE) \in Predictions
  BY PlaceAssumption
<1>2. pred \in [Preds -> Predictions]
  BY <1>1 DEF Init
<1> QED
  BY <1>2 DEF Init, TypeOK

LEMMA TypeStep == TypeOK /\ [Next]_vars => TypeOK'
<1> SUFFICES ASSUME TypeOK, [Next]_vars PROVE TypeOK'
    OBVIOUS
<1> USE PlaceAssumption, TimeAssumption, ClickAssumption
<1>1. CASE Tick
  BY <1>1 DEF Tick, TypeOK, row, click
<1>2. CASE OutcomeStats
  BY <1>2 DEF OutcomeStats, Expire, TypeOK, click
<1>3. ASSUME NEW p \in Preds, LogMLPrediction(p) PROVE TypeOK'
  BY <1>3 DEF LogMLPrediction, TypeOK, click
<1>4. ASSUME NEW c \in Clicks, Click(c) PROVE TypeOK'
  BY <1>4 DEF Click, TypeOK, row
<1>5. ASSUME NEW c \in Clicks, ExpireStalePredictions(c) PROVE TypeOK'
  BY <1>5 DEF ExpireStalePredictions, Expire, TypeOK
<1>6. ASSUME NEW c \in Clicks, QueryPending(c) PROVE TypeOK'
  <2>1. Scored(c) \subseteq Preds
    BY DEF Scored, Pending
  <2> QED
    BY <1>6, <2>1 DEF QueryPending, TypeOK, row
<1>7. ASSUME NEW c \in Clicks, NEW p \in Preds, ApplyResolution(c, p) PROVE TypeOK'
  BY <1>7 DEF ApplyResolution, Verdict, TypeOK
<1>8. ASSUME NEW c \in Clicks, Teach(c) PROVE TypeOK'
  BY <1>8 DEF Teach, Lessons, TypeOK, row
<1>9. ASSUME NEW c \in Clicks, FinishJudging(c) PROVE TypeOK'
  BY <1>9 DEF FinishJudging, TypeOK, row
<1>10. ASSUME NEW c \in Clicks, RecoverRecentMisses(c) PROVE TypeOK'
  BY <1>10 DEF RecoverRecentMisses, TypeOK
<1>11. CASE Restart
  BY <1>11 DEF Restart, TypeOK, row
<1>12. CASE UNCHANGED vars
  BY <1>12 DEF vars, TypeOK
<1> QED
  BY <1>1, <1>2, <1>3, <1>4, <1>5, <1>6, <1>7, <1>8, <1>9, <1>10, <1>11, <1>12 DEF Next, Resolve

----------------------------------------------------------------------------
(* The invariant                                                           *)

LEMMA InvInit == Init => IInv
<1> SUFFICES ASSUME Init PROVE IInv
    OBVIOUS
<1>1. TypeOK
  BY TypeInit
<1>2. Evidence /\ HitsOK
  BY DEF Init, Evidence, Explained, HitsOK
<1>3. ASSUME NEW c \in Clicks PROVE PlaceOK(c) /\ TargetsOK(c)
  BY <1>3, ClickAssumption DEF Init, PlaceOK, TargetsOK, Lessons
<1> QED
  BY <1>1, <1>2, <1>3 DEF IInv

\* What a click chooses is in its reach.
LEMMA ScoredInReach ==
    ASSUME TypeOK, NEW c \in Clicks, NEW p \in Scored(c)
    PROVE  /\ p \in Preds /\ status[p] = "pending"
           /\ Near(p, c, IF Succeeded(c) THEN Radius ELSE 2 * Radius)
<1>1. p \in Pending
  BY DEF Scored
<1>2. Near(p, c, Radius) \/ (~Succeeded(c) /\ Near(p, c, 2 * Radius))
  BY DEF Scored
<1>3. Near(p, c, Radius) => Near(p, c, 2 * Radius)
  <2>1. pred[p].place \in Nat /\ at[c] \in Nat /\ Radius \in Nat
    BY <1>1, PlaceAssumption DEF TypeOK, Pending, Prediction
  <2> QED
    BY <2>1 DEF Near, Dist, Abs
<1> QED
  BY <1>1, <1>2, <1>3 DEF Pending

\* The conjuncts of the invariant about one click, kept by the steps that do not
\* touch it and neither reopen nor insert what it has chosen.
LEMMA OtherClick ==
    ASSUME TypeOK, TypeOK', NEW c \in Clicks,
           PlaceOK(c), TargetsOK(c),
           pc'[c] = pc[c], at'[c] = at[c], targets'[c] = targets[c],
           todo'[c] = todo[c], taught'[c] = taught[c],
           \A p \in targets[c] : pred'[p] = pred[p],
           \A p \in targets[c] : status'[p] # "absent",
           \A p \in targets[c] : status'[p] = "pending" => status[p] = "pending",
           \A p \in Preds : by'[p] = c => by[p] = c \/ pc[c] # "idle"
    PROVE  PlaceOK(c)' /\ TargetsOK(c)'
<1>1. targets[c] \subseteq Preds
  BY DEF TypeOK
<1>2. Succeeded(c)' <=> Succeeded(c)
  BY DEF Succeeded
<1>3. ASSUME NEW p \in targets[c], NEW r PROVE Near(p, c, r)' <=> Near(p, c, r)
  BY <1>3 DEF Near, HasXY, Dist
<1>4. Lessons(c)' = Lessons(c)
  BY DEF Lessons
<1>5. PlaceOK(c)'
  BY <1>2, <1>4 DEF PlaceOK
<1>6. TargetsOK(c)'
  BY <1>1, <1>2, <1>3 DEF TargetsOK
<1> QED
  BY <1>5, <1>6

\* A row nobody labels keeps its evidence.
LEMMA SameEvidence ==
    ASSUME TypeOK, Evidence, HitsOK, \A c \in Clicks : PlaceOK(c),
           status' = status, by' = by, everMiss' = everMiss, pred' = pred,
           targets' = targets, todo' = todo,
           \A c \in Clicks : pc[c] = "idle" \/ at'[c] = at[c]
    PROVE  Evidence' /\ HitsOK'
<1>1. HitsOK'
  BY DEF HitsOK
<1>2. ASSUME NEW p \in Preds, by[p] # NoClick PROVE at'[by[p]] = at[by[p]]
  BY <1>2 DEF PlaceOK, TypeOK
<1>3. Evidence'
  BY <1>2 DEF Evidence, Explained, Succeeded, Near, HasXY, Dist
<1> QED
  BY <1>1, <1>3

LEMMA InvStep == IInv /\ [Next]_vars => IInv'
<1> SUFFICES ASSUME IInv, [Next]_vars PROVE IInv'
    OBVIOUS
<1>t. TypeOK /\ TypeOK'
  BY TypeStep DEF IInv
<1>i. Evidence /\ HitsOK /\ \A c \in Clicks : PlaceOK(c) /\ TargetsOK(c)
  BY DEF IInv
<1>g. SUFFICES Evidence' /\ HitsOK' /\ \A c \in Clicks : PlaceOK(c)' /\ TargetsOK(c)'
  BY <1>t DEF IInv
<1>1. CASE Tick \/ UNCHANGED vars
  <2>1. UNCHANGED <<row, click>>
    BY <1>1 DEF Tick, vars, row, click
  <2>2. Evidence' /\ HitsOK'
    BY <2>1, <1>t, <1>i, SameEvidence DEF row, click
  <2>3. ASSUME NEW c \in Clicks PROVE PlaceOK(c)' /\ TargetsOK(c)'
    BY <2>1, <1>t, <1>i, OtherClick DEF row, click, TargetsOK
  <2> QED
    BY <2>2, <2>3
<1>2. CASE Expire /\ UNCHANGED <<pred, born, by, everMiss, at, targets, todo, taught>>
           /\ \A c \in Clicks : pc'[c] = pc[c] \/ (pc[c] = "acted" /\ pc'[c] = "expired")
  <2>1. \A p \in Preds : status'[p] = status[p] \/ (status[p] = "pending" /\ status'[p] = "unknown")
    BY <1>2, <1>t DEF Expire, TypeOK
  <2>2. Evidence'
    BY <1>2, <2>1, <1>i DEF Evidence, Explained, Succeeded, Near, HasXY, Dist
  <2>3. HitsOK'
    BY <1>2, <2>1, <1>i DEF HitsOK
  <2>4. ASSUME NEW c \in Clicks PROVE PlaceOK(c)' /\ TargetsOK(c)'
    <3>1. targets[c] \subseteq Preds
      BY <1>t DEF TypeOK
    <3>2. PlaceOK(c)'
      BY <1>2, <1>i DEF PlaceOK, Lessons, Succeeded
    <3>3. TargetsOK(c)'
      BY <1>2, <1>i, <2>1, <3>1 DEF TargetsOK, Near, HasXY, Dist, Succeeded
    <3> QED
      BY <3>2, <3>3
  <2> QED
    BY <2>2, <2>3, <2>4
<1>3. ASSUME NEW p \in Preds, LogMLPrediction(p) PROVE Evidence' /\ HitsOK' /\ \A c \in Clicks : PlaceOK(c)' /\ TargetsOK(c)'
  <2>1. \A q \in Preds \ {p} : status'[q] = status[q] /\ pred'[q] = pred[q]
    BY <1>3, <1>t DEF LogMLPrediction, TypeOK
  <2>2. status[p] = "absent" /\ status'[p] = "pending"
    BY <1>3, <1>t DEF LogMLPrediction, TypeOK
  <2>3. by' = by /\ everMiss' = everMiss /\ UNCHANGED click
    BY <1>3 DEF LogMLPrediction
  <2>4. Evidence'
    <3> SUFFICES ASSUME NEW q \in Preds PROVE Explained(q)'
      BY DEF Evidence
    <3>1. CASE q = p
      BY <3>1, <2>2, <2>3, <1>i DEF Evidence, Explained
    <3>2. CASE q # p
      BY <3>2, <2>1, <2>3, <1>i DEF Evidence, Explained, Succeeded, Near, HasXY, Dist, click
    <3> QED
      BY <3>1, <3>2
  <2>5. HitsOK'
    BY <2>1, <2>2, <2>3, <1>i DEF HitsOK, click
  <2>6. ASSUME NEW c \in Clicks PROVE PlaceOK(c)' /\ TargetsOK(c)'
    <3>1. targets[c] \subseteq Preds \ {p}
      BY <1>t, <1>i, <2>2 DEF TypeOK, TargetsOK
    <3> QED
      BY <1>t, <1>i, <2>1, <2>3, <3>1, OtherClick DEF click, TargetsOK
  <2> QED
    BY <2>4, <2>5, <2>6
<1>4. ASSUME NEW c \in Clicks, Click(c)
      PROVE Evidence' /\ HitsOK' /\ \A d \in Clicks : PlaceOK(d)' /\ TargetsOK(d)'
  <2>1. pc[c] = "idle" /\ pc'[c] = "acted" /\ UNCHANGED <<row, targets, todo, taught>>
    BY <1>4, <1>t DEF Click, TypeOK
  <2>2. \A d \in Clicks \ {c} : pc'[d] = pc[d] /\ at'[d] = at[d]
    BY <1>4, <1>t DEF Click, TypeOK
  <2>3. Evidence' /\ HitsOK'
    BY <2>1, <2>2, <1>t, <1>i, SameEvidence DEF row
  <2>4. ASSUME NEW d \in Clicks PROVE PlaceOK(d)' /\ TargetsOK(d)'
    <3>1. CASE d = c
      BY <3>1, <2>1, <1>i DEF PlaceOK, TargetsOK, Lessons
    <3>2. CASE d # c
      BY <3>2, <2>1, <2>2, <1>t, <1>i, OtherClick DEF row, TargetsOK
    <3> QED
      BY <3>1, <3>2
  <2> QED
    BY <2>3, <2>4
<1>5. ASSUME NEW c \in Clicks, QueryPending(c)
      PROVE Evidence' /\ HitsOK' /\ \A d \in Clicks : PlaceOK(d)' /\ TargetsOK(d)'
  <2>1. /\ pc[c] = "expired" /\ pc'[c] = (IF Scored(c) = {} THEN "done" ELSE "judging")
        /\ targets'[c] = Scored(c) /\ todo'[c] = Scored(c)
        /\ UNCHANGED <<row, at, taught>>
    BY <1>5, <1>t DEF QueryPending, TypeOK
  <2>2. \A d \in Clicks \ {c} :
           pc'[d] = pc[d] /\ targets'[d] = targets[d] /\ todo'[d] = todo[d]
    BY <1>5, <1>t DEF QueryPending, TypeOK
  <2>3. targets[c] = {} /\ taught[c] = {}
    BY <2>1, <1>i DEF PlaceOK
  <2>4. HitsOK'
    BY <2>1, <2>2, <2>3, <1>i, <1>t, ClickAssumption DEF HitsOK, row, TypeOK, Evidence, Explained
  <2>5. Evidence'
    BY <2>1, <1>i DEF Evidence, Explained, Succeeded, Near, HasXY, Dist, row
  <2>6. ASSUME NEW d \in Clicks PROVE PlaceOK(d)' /\ TargetsOK(d)'
    <3>1. CASE d = c
      <4>1. Succeeded(c)' <=> Succeeded(c)
        BY <2>1 DEF Succeeded
      <4>2. Lessons(c)' = {}
        BY <2>1 DEF Lessons
      <4>3. PlaceOK(c)'
        BY <2>1, <2>3, <4>2 DEF PlaceOK
      <4>4. TargetsOK(c)'
        BY <2>1, <4>1, <1>t, ScoredInReach DEF TargetsOK, Near, HasXY, Dist, row
      <4> QED
        BY <3>1, <4>3, <4>4
    <3>2. CASE d # c
      BY <3>2, <2>1, <2>2, <1>t, <1>i, OtherClick DEF row, TargetsOK
    <3> QED
      BY <3>1, <3>2
  <2> QED
    BY <2>4, <2>5, <2>6
<1>6. ASSUME NEW c \in Clicks, NEW p \in Preds, ApplyResolution(c, p)
      PROVE Evidence' /\ HitsOK' /\ \A d \in Clicks : PlaceOK(d)' /\ TargetsOK(d)'
  <2>1. /\ pc[c] = "judging" /\ p \in todo[c] /\ p \in targets[c]
        /\ pc'[c] = (IF Succeeded(c) THEN "teaching" ELSE "judging")
        /\ todo'[c] = todo[c] \ {p}
        /\ UNCHANGED <<now, pred, born, at, asOf, targets, taught>>
    BY <1>6, <1>t, <1>i DEF ApplyResolution, TypeOK, PlaceOK
  <2>2. \A d \in Clicks \ {c} : pc'[d] = pc[d] /\ todo'[d] = todo[d]
    BY <1>6, <1>t DEF ApplyResolution, TypeOK
  <2>3. \A q \in Preds \ {p} : /\ status'[q] = status[q] /\ by'[q] = by[q]
                               /\ q \in everMiss' <=> q \in everMiss
    BY <1>6, <1>t DEF ApplyResolution, TypeOK
  <2>4. status[p] # "absent" /\ Near(p, c, IF Succeeded(c) THEN Radius ELSE 2 * Radius)
    BY <2>1, <1>i DEF TargetsOK
  <2>5. \/ Open(p) /\ status'[p] = Verdict(c) /\ by'[p] = c
        \/ ~Open(p) /\ UNCHANGED <<status, by, everMiss>>
    BY <1>6, <1>t DEF ApplyResolution, TypeOK
  <2>6. \A r : \A q \in Preds, d \in Clicks : /\ Succeeded(d)' <=> Succeeded(d)
                                             /\ Near(q, d, r)' <=> Near(q, d, r)
    BY <2>1 DEF Succeeded, Near, HasXY, Dist
  <2>7. Evidence'
    <3> SUFFICES ASSUME NEW q \in Preds PROVE Explained(q)'
      BY DEF Evidence
    <3>1. CASE q = p /\ Open(p)
      <4>1. ~Succeeded(c) => p \in everMiss'
        BY <3>1, <1>6 DEF ApplyResolution
      <4> QED
        BY <3>1, <4>1, <2>4, <2>5, <2>6, ClickAssumption DEF Explained, Verdict
    <3>2. CASE q # p \/ ~Open(p)
      <4>1. /\ status'[q] = status[q] /\ by'[q] = by[q]
            /\ q \in everMiss' <=> q \in everMiss
        BY <3>2, <2>3, <2>5
      <4>2. Explained(q)
        BY <1>i DEF Evidence
      <4> QED
        BY <4>1, <4>2, <2>1, <2>6, <1>t DEF Explained, TypeOK, Succeeded, Near, HasXY, Dist
    <3> QED
      BY <3>1, <3>2
  <2>8. HitsOK'
    <3> SUFFICES ASSUME NEW q \in Preds, status'[q] = "hit"
                 PROVE q \in targets'[by'[q]] \ todo'[by'[q]]
      BY DEF HitsOK
    <3>1. CASE q = p /\ Open(p)
      BY <3>1, <2>1, <2>5
    <3>2. CASE q # p \/ ~Open(p)
      <4>1. status[q] = "hit" /\ by'[q] = by[q]
        BY <3>2, <2>3, <2>5
      <4>2. q \in targets[by[q]] \ todo[by[q]] /\ by[q] \in Clicks
        BY <4>1, <1>i, <1>t DEF HitsOK, Evidence, Explained, TypeOK
      <4> QED
        BY <4>1, <4>2, <2>1, <2>2
    <3> QED
      BY <3>1, <3>2
  <2>9. ASSUME NEW d \in Clicks PROVE PlaceOK(d)' /\ TargetsOK(d)'
    <3>1. targets[d] \subseteq Preds
      BY <1>t DEF TypeOK
    <3>2. \A q \in targets[d] :
             status'[q] # "absent" /\ (status'[q] = "pending" => status[q] = "pending")
      BY <3>1, <2>3, <2>5, <1>i DEF TargetsOK, Verdict
    <3>3. CASE d = c
      <4>1. status'[p] # "pending"
        BY <2>5 DEF Open, Verdict
      <4>2. Lessons(c) \subseteq Lessons(c)'
        BY <2>1 DEF Lessons
      <4>3. PlaceOK(c)'
        <5>1. PlaceOK(c)
          BY <1>i
        <5> QED
          BY <5>1, <2>1, <2>5, <2>6, <4>2, <3>1, <1>6 DEF PlaceOK, Succeeded
      <4>4. TargetsOK(c)'
        BY <3>1, <3>2, <3>3, <4>1, <2>1, <2>6, <1>i DEF TargetsOK
      <4> QED
        BY <3>3, <4>3, <4>4
    <3>4. CASE d # c
      BY <3>4, <3>1, <3>2, <2>1, <2>2, <2>3, <2>5, <1>t, <1>i, OtherClick
    <3> QED
      BY <3>3, <3>4
  <2> QED
    BY <2>7, <2>8, <2>9
<1>7. ASSUME NEW c \in Clicks, Teach(c)
      PROVE Evidence' /\ HitsOK' /\ \A d \in Clicks : PlaceOK(d)' /\ TargetsOK(d)'
  <2>1. /\ pc[c] = "teaching" /\ pc'[c] = "judging" /\ taught'[c] = Lessons(c)
        /\ UNCHANGED <<now, row, at, asOf, targets, todo>>
    BY <1>7, <1>t DEF Teach, TypeOK
  <2>2. \A d \in Clicks \ {c} : pc'[d] = pc[d] /\ taught'[d] = taught[d]
    BY <1>7, <1>t DEF Teach, TypeOK
  <2>3. Evidence' /\ HitsOK'
    BY <2>1, <1>t, <1>i, SameEvidence DEF row
  <2>4. ASSUME NEW d \in Clicks PROVE PlaceOK(d)' /\ TargetsOK(d)'
    <3>1. CASE d = c
      <4>1. Lessons(c)' = Lessons(c)
        BY <2>1 DEF Lessons, row
      <4>2. PlaceOK(c)'
        BY <2>1, <4>1, <1>i DEF PlaceOK, Succeeded
      <4>3. TargetsOK(c)'
        BY <2>1, <1>i DEF TargetsOK, Succeeded, Near, HasXY, Dist, row
      <4> QED
        BY <3>1, <4>2, <4>3
    <3>2. CASE d # c
      BY <3>2, <2>1, <2>2, <1>t, <1>i, OtherClick DEF row, TargetsOK
    <3> QED
      BY <3>1, <3>2
  <2> QED
    BY <2>3, <2>4
<1>8. ASSUME NEW c \in Clicks, FinishJudging(c)
      PROVE Evidence' /\ HitsOK' /\ \A d \in Clicks : PlaceOK(d)' /\ TargetsOK(d)'
  <2>1. /\ pc[c] = "judging" /\ todo[c] = {}
        /\ pc'[c] = (IF Succeeded(c) THEN "recover" ELSE "done")
        /\ UNCHANGED <<now, row, at, asOf, targets, todo, taught>>
    BY <1>8, <1>t DEF FinishJudging, JudgedAll, TypeOK
  <2>2. \A d \in Clicks \ {c} : pc'[d] = pc[d]
    BY <1>8, <1>t DEF FinishJudging, TypeOK
  <2>3. Evidence' /\ HitsOK'
    BY <2>1, <1>t, <1>i, SameEvidence DEF row
  <2>4. ASSUME NEW d \in Clicks PROVE PlaceOK(d)' /\ TargetsOK(d)'
    <3>1. CASE d = c
      <4>1. Lessons(c)' = Lessons(c)
        BY <2>1 DEF Lessons, row
      <4>2. PlaceOK(c)'
        BY <2>1, <4>1, <1>i DEF PlaceOK, Succeeded
      <4>3. TargetsOK(c)'
        BY <2>1, <1>i DEF TargetsOK, Succeeded, Near, HasXY, Dist, row
      <4> QED
        BY <3>1, <4>2, <4>3
    <3>2. CASE d # c
      BY <3>2, <2>1, <2>2, <1>t, <1>i, OtherClick DEF row, TargetsOK
    <3> QED
      BY <3>1, <3>2
  <2> QED
    BY <2>3, <2>4
<1>9. ASSUME NEW c \in Clicks, RecoverRecentMisses(c)
      PROVE Evidence' /\ HitsOK' /\ \A d \in Clicks : PlaceOK(d)' /\ TargetsOK(d)'
  <2>1. /\ pc[c] = "recover" /\ pc'[c] = "done" /\ Succeeded(c)
        /\ UNCHANGED <<now, pred, born, everMiss, at, asOf, targets, todo, taught>>
    BY <1>9, <1>t, <1>i DEF RecoverRecentMisses, TypeOK, PlaceOK
  <2>2. \A d \in Clicks \ {c} : pc'[d] = pc[d]
    BY <1>9, <1>t DEF RecoverRecentMisses, TypeOK
  <2>3. \A p \in Preds \ Recoverable(c) : status'[p] = status[p] /\ by'[p] = by[p]
    BY <1>9 DEF RecoverRecentMisses
  <2>4. \A p \in Recoverable(c) :
           /\ p \in Preds /\ status[p] = "miss" /\ status'[p] = "recovered" /\ by'[p] = c
           /\ pred[p].tool = "click" /\ (HasXY(p) => Dist(p, c) <= 3 * Radius)
    BY <1>9 DEF RecoverRecentMisses, Recoverable
  <2>5. Evidence'
    <3> SUFFICES ASSUME NEW p \in Preds PROVE Explained(p)'
      BY DEF Evidence
    <3>1. Explained(p)
      BY <1>i DEF Evidence
    <3>2. CASE p \in Recoverable(c)
      <4>1. Near(p, by[p], 2 * Radius) /\ by[p] # NoClick
        BY <3>1, <3>2, <2>4 DEF Explained
      <4>2. Near(p, c, 3 * Radius)
        BY <3>2, <2>4, <4>1 DEF Near
      <4>3. p \in everMiss
        BY <3>1, <3>2, <2>4 DEF Explained
      <4> QED
        BY <3>2, <4>2, <4>3, <2>1, <2>4, ClickAssumption
        DEF Explained, Succeeded, Near, HasXY, Dist
    <3>3. CASE p \notin Recoverable(c)
      BY <3>1, <3>3, <2>1, <2>3 DEF Explained, Succeeded, Near, HasXY, Dist
    <3> QED
      BY <3>2, <3>3
  <2>6. HitsOK'
    BY <2>1, <2>3, <2>4, <1>i DEF HitsOK
  <2>7. ASSUME NEW d \in Clicks PROVE PlaceOK(d)' /\ TargetsOK(d)'
    <3>1. targets[d] \subseteq Preds
      BY <1>t DEF TypeOK
    <3>2. \A q \in targets[d] :
             status'[q] # "absent" /\ (status'[q] = "pending" => status[q] = "pending")
      BY <3>1, <2>3, <2>4, <1>i DEF TargetsOK
    <3>3. CASE d = c
      BY <3>3, <3>1, <3>2, <2>1, <1>i
      DEF PlaceOK, TargetsOK, Lessons, Succeeded, Near, HasXY, Dist
    <3>4. CASE d # c
      BY <3>4, <3>1, <3>2, <2>1, <2>2, <2>3, <2>4, <1>t, <1>i, OtherClick
    <3> QED
      BY <3>3, <3>4
  <2> QED
    BY <2>5, <2>6, <2>7
<1>10. CASE Restart
  <2>1. UNCHANGED <<now, row, at, asOf, targets, todo, taught>>
    BY <1>10 DEF Restart
  <2>2. \A c \in Clicks : pc'[c] = pc[c] \/ pc'[c] = "gone"
    BY <1>10 DEF Restart
  <2>3. Evidence' /\ HitsOK'
    BY <2>1, <1>t, <1>i, SameEvidence DEF row
  <2>4. ASSUME NEW c \in Clicks PROVE PlaceOK(c)' /\ TargetsOK(c)'
    BY <2>1, <2>2, <1>i DEF PlaceOK, TargetsOK, Lessons, Succeeded, Near, HasXY, Dist, row
  <2> QED
    BY <2>3, <2>4
<1>11. CASE OutcomeStats
  BY <1>11, <1>2 DEF OutcomeStats, click
<1>12. ASSUME NEW c \in Clicks, ExpireStalePredictions(c)
       PROVE Evidence' /\ HitsOK' /\ \A d \in Clicks : PlaceOK(d)' /\ TargetsOK(d)'
  <2>1. \A d \in Clicks : pc'[d] = pc[d] \/ (pc[d] = "acted" /\ pc'[d] = "expired")
    BY <1>12, <1>t DEF ExpireStalePredictions, TypeOK
  <2> QED
    BY <1>12, <2>1, <1>2 DEF ExpireStalePredictions
<1> QED
  BY <1>1, <1>3, <1>4, <1>5, <1>6, <1>7, <1>8, <1>9, <1>10, <1>11, <1>12 DEF Next, Resolve

----------------------------------------------------------------------------
(* The theorems                                                            *)

THEOREM Invariance == Spec => []IInv
<1>1. IInv /\ UNCHANGED vars => IInv'
  BY InvStep
<1> QED
  BY InvInit, InvStep, PTL DEF Spec

\* For any rows, clicks and screen the state of the ledger is well typed.
THEOREM TypeCorrect == Spec => []TypeOK
<1>1. IInv => TypeOK
  BY DEF IInv
<1> QED
  BY <1>1, Invariance, PTL

\* Every label is explained by the click whose coordinates the row holds, for any
\* number of resolutions that read the same pending rows and judge them in any order.
THEOREM LabelsExplained == Spec => []Evidence
<1>1. IInv => Evidence
  BY DEF IInv
<1> QED
  BY <1>1, Invariance, PTL

\* A finished resolution leaves none of the rows it chose pending.
THEOREM AllJudged == Spec => []NoneLeftPending
<1>1. IInv => NoneLeftPending
  <2> SUFFICES ASSUME IInv, NEW c \in Clicks, pc[c] \in {"recover", "done"}, NEW p \in targets[c]
               PROVE status[p] \in Positive \cup {"miss", "unknown"}
    BY DEF NoneLeftPending
  <2>1. p \in Preds /\ status[p] \in Statuses
    BY DEF IInv, TypeOK
  <2>2. p \notin todo[c]
    BY DEF IInv, PlaceOK
  <2>3. status[p] # "absent" /\ status[p] # "pending"
    BY <2>2 DEF IInv, TargetsOK
  <2> QED
    BY <2>1, <2>3 DEF Positive
<1> QED
  BY <1>1, Invariance, PTL

\* Only hits in reach of a click that worked are taught, and all of them are.
THEOREM HitsTaught == Spec => []TaughtHits
<1>1. IInv => TaughtHits
  <2> SUFFICES ASSUME IInv PROVE TaughtHits
    OBVIOUS
  <2>1. ASSUME NEW c \in Clicks, NEW p \in taught[c]
        PROVE Succeeded(c) /\ Near(p, c, Radius) /\ pred[p].engine # "transformer"
    <3>1. Succeeded(c) /\ p \in Lessons(c)
      BY DEF IInv, PlaceOK
    <3> QED
      BY <3>1 DEF IInv, TargetsOK, Lessons
  <2>2. ASSUME NEW p \in Preds, status[p] = "hit", pc[by[p]] = "done",
               pred[p].engine # "transformer"
        PROVE p \in taught[by[p]]
    <3>1. by[p] \in Clicks /\ Succeeded(by[p])
      BY <2>2 DEF IInv, Evidence, Explained, TypeOK
    <3>2. p \in Lessons(by[p])
      BY <2>2 DEF IInv, HitsOK, Lessons
    <3> QED
      BY <2>2, <3>1, <3>2 DEF IInv, PlaceOK
  <2> QED
    BY <2>1, <2>2 DEF TaughtHits
<1> QED
  BY <1>1, Invariance, PTL

\* Hits, recoveries and unknowns are final, and a miss only becomes a success.
THEOREM LabelsFinal == Spec => LabelsStay
<1> DEFINE Stays == \A p \in Preds :
                       /\ status[p] \in Positive \cup {"unknown"} => status'[p] = status[p]
                       /\ status[p] = "miss" => status'[p] \in Positive \cup {"miss"}
<1>1. TypeOK /\ [Next]_vars => [Stays]_vars
  <2> SUFFICES ASSUME TypeOK, Next PROVE Stays
    OBVIOUS
  <2>1. CASE OutcomeStats \/ \E c \in Clicks : ExpireStalePredictions(c)
    BY <2>1 DEF OutcomeStats, ExpireStalePredictions, Expire, Positive
  <2>2. ASSUME NEW p \in Preds, LogMLPrediction(p) PROVE Stays
    BY <2>2 DEF LogMLPrediction, TypeOK, Positive
  <2>3. ASSUME NEW c \in Clicks, NEW p \in Preds, ApplyResolution(c, p) PROVE Stays
    BY <2>3 DEF ApplyResolution, Open, Verdict, TypeOK, Positive
  <2>4. ASSUME NEW c \in Clicks, RecoverRecentMisses(c) PROVE Stays
    BY <2>4 DEF RecoverRecentMisses, Recoverable, Positive
  <2>5. CASE UNCHANGED status
    BY <2>5 DEF Positive
  <2> QED
    BY <2>1, <2>2, <2>3, <2>4, <2>5
    DEF Next, Resolve, Tick, Restart, Click, QueryPending, Teach, FinishJudging, row
<1> QED
  BY <1>1, TypeCorrect, PTL DEF Spec, LabelsStay
=============================================================================
