------------------------------- MODULE Priors -------------------------------
(* The element priors (priors.go): how often an element of a class was        *)
(* detected in a window, and where.  A saved sample starts a goroutine that   *)
(* counts its detections, or a frame without any, in the table under the lock *)
(* of the cache, and loads the cache again; readers take the cache, which the *)
(* first of them loads, once, whether or not the store is open by then.       *)
(* Places are one-dimensional.                                                *)
EXTENDS Integers, Sequences, FiniteSetsExt, Functions

CONSTANTS DetectorLabels, UILabels,     \* yoloLabels; the labels of the classifier
          WindowTitles, normalizeWindowTitle,
          Frames,                       \* what a sample may show: sequences of [class, at]
          PlacesOf,                     \* places on the screen
          Cent, ScreenPixels,           \* the unit of the table; the screen's width
          Tolerance,                    \* watcherLocTolerance, in hundredths
          KnownCount, SureCount, UsualCount,
          MaxStd,                       \* of a prediction, in Cents
          MaxSaved, MaxPriorStarts, MaxLoadFaults

Windows == {normalizeWindowTitle[t] : t \in WindowTitles}
PriorKeys == (DetectorLabels \cup UILabels) \X Windows

ASSUME PriorAssumption ==
  /\ DOMAIN normalizeWindowTitle = WindowTitles
  /\ Frames \subseteq Seq([class : DetectorLabels, at : PlacesOf])
  /\ PlacesOf \subseteq Nat /\ Cent \in Nat \ {0} /\ ScreenPixels \in Nat \ {0}
ASSUME PriorBounds ==
  /\ KnownCount \in Nat /\ SureCount \in Nat /\ UsualCount \in Nat /\ Tolerance \in Nat /\ MaxStd \in Nat
  /\ MaxSaved \in Nat /\ MaxPriorStarts \in Nat /\ MaxLoadFaults \in Nat

VARIABLES priors,                   \* element_priors: the rows there are, by key
          cached,                   \* elementPriors
          loadOnce,                 \* loadPriorsOnce is spent
          storeOpen,                \* trainDB
          counting,                 \* the goroutines: samples not counted yet
          saved, priorStarts, loadFaults,
          counted,                  \* history: the samples counted, in order
          upToDate                  \* history: the cache was loaded after the last count

priorVars == <<priors, cached, loadOnce, storeOpen, counting, saved, priorStarts, loadFaults, counted, upToDate>>
boundVars == <<saved, priorStarts>>

NoRow == [count |-> 0, frames |-> 0, sum |-> 0, squares |-> 0, share |-> <<0, 1>>]
NothingCached == <<>>
RowOf(table, k) == IF k \in DOMAIN table THEN table[k] ELSE NoRow

-----------------------------------------------------------------------------
(* What the upsert makes of a row: the values on its right are the old ones.  *)
\* Mutant: the share is of the frames before this one.
SightedOld(row, x) ==
  [count |-> row.count + 1, frames |-> row.frames + 1, sum |-> row.sum + x, squares |-> row.squares + x * x,
   share |-> <<row.count + 1, IF row = NoRow THEN 1 ELSE row.frames>>]
Sighted(row, x) ==
  [count |-> row.count + 1, frames |-> row.frames + 1, sum |-> row.sum + x, squares |-> row.squares + x * x,
   share |-> <<row.count + 1, row.frames + 1>>]
Unsighted(row) == [row EXCEPT !.frames = @ + 1, !.share = <<row.count, row.frames + 1>>]

(* Of the elements of a class only the first is counted.                      *)
FirstOf(elements, class) ==
  {i \in DOMAIN elements : elements[i].class = class /\ \A j \in 1..(i - 1) : elements[j].class # class}

UpdatePriorsFromDetections(window, elements) ==
  LET sighted == {elements[i].class : i \in DOMAIN elements} \X {window} IN
  [k \in DOMAIN priors \cup sighted |->
     IF k \in sighted THEN Sighted(RowOf(priors, k), elements[Min(FirstOf(elements, k[1]))].at) ELSE priors[k]]
UpdatePriorsForNegative(window) ==
  [k \in DOMAIN priors |-> IF k[2] = window THEN Unsighted(priors[k]) ELSE priors[k]]

(* The deviation is the root of a difference, which rounding makes negative   *)
(* for places that do not differ; SQLite answers NULL, which Scan refuses,    *)
(* and the row is passed over.  (The place has a second coordinate, which may *)
(* be the one that does not differ.)                                          *)
Loads(table) ==
  {Restrict(table, DOMAIN table \ refused) : refused \in SUBSET {k \in DOMAIN table : table[k].count > 1}}

-----------------------------------------------------------------------------
PriorsInit ==
  /\ priors = NothingCached /\ cached = NothingCached
  /\ loadOnce = FALSE /\ storeOpen = FALSE
  /\ counting = {} /\ saved = 0 /\ priorStarts = 0 /\ loadFaults = 0
  /\ counted = <<>> /\ upToDate = FALSE

(* The orphan prune at the start opens the store, in a goroutine.             *)
InitTrainingStore ==
  /\ ~storeOpen
  /\ storeOpen' = TRUE
  /\ UNCHANGED <<priors, cached, loadOnce, counting, boundVars, loadFaults, counted, upToDate>>

(* A sample saved: its row is written first.                                  *)
StartCount(title, elements) ==
  /\ saved < MaxSaved
  /\ saved' = saved + 1
  /\ counting' = counting \cup {[n |-> saved', window |-> normalizeWindowTitle[title], elements |-> elements]}
  /\ storeOpen' = TRUE
SaveSample(title, elements) ==
  /\ StartCount(title, elements)
  /\ UNCHANGED <<priors, cached, loadOnce, priorStarts, loadFaults, counted, upToDate>>

(* One transaction: the goroutine's update is committed as a whole and loaded,*)
(* or committed and not loaded, or not made.                                  *)
Committed(u) ==
  /\ priors' = IF u.elements = <<>> THEN UpdatePriorsForNegative(u.window)
               ELSE UpdatePriorsFromDetections(u.window, u.elements)
  /\ counted' = Append(counted, u)
CountSample(u) ==
  /\ storeOpen /\ u \in counting
  /\ counting' = counting \ {u}
  /\ \/ Committed(u) /\ cached' \in Loads(priors') /\ upToDate' = TRUE /\ UNCHANGED loadFaults
     \/ /\ loadFaults < MaxLoadFaults /\ loadFaults' = loadFaults + 1
        /\ \/ Committed(u) /\ upToDate' = FALSE
           \/ UNCHANGED <<priors, counted, upToDate>>
        /\ UNCHANGED cached
  /\ UNCHANGED <<loadOnce, storeOpen, boundVars>>

(* Every reader, before it reads.                                             *)
LoadPriorsOnce ==
  /\ loadOnce' = TRUE
  /\ IF ~loadOnce /\ storeOpen THEN cached' \in Loads(priors) /\ upToDate' = TRUE
     ELSE UNCHANGED <<cached, upToDate>>

ReadPriors ==
  /\ LoadPriorsOnce
  /\ UNCHANGED <<priors, storeOpen, counting, boundVars, loadFaults, counted>>

Distance(a, b) == IF a >= b THEN a - b ELSE b - a

(* ElementKnownConfidently: a place here is a fraction of the screen, an      *)
(* average of the table is in hundreds of pixels.                             *)
ElementKnownConfidently(cache, k, x) ==
  LET row == RowOf(cache, k) IN
  /\ row.count >= KnownCount /\ row.count > 0
  /\ 2 * row.share[1] >= row.share[2]
  /\ 100 * Distance(x * Cent * row.count, row.sum * ScreenPixels) <= Tolerance * ScreenPixels * Cent * row.count

(* The watcher saves a crop of an element that is not known under the label   *)
(* of the classifier, or the detector's if there is none; what is counted is  *)
(* what the detector finds in the crop.                                       *)
SaveElementRegionSamples(title, label, x, elements) ==
  /\ LoadPriorsOnce
  /\ ~ElementKnownConfidently(cached', <<label, normalizeWindowTitle[title]>>, x)
  /\ StartCount(title, elements)
  /\ UNCHANGED <<priors, priorStarts, loadFaults, counted>>

(* The server ends, anywhere, and starts again.                               *)
PriorsRestart ==
  /\ priorStarts < MaxPriorStarts
  /\ priorStarts' = priorStarts + 1
  /\ cached' = NothingCached /\ loadOnce' = FALSE /\ storeOpen' = FALSE /\ counting' = {} /\ upToDate' = FALSE
  /\ UNCHANGED <<priors, saved, loadFaults, counted>>

PriorsNext ==
  \/ InitTrainingStore
  \/ \E t \in WindowTitles, f \in Frames :
       \/ SaveSample(t, f)
       \/ \E label \in DetectorLabels \cup UILabels, x \in PlacesOf : SaveElementRegionSamples(t, label, x, f)
  \/ \E u \in counting : CountSample(u)
  \/ ReadPriors
  \/ PriorsRestart
PriorsSpec == PriorsInit /\ [][PriorsNext]_priorVars

-----------------------------------------------------------------------------
(* FindPriorPrediction: where the element is to be found, for one that was    *)
(* seen often and hardly moved.                                               *)
Spread(row) == row.count * row.squares - row.sum * row.sum
FindPriorPrediction(k) ==
  LET row == RowOf(cached, k) IN
  IF /\ row.count >= SureCount /\ row.count > 0 /\ 10 * row.share[1] >= 7 * row.share[2]
     /\ Spread(row) <= MaxStd * MaxStd * Cent * Cent * row.count * (row.count - 1)
  THEN {row.sum \div row.count} ELSE {}

(* AdjustConfidenceWithPriors, in hundredths.                                 *)
Raised(row, c) ==
  IF 10 * row.share[1] > 3 * row.share[2] /\ row.count >= UsualCount
  THEN c + ((5 + (10 * row.share[1]) \div row.share[2]) * (100 - c)) \div 100 ELSE c
Lowered(row, c) ==
  IF 20 * row.share[1] < row.share[2] /\ row.count >= UsualCount - 1
  THEN c - ((10 - (200 * row.share[1]) \div row.share[2]) * c) \div 100 ELSE c
FarOff(row, x, deviations) ==
  /\ row.count >= UsualCount /\ Spread(row) > 0
  /\ (x * row.count - row.sum) * (x * row.count - row.sum) * (row.count - 1) > deviations * deviations * Spread(row) * row.count
Displaced(row, x, c) ==
  IF FarOff(row, x, 3) THEN c - (15 * c) \div 100 ELSE IF FarOff(row, x, 2) THEN c - (5 * c) \div 100 ELSE c
AdjustConfidenceWithPriors(k, x, c) ==
  LET row == RowOf(cached, k)
      adjusted == Displaced(row, x, Lowered(row, Raised(row, c)))
  IN IF row = NoRow THEN c ELSE IF adjusted < 1 THEN 1 ELSE IF adjusted > 99 THEN 99 ELSE adjusted

GetPriorStats(least) == {k \in DOMAIN cached : cached[k].count >= least}

-----------------------------------------------------------------------------
PriorsTypeOK ==
  /\ \A table \in {priors, cached} :
       /\ DOMAIN table \subseteq PriorKeys
       /\ \A k \in DOMAIN table : table[k] \in [count : Nat, frames : Nat, sum : Nat, squares : Nat, share : Nat \X Nat]
  /\ loadOnce \in BOOLEAN /\ storeOpen \in BOOLEAN /\ upToDate \in BOOLEAN
  /\ saved \in 0..MaxSaved /\ priorStarts \in 0..MaxPriorStarts /\ loadFaults \in 0..MaxLoadFaults
  /\ \A u \in counting : u.n \in 1..saved /\ u.window \in Windows /\ u.elements \in Frames

(* What a history of samples teaches of a key, without a table.               *)
SightingsIn(h, k) == {n \in DOMAIN h : h[n].window = k[2] /\ FirstOf(h[n].elements, k[1]) # {}}
PlaceIn(h, k, n) == h[n].elements[Min(FirstOf(h[n].elements, k[1]))].at
FramesIn(h, k) ==
  {n \in DOMAIN h : h[n].window = k[2] /\ h[n].elements = <<>> /\ \E m \in SightingsIn(h, k) : m < n}
PlacesSum(h, k) ==
  LET upTo[n \in 0..Len(h)] ==
        IF n = 0 THEN 0 ELSE upTo[n - 1] + (IF n \in SightingsIn(h, k) THEN PlaceIn(h, k, n) ELSE 0)
  IN upTo[Len(h)]
Teaches(h, row, k) ==
  LET seen == SightingsIn(h, k) IN
  IF seen = {} THEN row = NoRow
  ELSE /\ row.count = Cardinality(seen)
       /\ row.sum = PlacesSum(h, k)
       /\ row.share = <<row.count, row.count + Cardinality(FramesIn(h, k))>>

(* The table is what the samples teach that were counted, in their order,     *)
(* through crashes and goroutines that overtake one another; the cache is the *)
(* table of some earlier moment, and of this one when it was loaded after the *)
(* last count, but for rows that rounding takes out.                          *)
TableFounded ==
  /\ \A k \in PriorKeys : Teaches(counted, RowOf(priors, k), k)
  /\ \E n \in (IF upToDate THEN Len(counted) ELSE 0)..Len(counted) : \A k \in PriorKeys :
       LET h == SubSeq(counted, 1, n) IN
       Teaches(h, RowOf(cached, k), k) \/ (k \notin DOMAIN cached /\ Cardinality(SightingsIn(h, k)) > 1)

(* An answer is founded too: an element is predicted between places where it  *)
(* was seen, in most of the frames; one that is where it always was does not  *)
(* lose confidence, and no confidence leaves its bounds.                      *)
SeenAt(k) == {PlaceIn(counted, k, n) : n \in SightingsIn(counted, k)}
AnswersFounded ==
  \A k \in GetPriorStats(1) :
    /\ \A x \in FindPriorPrediction(k) :
         (\E y \in SeenAt(k) : y <= x) /\ (\E y \in SeenAt(k) : x <= y)
    /\ \A x \in PlacesOf, c \in {1, 50, 99} :
         /\ AdjustConfidenceWithPriors(k, x, c) \in 1..99
         /\ SeenAt(k) = {x} /\ cached[k].count = cached[k].frames => AdjustConfidenceWithPriors(k, x, c) >= c

PriorsFounded == TableFounded /\ AnswersFounded
=============================================================================
