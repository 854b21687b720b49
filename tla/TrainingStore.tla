---------------------------- MODULE TrainingStore ----------------------------
(* The training samples of training.go: an image file and a row each, written *)
(* under trainMu, and those who remove them without it: the retention pruner, *)
(* the orphan prune of every start of the server (server.go New), and         *)
(* training_cleanup_noise (priors.go).                                        *)
EXTENDS Integers, FiniteSets

CONSTANTS MaxSamples, MaxDay, MaxBoots, MaxFaults,
          Retentions,               \* the retention_days set_config may ask for
          Labels,                   \* whether callers name a category or a task
          Batch                     \* how many rows one query of old rows returns

ASSUME RetentionAssumption == Retentions \subseteq Nat /\ 0 \in Retentions /\ Labels \subseteq BOOLEAN
ASSUME StoreBounds ==
  /\ MaxSamples \in Nat /\ MaxDay \in Nat /\ MaxBoots \in Nat /\ MaxFaults \in Nat
  /\ Batch \in Nat \ {0}

VARIABLES sample,                   \* id -> its image file and its row
          saving,                   \* the sample whose save is in progress, 0 if none
          pruner,                   \* who -> how far its round is
          retention, ticking,       \* retention_days; the pruner's goroutine runs
          day, boots, faults

trainVars == <<sample, saving, pruner, retention, ticking, day, boots, faults>>

Ids == 1..MaxSamples
Pruners == {"ticker", "startup", "noise"}
NoSample == [file |-> "none", row |-> "none", born |-> 0, signal |-> 0]
Rest == [at |-> "idle", look |-> {}, rows |-> {}]
Rows == {s \in Ids : sample[s].row = "there"}
UsedIds == {s \in Ids : sample[s] # NoSample}

(* Elements were detected; the caller named a category or a task.             *)
SignalLevel(found, labelled) ==
  IF ~found THEN 0 ELSE IF labelled THEN 2 ELSE 1

-----------------------------------------------------------------------------
(* saveTrainingSampleDirect: the file first, its row after it.  trainMu       *)
(* admits one save at a time.                                                 *)
SaveImage(found, labelled) ==
  /\ saving = 0 /\ UsedIds # Ids
  /\ saving' = Cardinality(UsedIds) + 1
  /\ sample' = [sample EXCEPT ![saving'] =
       [file |-> "there", row |-> "none", born |-> day, signal |-> SignalLevel(found, labelled)]]
  /\ UNCHANGED <<pruner, retention, ticking, day, boots, faults>>

InsertRow ==
  /\ saving # 0
  /\ sample' = [sample EXCEPT ![saving].row = "there"]
  /\ saving' = 0
  /\ UNCHANGED <<pruner, retention, ticking, day, boots, faults>>

(* The database is busy with a statement of a pruner: the save ends with an   *)
(* error and its file stays.                                                  *)
InsertFails ==
  /\ saving # 0 /\ faults < MaxFaults
  /\ saving' = 0
  /\ faults' = faults + 1
  /\ UNCHANGED <<sample, pruner, retention, ticking, day, boots>>

-----------------------------------------------------------------------------
(* created_at holds a T where SQLite's datetime has a blank, so that times    *)
(* of one day compare as later: a row is old from the following day on.       *)
\* Mutant: a day is enough.
TooOldSoon(s) == day - sample[s].born >= retention
TooOld(s) == day - sample[s].born > retention

Batches(due) == {b \in SUBSET due : Cardinality(b) =
                   IF Cardinality(due) < Batch THEN Cardinality(due) ELSE Batch}
Begins(p, at, look, rows) == pruner' = [pruner EXCEPT ![p] = [at |-> at, look |-> look, rows |-> rows]]

(* PruneOldSamples: nothing to do without a retention; otherwise files, then  *)
(* rows.                                                                      *)
TickPrune ==
  /\ ticking /\ pruner["ticker"] = Rest /\ retention > 0
  /\ \E b \in Batches({s \in Rows : TooOld(s)}) : Begins("ticker", "files", b, b)
  /\ UNCHANGED <<sample, saving, retention, ticking, day, boots, faults>>

(* TrainingCleanupNoise takes rows without a detection; a dry run removes     *)
(* nothing and is left out.                                                   *)
CleanupNoise ==
  /\ pruner["noise"] = Rest
  /\ \E b \in Batches({s \in Rows : sample[s].signal = 0}) :
       b # {} /\ Begins("noise", "files", b, b)
  /\ UNCHANGED <<sample, saving, retention, ticking, day, boots, faults>>

RemoveFile(p) ==
  /\ pruner[p].at = "files"
  /\ \E s \in pruner[p].look :
       /\ sample' = [sample EXCEPT ![s].file = "removed"]
       /\ pruner' = [pruner EXCEPT ![p].look = @ \ {s}]
  /\ UNCHANGED <<saving, retention, ticking, day, boots, faults>>

(* A failed DELETE is ignored.                                                *)
DeleteRow(p) ==
  /\ pruner[p].look = {}
  /\ \E s \in pruner[p].rows :
       /\ pruner' = [pruner EXCEPT ![p].rows = @ \ {s}]
       /\ \/ sample' = [sample EXCEPT ![s].row = "deleted"] /\ UNCHANGED faults
          \/ faults < MaxFaults /\ faults' = faults + 1 /\ UNCHANGED sample
  /\ UNCHANGED <<saving, retention, ticking, day, boots>>

(* PruneOrphanedSamples follows, in the pruner; the other tool is done.       *)
(* (The pruner's third task, old text locations, is of another store.)        *)
RowsDeleted(p) ==
  /\ pruner[p].at = "files" /\ pruner[p].look = {} /\ pruner[p].rows = {}
  /\ IF p = "ticker" THEN Begins(p, "scan", Rows, {}) ELSE Begins(p, "idle", {}, {})
  /\ UNCHANGED <<sample, saving, retention, ticking, day, boots, faults>>

\* Mutant: a file that cannot be looked at counts as there.
MissingUnnoticed(s) == s \notin Ids
Missing(s) == sample[s].file # "there"
LookForFile(p) ==
  /\ pruner[p].at = "scan"
  /\ \E s \in pruner[p].look :
       pruner' = [pruner EXCEPT ![p].look = @ \ {s},
                                ![p].rows = IF Missing(s) THEN @ \cup {s} ELSE @]
  /\ UNCHANGED <<sample, saving, retention, ticking, day, boots, faults>>
OrphansDeleted(p) ==
  /\ pruner[p].at = "scan" /\ pruner[p].look = {} /\ pruner[p].rows = {}
  /\ Begins(p, "idle", {}, {})
  /\ UNCHANGED <<sample, saving, retention, ticking, day, boots, faults>>

-----------------------------------------------------------------------------
SetRetention(days) ==
  /\ retention # days
  /\ retention' = days
  /\ UNCHANGED <<sample, saving, pruner, ticking, day, boots, faults>>

(* The server ends anywhere (StopRetentionPruner is followed by the exit) and *)
(* starts: the pruner only with a retention, the orphan prune in any case.    *)
Reboot ==
  /\ boots < MaxBoots
  /\ boots' = boots + 1
  /\ saving' = 0
  /\ ticking' = (retention > 0)
  /\ pruner' = [p \in Pruners |-> IF p = "startup" THEN [at |-> "scan", look |-> Rows, rows |-> {}]
                                  ELSE Rest]
  /\ UNCHANGED <<sample, retention, day, faults>>

DayPasses ==
  /\ day < MaxDay
  /\ day' = day + 1
  /\ UNCHANGED <<sample, saving, pruner, retention, ticking, boots, faults>>

-----------------------------------------------------------------------------
TrainInit ==
  /\ sample = [s \in Ids |-> NoSample]
  /\ saving = 0
  /\ pruner = [p \in Pruners |-> Rest]
  /\ retention \in Retentions /\ ticking = (retention > 0)
  /\ day = 0 /\ boots = 0 /\ faults = 0

PruneStep(p) ==
  RemoveFile(p) \/ DeleteRow(p) \/ RowsDeleted(p) \/ LookForFile(p) \/ OrphansDeleted(p)

TrainNext ==
  \/ \E found \in BOOLEAN, labelled \in Labels : SaveImage(found, labelled)
  \/ InsertRow \/ InsertFails
  \/ TickPrune \/ CleanupNoise
  \/ \E p \in Pruners : PruneStep(p)
  \/ \E days \in Retentions : SetRetention(days)
  \/ Reboot \/ DayPasses

TrainSpec == TrainInit /\ [][TrainNext]_trainVars

(* The ticker ticks, and a round of it that has begun goes on.                *)
TrainFairness == WF_trainVars(TickPrune \/ PruneStep("ticker"))

-----------------------------------------------------------------------------
TrainTypeOK ==
  /\ sample \in [Ids -> [file : {"none", "there", "removed"}, row : {"none", "there", "deleted"},
                         born : 0..MaxDay, signal : 0..2]]
  /\ saving \in {0} \cup Ids
  /\ pruner \in [Pruners -> [at : {"idle", "files", "scan"},
                             look : SUBSET Ids, rows : SUBSET Ids]]
  /\ retention \in Retentions /\ ticking \in BOOLEAN
  /\ day \in 0..MaxDay /\ boots \in 0..MaxBoots /\ faults \in 0..MaxFaults

(* A sample with a detection, saved and no older than the shortest retention, *)
(* keeps its row and its file, whoever prunes meanwhile and whatever crashes. *)
Young(s) == \A days \in Retentions \ {0} : day - sample[s].born <= days
GoodSamplesStay ==
  \A s \in Ids : sample[s].row # "none" /\ sample[s].signal > 0 /\ Young(s) =>
    sample[s].row = "there" /\ sample[s].file = "there"

(* A row whose file is gone, after a crash between the two or a DELETE that   *)
(* failed, goes too, as long as the pruner is on.                             *)
Orphan(s) == sample[s].row = "there" /\ sample[s].file = "removed"
OrphansGo == <>[](ticking /\ retention > 0) => <>[](\A s \in Ids : ~Orphan(s))

(* Rows and files agree: the young ones stay together, the rest goes.         *)
SamplesFit == []GoodSamplesStay /\ OrphansGo
=============================================================================
