------------------------------ MODULE MLEngine ------------------------------
(* The transformer of ml_bridge.go: its load at start-up, agent_train,        *)
(* reset_state, the goroutine of online training, and what they leave on      *)
(* disk: model.gob, vocab.bin, and the checkpoints of ml/versioning with      *)
(* their index.  Weights are told apart by the vocabulary they were trained   *)
(* with and by their accuracy.  The tools run one at a time on the adaptive   *)
(* engine's side (e.mu is not held by Train), everything else interleaves.    *)
EXTENDS Integers, Sequences, FiniteSets

CONSTANTS Trains,           \* bound on trainings
          Resets, Rounds, Restarts,   \* bounds: reset_state, rounds of online training
          MaxUpsets,        \* bound on resets and restarts together
          MaxTrainers,      \* bound on goroutines of online training
          Recent            \* checkpoints a rollback looks at

ASSUME MLBounds ==
  /\ {Trains, Resets, Rounds, Restarts, MaxUpsets, MaxTrainers} \subseteq Nat
  /\ Recent \in Nat \ {0}

VARIABLES
  alive, died,            \* the process runs; a goroutine's panic has ended it once
  heap,                   \* models allocated: the weights of each
  model, tok, ready,      \* m.model (0: nil), the fit m.tok holds, m.ready
  trainDone, closedDone,  \* the channel in force, numbered; the closed ones
  trainer,                \* goroutines of online training
  caller,                 \* the start-up goroutine and the two tools
  files,                  \* model.gob, vocab.bin and model_versions.gob
  ckpt,                   \* model_v<id>.gob
  versions, nextID,       \* the version list in memory
  mvBusy,                 \* who holds mv.mu: nobody or one
  fits, events,           \* trainings so far; resets, rounds and restarts
  mixed,                  \* files or models of two fits may have been combined
  shared                  \* two goroutines have trained one model

mlVars == <<alive, died, heap, model, tok, ready, trainDone, closedDone, trainer, caller, files,
            ckpt, versions, nextID, mvBusy, fits, events, mixed, shared>>
countVars == <<alive, died, events>>
memVarsML == <<model, tok, ready, trainDone, closedDone>>
ckptVars == <<ckpt, versions, nextID, mvBusy>>

FitIds == 1..Trains
Weights == [fit : FitIds, acc : {0, 1}]
Gone == [gone |-> TRUE]             \* missing, or written half: it does not load
Versions == [id : 0..(Trains + Rounds), acc : {0, 1}]
TrainerIds == 1..MaxTrainers
CallerIds == {"startup", "train", "reset"}
Unborn == [at |-> "none", done |-> 0, waits |-> 0, m |-> 0, t |-> 0, acc |-> 0]
IdleCaller == [at |-> "idle", m |-> 0, t |-> 0]
Started0 == Cardinality({g \in TrainerIds : trainer[g] # Unborn})
InRound(g) == trainer[g].at \notin {"none", "born", "waiting", "ended"}

Who(c) == <<"caller", c>>
Its(g) == <<"trainer", g>>
\* Who has written model.gob and not vocab.bin yet; who stands inside a write in place.
Halfway == {Who(c) : c \in {c \in CallerIds : caller[c].at = "vocab"}}
           \cup {Its(g) : g \in {g \in TrainerIds : trainer[g].at = "vocab"}}
Indexing == {Who(c) : c \in {c \in CallerIds : caller[c].at = "index"}}
           \cup {Its(g) : g \in {g \in TrainerIds : trainer[g].at = "index"}}
Loading == \E c \in CallerIds : caller[c].at = "weights"

GoCaller(c, s) == caller' = [caller EXCEPT ![c].at = s]
GoTrainer(g, s) == trainer' = [trainer EXCEPT ![g].at = s]

-----------------------------------------------------------------------------
(* versioning.go.  SaveCheckpoint holds mv.mu: the weights (renamed into      *)
(* place, so whole), then the list, then the index (written in place).        *)
\* Mutant: the next identifier stays.
CheckpointFileSameId(who, w) ==
  /\ mvBusy = {}
  /\ mvBusy' = {who}
  /\ ckpt' = [id \in DOMAIN ckpt \cup {nextID} |-> IF id = nextID THEN w ELSE ckpt[id]]
  /\ UNCHANGED <<nextID, versions>>
CheckpointFile(who, w) ==
  /\ mvBusy = {}
  /\ mvBusy' = {who}
  /\ ckpt' = [id \in DOMAIN ckpt \cup {nextID} |-> IF id = nextID THEN w ELSE ckpt[id]]
  /\ nextID' = nextID + 1
  /\ UNCHANGED versions
CheckpointIndex(who, acc) ==
  /\ mvBusy = {who}
  /\ mvBusy' = {}
  /\ versions' = Append(versions, [id |-> nextID - 1, acc |-> acc])
  /\ files' = [files EXCEPT !.index = [list |-> versions', next |-> nextID]]
  /\ UNCHANGED <<ckpt, nextID>>

(* CheckAndRollback: the most accurate of the last few, the earliest of them  *)
(* when several are; 0 when the model is not clearly worse.                   *)
LastFew == SubSeq(versions, IF Len(versions) > Recent THEN Len(versions) - Recent + 1 ELSE 1, Len(versions))
BestRecent ==
  LET i == CHOOSE i \in DOMAIN LastFew :
             /\ \A j \in DOMAIN LastFew : LastFew[j].acc <= LastFew[i].acc
             /\ \A j \in 1..(i - 1) : LastFew[j].acc < LastFew[i].acc
  IN LastFew[i]
RollbackTo(acc) ==
  IF Len(versions) >= 2 /\ BestRecent.acc > acc THEN {BestRecent} ELSE {}

-----------------------------------------------------------------------------
(* EnsureAdaptive's goroutine: LoadModel, and Train when it fails.  Reading   *)
(* vocab.bin and reading model.gob are two steps.                             *)
LoadVocab(c) ==
  /\ caller[c].at = "load"
  /\ IF Gone \in {files.model, files.vocab}
     THEN caller' = [caller EXCEPT ![c].at = "fit"]
     ELSE caller' = [caller EXCEPT ![c].at = "weights", ![c].t = files.vocab.fit]
  /\ mixed' = (mixed \/ Halfway # {})
  /\ UNCHANGED <<heap, memVarsML, trainer, files, ckptVars, fits, shared, countVars>>

(* Weights of another vocabulary load when the sizes happen to agree.         *)
LoadWeights(c) ==
  /\ caller[c].at = "weights"
  /\ \/ /\ files.model # Gone
        /\ heap' = Append(heap, files.model)
        /\ caller' = [caller EXCEPT ![c].at = "publish", ![c].m = Len(heap')]
     \/ /\ files.model = Gone \/ files.model.fit # caller[c].t
        /\ GoCaller(c, "fit") /\ UNCHANGED heap
  /\ UNCHANGED <<memVarsML, trainer, files, ckptVars, fits, mixed, shared, countVars>>

(* Train: a new vocabulary and a new model (warm-started from model.gob or    *)
(* not, its weights change), private to the call until it is published.       *)
Fit(c) ==
  /\ caller[c].at = "fit"
  /\ \/ /\ fits < Trains
        /\ fits' = fits + 1
        /\ \E acc \in {0, 1} : heap' = Append(heap, [fit |-> fits', acc |-> acc])
        /\ caller' = [caller EXCEPT ![c] = [at |-> "model", m |-> Len(heap'), t |-> fits']]
     \/ GoCaller(c, "idle") /\ UNCHANGED <<fits, heap>>    \* fewer than five pairs
  /\ UNCHANGED <<memVarsML, trainer, files, ckptVars, mixed, shared, countVars>>

SaveModel(c) ==
  /\ caller[c].at = "model"
  /\ files' = [files EXCEPT !.model = heap[caller[c].m]]
  /\ mixed' = (mixed \/ Halfway \ {Who(c)} # {} \/ Loading)
  /\ GoCaller(c, "vocab")
  /\ UNCHANGED <<heap, memVarsML, trainer, ckptVars, fits, shared, countVars>>

SaveVocab(c) ==
  /\ caller[c].at = "vocab"
  /\ files' = [files EXCEPT !.vocab = [fit |-> caller[c].t]]
  /\ mixed' = (mixed \/ Halfway \ {Who(c)} # {} \/ Loading)
  /\ GoCaller(c, "checkpoint")
  /\ UNCHANGED <<heap, memVarsML, trainer, ckptVars, fits, shared, countVars>>

TrainCheckpoint(c) ==
  /\ caller[c].at = "checkpoint"
  /\ CheckpointFile(Who(c), heap[caller[c].m])
  /\ GoCaller(c, "index")
  /\ UNCHANGED <<heap, memVarsML, trainer, files, fits, mixed, shared, countVars>>
TrainIndex(c) ==
  /\ caller[c].at = "index"
  /\ CheckpointIndex(Who(c), heap[caller[c].m].acc)
  /\ GoCaller(c, "publish")
  /\ UNCHANGED <<heap, memVarsML, trainer, fits, mixed, shared, countVars>>

Publish(c) ==
  /\ caller[c].at = "publish"
  /\ model' = caller[c].m /\ tok' = caller[c].t /\ ready' = TRUE
  /\ GoCaller(c, "start")
  /\ UNCHANGED <<heap, trainDone, closedDone, trainer, files, ckptVars, fits, mixed, shared, countVars>>

(* StartOnlineTraining: an open channel reads as a goroutine that runs, also  *)
(* the one the constructor makes.                                             *)
StartCheck(c) ==
  /\ caller[c].at = "start"
  /\ GoCaller(c, IF ready /\ trainDone \in closedDone THEN "make" ELSE "idle")
  /\ UNCHANGED <<heap, memVarsML, trainer, files, ckptVars, fits, mixed, shared, countVars>>
StartMake(c) ==
  /\ caller[c].at = "make" /\ Started0 < MaxTrainers
  /\ trainDone' = trainDone + 1
  /\ trainer' = [trainer EXCEPT ![Started0 + 1].at = "born"]
  /\ GoCaller(c, "idle")
  /\ UNCHANGED <<heap, model, tok, ready, closedDone, files, ckptVars, fits, mixed, shared, countVars>>

AgentTrain ==
  /\ caller["train"].at = "idle" /\ fits < Trains
  /\ GoCaller("train", "fit")
  /\ UNCHANGED <<heap, memVarsML, trainer, files, ckptVars, fits, mixed, shared, countVars>>

(* reset_state.  A second close of one channel panics in the tool, where it   *)
(* is recovered: the model stays in force.                                    *)
ResetStop ==
  /\ caller["reset"].at = "idle" /\ events.resets < Resets /\ events.resets + events.restarts < MaxUpsets
  /\ events' = [events EXCEPT !.resets = @ + 1]
  /\ IF trainDone \in closedDone
     THEN UNCHANGED <<closedDone, caller>>
     ELSE closedDone' = closedDone \cup {trainDone} /\ GoCaller("reset", "clear")
  /\ UNCHANGED <<alive, died, heap, model, tok, ready, trainDone, trainer, files, ckptVars, fits,
                 mixed, shared>>
ResetClear ==
  /\ caller["reset"].at = "clear"
  /\ model' = 0 /\ ready' = FALSE
  /\ GoCaller("reset", "idle")
  /\ UNCHANGED <<heap, tok, trainDone, closedDone, trainer, files, ckptVars, fits, mixed, shared, countVars>>

-----------------------------------------------------------------------------
(* The goroutine of online training.  Its deferred close is of the channel    *)
(* it finds when it begins; each select waits on the one in force then.       *)
TrainerBegins(g) ==
  /\ trainer[g].at = "born"
  /\ trainer' = [trainer EXCEPT ![g].at = "waiting", ![g].done = trainDone, ![g].waits = trainDone]
  /\ UNCHANGED <<heap, memVarsML, caller, files, ckptVars, fits, mixed, shared, countVars>>

(* The channel it was told to stop by is closed: it returns and closes its    *)
(* own, mostly the same one, and that panics.                                 *)
TrainerEnds(g) ==
  /\ trainer[g].at = "waiting" /\ trainer[g].waits \in closedDone
  /\ GoTrainer(g, "ended")
  /\ IF trainer[g].done \in closedDone
     THEN alive' = FALSE /\ died' = TRUE /\ UNCHANGED closedDone
     ELSE closedDone' = closedDone \cup {trainer[g].done} /\ UNCHANGED <<alive, died>>
  /\ UNCHANGED <<heap, model, tok, ready, trainDone, caller, files, ckptVars, fits,
                 events, mixed, shared>>

(* trainFromBuffer, once the buffer holds enough: model and vocabulary are    *)
(* read together, and then used without the lock.                             *)
RoundBegins(g) ==
  /\ trainer[g].at = "waiting" /\ events.rounds < Rounds
  /\ ready /\ model # 0 /\ tok # 0
  /\ events' = [events EXCEPT !.rounds = @ + 1]
  /\ trainer' = [trainer EXCEPT ![g].at = "train", ![g].m = model, ![g].t = tok]
  /\ shared' = (shared \/ \E h \in TrainerIds \ {g} : InRound(h) /\ trainer[h].m = model)
  /\ UNCHANGED <<alive, died, heap, memVarsML, caller, files, ckptVars, fits, mixed>>

\* Mutant: the vocabulary is fitted again to the experiences.
TrainModelRefit(g) ==
  /\ trainer[g].at = "train"
  /\ tok' = fits + 1 /\ fits' = fits + 1
  /\ \E acc \in {0, 1} :
       /\ heap' = [heap EXCEPT ![trainer[g].m].acc = acc]
       /\ trainer' = [trainer EXCEPT ![g].at = "checkpoint", ![g].acc = acc]
  /\ UNCHANGED <<model, ready, trainDone, closedDone, caller, files, ckptVars, mixed, shared, countVars>>
TrainModel(g) ==
  /\ trainer[g].at = "train"
  /\ \E acc \in {0, 1} :
       /\ heap' = [heap EXCEPT ![trainer[g].m].acc = acc]
       /\ trainer' = [trainer EXCEPT ![g].at = "checkpoint", ![g].acc = acc]
  /\ UNCHANGED <<memVarsML, caller, files, ckptVars, fits, mixed, shared, countVars>>

RoundCheckpoint(g) ==
  /\ trainer[g].at = "checkpoint"
  /\ CheckpointFile(Its(g), heap[trainer[g].m])
  /\ GoTrainer(g, "index")
  /\ UNCHANGED <<heap, memVarsML, caller, files, fits, mixed, shared, countVars>>
RoundIndex(g) ==
  /\ trainer[g].at = "index"
  /\ CheckpointIndex(Its(g), trainer[g].acc)
  /\ GoTrainer(g, "rollback")
  /\ UNCHANGED <<heap, memVarsML, caller, fits, mixed, shared, countVars>>

(* The checkpoint may be of an earlier fit than the vocabulary in force.      *)
RoundRollback(g) ==
  /\ trainer[g].at = "rollback" /\ mvBusy = {}
  /\ GoTrainer(g, "model")
  /\ \/ \E v \in RollbackTo(trainer[g].acc) :
          /\ heap' = [heap EXCEPT ![trainer[g].m] = ckpt[v.id]]
          /\ mixed' = (mixed \/ ckpt[v.id].fit # heap[trainer[g].m].fit)
     \/ /\ \A v \in RollbackTo(trainer[g].acc) : ckpt[v.id].fit # heap[trainer[g].m].fit
        /\ UNCHANGED <<heap, mixed>>
  /\ UNCHANGED <<memVarsML, caller, files, ckptVars, fits, shared, countVars>>

RoundSaveModel(g) ==
  /\ trainer[g].at = "model"
  /\ files' = [files EXCEPT !.model = heap[trainer[g].m]]
  /\ mixed' = (mixed \/ Halfway \ {Its(g)} # {} \/ Loading)
  /\ GoTrainer(g, "vocab")
  /\ UNCHANGED <<heap, memVarsML, caller, ckptVars, fits, shared, countVars>>
RoundSaveVocab(g) ==
  /\ trainer[g].at = "vocab"
  /\ files' = [files EXCEPT !.vocab = [fit |-> trainer[g].t]]
  /\ mixed' = (mixed \/ Halfway \ {Its(g)} # {} \/ Loading)
  /\ trainer' = [trainer EXCEPT ![g].at = "waiting", ![g].waits = trainDone]
  /\ UNCHANGED <<heap, memVarsML, caller, ckptVars, fits, shared, countVars>>

-----------------------------------------------------------------------------
(* The process ends, by a panic or from outside, and is started again: the    *)
(* constructor reads the index, and the start-up goroutine begins.            *)
Restart ==
  /\ events.restarts < Restarts /\ events.resets + events.restarts < MaxUpsets
  /\ events' = [events EXCEPT !.restarts = @ + 1]
  /\ \E tornVocab, tornIndex \in BOOLEAN :
       /\ tornVocab => Halfway # {}
       /\ tornIndex => Indexing # {}
       /\ files' = [files EXCEPT !.vocab = IF tornVocab THEN Gone ELSE @,
                                !.index = IF tornIndex THEN Gone ELSE @]
  /\ versions' = IF files'.index = Gone THEN <<>> ELSE files'.index.list
  /\ nextID' = IF files'.index = Gone THEN 0 ELSE files'.index.next
  /\ mixed' = (mixed \/ Halfway # {})
  /\ alive' = TRUE
  /\ heap' = <<>> /\ model' = 0 /\ tok' = 0 /\ ready' = FALSE
  /\ trainDone' = trainDone + 1
  /\ mvBusy' = {}
  /\ trainer' = [g \in TrainerIds |-> IF trainer[g] = Unborn THEN Unborn ELSE [Unborn EXCEPT !.at = "ended"]]
  /\ caller' = [c \in CallerIds |-> IF c = "startup" THEN [IdleCaller EXCEPT !.at = "load"] ELSE IdleCaller]
  /\ UNCHANGED <<died, closedDone, ckpt, fits, shared>>

MLInit ==
  /\ alive = TRUE /\ died = FALSE
  /\ heap = <<>> /\ model = 0 /\ tok = 0 /\ ready = FALSE
  /\ trainDone = 0 /\ closedDone = {}
  /\ trainer = [g \in TrainerIds |-> Unborn]
  /\ caller = [c \in CallerIds |-> IF c = "startup" THEN [IdleCaller EXCEPT !.at = "load"] ELSE IdleCaller]
  /\ files = [model |-> Gone, vocab |-> Gone, index |-> Gone]
  /\ ckpt = <<>> /\ versions = <<>> /\ nextID = 0 /\ mvBusy = {}
  /\ fits = 0 /\ events = [resets |-> 0, rounds |-> 0, restarts |-> 0]
  /\ mixed = FALSE /\ shared = FALSE

CallerStep(c) ==
  alive /\ ( \/ LoadVocab(c) \/ LoadWeights(c) \/ Fit(c) \/ SaveModel(c) \/ SaveVocab(c)
            \/ TrainCheckpoint(c) \/ TrainIndex(c) \/ Publish(c) \/ StartCheck(c) \/ StartMake(c))
TrainerStep(g) ==
  alive /\ ( \/ TrainerBegins(g) \/ TrainerEnds(g) \/ RoundBegins(g) \/ TrainModel(g)
            \/ RoundCheckpoint(g) \/ RoundIndex(g) \/ RoundRollback(g)
            \/ RoundSaveModel(g) \/ RoundSaveVocab(g))
MLNext ==
  \/ \E c \in CallerIds : CallerStep(c)
  \/ \E g \in TrainerIds : TrainerStep(g)
  \/ alive /\ (AgentTrain \/ ResetStop \/ ResetClear)
  \/ Restart
MLSpec == MLInit /\ [][MLNext]_mlVars

-----------------------------------------------------------------------------
MLTypeOK ==
  /\ alive \in BOOLEAN /\ died \in BOOLEAN /\ ready \in BOOLEAN
  /\ mixed \in BOOLEAN /\ shared \in BOOLEAN
  /\ heap \in Seq(Weights) /\ model \in 0..Len(heap) /\ tok \in {0} \cup FitIds
  /\ trainDone \in Nat /\ closedDone \subseteq 0..trainDone
  /\ \A g \in TrainerIds : InRound(g) => trainer[g].m \in DOMAIN heap
  /\ \A c \in CallerIds : caller[c].at \in {"model", "checkpoint", "publish"} => caller[c].m \in DOMAIN heap
  /\ files.model \in Weights \cup {Gone}
  /\ versions \in Seq(Versions) /\ nextID \in Nat /\ Cardinality(mvBusy) <= 1

(* Every checkpoint listed, in memory or in the index on disk, has its file,  *)
(* with weights as accurate as the list says, so that a rollback restores     *)
(* what it names; crashes in any step included.                               *)
Listed == {versions[i] : i \in DOMAIN versions}
          \cup (IF files.index = Gone THEN {} ELSE {files.index.list[i] : i \in DOMAIN files.index.list})
CheckpointsHold ==
  \A v \in Listed : v.id \in DOMAIN ckpt /\ (~shared => ckpt[v.id].acc = v.acc)

(* Weights and vocabulary of the model in force, and of the files, are of one *)
(* fit.  The ways in which they may part are those noted in mixed: a crash    *)
(* between the two writes, two writers or a writer and the load at once, a    *)
(* rollback to a checkpoint from before the last agent_train.                 *)
OneFit ==
  ~mixed => /\ ready => heap[model].fit = tok
            /\ Halfway = {} /\ Gone \notin {files.model, files.vocab} =>
                 files.model.fit = files.vocab.fit

(* What a load or a rollback would bring back fits together: both of the above. *)
EngineFilesFit == CheckpointsHold /\ OneFit

(* "Safe to call multiple times", "use between heavy batch operations": no    *)
(* order of trainings and resets ends the process.                            *)
NoTrainerPanic == ~died
=============================================================================
