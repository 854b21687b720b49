------------------------------- MODULE MCLive -------------------------------
(* The abort hotkey, the chain executor and the training store in one run.    *)
(* They share no state, so each behaviour exercises one of them and leaves    *)
(* the others where they began, where their fairness asks for no step: no     *)
(* call is under way, the hotkey is disabled, and nothing is to be pruned.    *)
EXTENDS MCChainExec, AbortPoller, TrainingStore

VARIABLE active
liveVars == <<active, vars, abortVars, trainVars>>
LiveInit ==
  /\ active \in {"chain", "abort", "training"}
  /\ Init
  /\ AbortInit /\ (active # "abort" => ~cfg.enabled)
  /\ TrainInit /\ (active # "training" => retention = 0)
LiveNext ==
  \/ active = "chain" /\ Next /\ UNCHANGED <<active, abortVars, trainVars>>
  \/ active = "abort" /\ AbortNext /\ UNCHANGED <<active, vars, trainVars>>
  \/ active = "training" /\ TrainNext /\ UNCHANGED <<active, vars, abortVars>>
LiveSpec ==
  /\ LiveInit /\ [][LiveNext]_liveVars
  /\ \A e \in Execs : WF_vars(CallEnds(e)) /\ WF_vars(Worker(e))
  /\ AbortFairness /\ TrainFairness

LiveTypeOK == TypeOK /\ AbortTypeOK /\ TrainTypeOK
=============================================================================
