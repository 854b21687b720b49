--------------------------------- MODULE Learnt ---------------------------------
(* What is made of what was seen and done: the OCR bridge learns from the     *)
(* texts and commands it reads in the log, task_end from the commands of the  *)
(* task, the adaptive engine from the uses of the tools, and the element      *)
(* priors from the samples saved.  They share the tables and no other state.  *)
EXTENDS DataBridge, Introspection, Adaptive, Priors

(* What is made of the log of texts and commands tells what happened: the     *)
(* training pairs of the bridge, and the rows of the tasks.                   *)
LogTells == PairsAround /\ TasksTold

(* Nothing is learnt but from what was shown: the words and places of the     *)
(* statistics, and the elements of the priors.                                *)
LearntFounded == StatisticsFounded /\ PriorsFounded
=============================================================================
