------------------------------ MODULE Adaptive ------------------------------
(* The statistics of adaptive.go for one coordinate tool (click): which words *)
(* on the screen went with it and how often (wordToCmds), and where it went   *)
(* (coordIndex), with the aggregate over all of its uses.  Tables change      *)
(* under e.mu; a training from the log (start-up, agent_train) takes and      *)
(* releases it for every row, so that trainings, teachings and reset_state    *)
(* interleave.                                                                *)
EXTENDS Integers, Sequences, FiniteSets, SequencesExt

CONSTANTS Words,           \* words of more than two letters
          Contexts,        \* texts: sequences of words, a word may occur twice
          Places,          \* where the tool went (x; never 0 with y = 0)
          Enough,          \* samples a prediction needs (3)
          TopRows,         \* sequences that are kept (100)
          MaxUses          \* bound on uses of the tool and teachings

ASSUME AdaptiveAssumption ==
  /\ Contexts \subseteq Seq(Words) /\ Places \subseteq Int \ {0}
  /\ {Enough, TopRows, MaxUses} \subseteq Nat /\ Enough > 0

VARIABLES
  coordIndex,       \* word, or Learned -> sum of places, samples, successes
  wordToCmds,       \* word -> successes and failures
  sequences,        \* the most frequent pairs of word and tool
  totalCmds,        \* rows counted by the training
  pairRows,         \* training_pairs
  training,         \* "startup", "agent_train" -> rows still to do
  uses, taught,     \* uses of the tool; those that were teachings of ml_teach
  together          \* two trainings have overlapped

adaptVars == <<coordIndex, wordToCmds, sequences, totalCmds, pairRows, training, uses, taught, together>>

Learned == "__learned__"
Trainers == {"startup", "agent_train"}
Nothing == [sum |-> 0, count |-> 0, success |-> 0]
Blank == [w \in Words \cup {Learned} |-> Nothing]
NoWords == [w \in Words |-> [success |-> 0, fail |-> 0]]
OneIf(b) == IF b THEN 1 ELSE 0

-----------------------------------------------------------------------------
(* tokenize keeps every occurrence, uniqueTokens the first.                   *)
Times(w, ctx) == Cardinality({i \in DOMAIN ctx : ctx[i] = w})
Once(w, ctx) == OneIf(\E i \in DOMAIN ctx : ctx[i] = w)

Add(s, n, x, ok) == [sum |-> s.sum + n * x, count |-> s.count + n, success |-> s.success + n * OneIf(ok)]
Tally(f, n, ok) == [success |-> f.success + n * OneIf(ok), fail |-> f.fail + n * OneIf(~ok)]

(* A row of the log, and a teaching, count once for each of their words, and  *)
(* once for the tool.                                                         *)
\* Mutant: a word counts as often as it occurs.
CountAllWords(ctx, ok) == [w \in Words |-> Tally(wordToCmds[w], Times(w, ctx), ok)]
CountWords(ctx, ok) == [w \in Words |-> Tally(wordToCmds[w], Once(w, ctx), ok)]
CountPlaces(ctx, x, ok) ==
  [w \in Words \cup {Learned} |-> Add(coordIndex[w], IF w = Learned THEN 1 ELSE Once(w, ctx), x, ok)]

-----------------------------------------------------------------------------
(* The tool is used: LearnFromCommand adds to the aggregate; LogToolCall, when *)
(* a text was read before, adds to each of its words, occurrence by            *)
(* occurrence, and logs a pair.                                                *)
LearnFromCommand(x, ok) ==
  /\ uses < MaxUses
  /\ uses' = uses + 1
  /\ coordIndex' = [coordIndex EXCEPT ![Learned] = Add(@, 1, x, ok)]
  /\ UNCHANGED <<wordToCmds, sequences, totalCmds, pairRows, training, taught, together>>

LearnFromCommandWithContext(ctx, x, ok) ==
  /\ uses < MaxUses
  /\ uses' = uses + 1
  /\ coordIndex' = [w \in Words \cup {Learned} |->
       IF w = Learned THEN coordIndex[w] ELSE Add(coordIndex[w], Times(w, ctx), x, ok)]
  /\ pairRows' = Append(pairRows, [ctx |-> ctx, x |-> x, ok |-> ok])
  /\ UNCHANGED <<wordToCmds, sequences, totalCmds, training, taught, together>>

MLTeach(ctx, x, ok) ==
  /\ uses < MaxUses
  /\ uses' = uses + 1 /\ taught' = taught + 1
  /\ wordToCmds' = CountWords(ctx, ok)
  /\ coordIndex' = CountPlaces(ctx, x, ok)
  /\ UNCHANGED <<sequences, totalCmds, pairRows, training, together>>

-----------------------------------------------------------------------------
(* TrainFromDatalog: the rows are read first, then the tables are emptied,    *)
(* then the rows counted one by one, newest first, then the sequences built.  *)
TrainQuery(t) ==
  /\ training[t].at = "idle"
  /\ training' = [training EXCEPT ![t] = [at |-> "clear", todo |-> Reverse(pairRows)]]
  /\ together' = (together \/ \E u \in Trainers \ {t} : training[u].at # "idle")
  /\ UNCHANGED <<coordIndex, wordToCmds, sequences, totalCmds, pairRows, uses, taught>>

TrainClear(t) ==
  /\ training[t].at = "clear"
  /\ training' = [training EXCEPT ![t].at = "rows"]
  /\ coordIndex' = Blank /\ wordToCmds' = NoWords /\ sequences' = {} /\ totalCmds' = 0
  /\ UNCHANGED <<pairRows, uses, taught, together>>

TrainRow(t) ==
  /\ training[t].at = "rows" /\ training[t].todo # <<>>
  /\ LET r == Head(training[t].todo) IN
       /\ wordToCmds' = CountWords(r.ctx, r.ok)
       /\ coordIndex' = CountPlaces(r.ctx, r.x, r.ok)
  /\ totalCmds' = totalCmds + 1
  /\ training' = [training EXCEPT ![t].todo = Tail(@)]
  /\ UNCHANGED <<sequences, pairRows, uses, taught, together>>

(* rebuildSequences: every word with its counts, the most frequent kept.      *)
Seen == {[word |-> w, count |-> wordToCmds[w].success + wordToCmds[w].fail, success |-> wordToCmds[w].success]
         : w \in {w \in Words : wordToCmds[w] # [success |-> 0, fail |-> 0]}}
MostFrequent(all) ==
  {top \in SUBSET all : /\ Cardinality(top) = IF Cardinality(all) < TopRows THEN Cardinality(all) ELSE TopRows
                        /\ \A s \in top, r \in all \ top : s.count >= r.count}
RebuildSequences(t) ==
  /\ training[t].at = "rows" /\ training[t].todo = <<>>
  /\ sequences' \in MostFrequent(Seen)
  /\ training' = [training EXCEPT ![t].at = "idle"]
  /\ UNCHANGED <<coordIndex, wordToCmds, totalCmds, pairRows, uses, taught, together>>

(* reset_state empties the tables and leaves the log.                         *)
ResetAdaptive ==
  /\ coordIndex # Blank \/ wordToCmds # NoWords
  /\ coordIndex' = Blank /\ wordToCmds' = NoWords /\ sequences' = {} /\ totalCmds' = 0
  /\ UNCHANGED <<pairRows, training, uses, taught, together>>

-----------------------------------------------------------------------------
(* predictCoord: the mean place of the words on the screen, when they have    *)
(* samples enough, else that of all uses, else none.  Go divides toward zero. *)
Quotient(a, b) == IF a >= 0 THEN a \div b ELSE -((-a) \div b)
Plus(s, t) == [sum |-> s.sum + t.sum, count |-> s.count + t.count, success |-> s.success + t.success]
TokenSum(ctx) ==
  LET upTo[n \in 0..Len(ctx)] == IF n = 0 THEN Nothing ELSE Plus(upTo[n - 1], coordIndex[ctx[n]])
  IN upTo[Len(ctx)]
PredictCoord(ctx) ==
  LET t == TokenSum(ctx)
      l == coordIndex[Learned]
  IN IF t.count >= Enough THEN {[x |-> Quotient(t.sum, t.count), hits |-> t.success, of |-> t.count]}
     ELSE IF l.count >= Enough THEN {[x |-> Quotient(l.sum, l.count), hits |-> l.success, of |-> l.count]}
     ELSE {}

-----------------------------------------------------------------------------
AdaptInit ==
  /\ coordIndex = Blank /\ wordToCmds = NoWords /\ sequences = {} /\ totalCmds = 0
  /\ pairRows = <<>> /\ training = [t \in Trainers |-> [at |-> "idle", todo |-> <<>>]]
  /\ uses = 0 /\ taught = 0 /\ together = FALSE

TrainerOf(t) == TrainQuery(t) \/ TrainClear(t) \/ TrainRow(t) \/ RebuildSequences(t)
AdaptNext ==
  \/ \E x \in Places, ok \in BOOLEAN :
       \/ LearnFromCommand(x, ok)
       \/ \E ctx \in Contexts : LearnFromCommandWithContext(ctx, x, ok) \/ MLTeach(ctx, x, ok)
  \/ \E t \in Trainers : TrainerOf(t)
  \/ ResetAdaptive
AdaptSpec == AdaptInit /\ [][AdaptNext]_adaptVars

-----------------------------------------------------------------------------
AdaptTypeOK ==
  /\ \A w \in DOMAIN coordIndex : coordIndex[w].count \in Nat /\ coordIndex[w].success \in Nat
  /\ wordToCmds \in [Words -> [success : Nat, fail : Nat]] /\ totalCmds \in Nat
  /\ Cardinality(sequences) <= TopRows
  /\ \A t \in Trainers : training[t].at \in {"idle", "clear", "rows"}
  /\ taught \in 0..uses /\ uses \in 0..MaxUses /\ Len(pairRows) <= uses

(* No word goes with the tool more often than the tool was used and taught,   *)
(* and what a prediction promises lies between the places the tool went to,   *)
(* with no more successes than samples, in whatever order trainings, uses,    *)
(* teachings and resets come.                                                 *)
Between(x) == (\E p \in Places : p <= x) /\ (\E p \in Places : x <= p)
PredictionsFounded ==
  /\ \A w \in Words : wordToCmds[w].success + wordToCmds[w].fail <= totalCmds + taught
  /\ \A ctx \in Contexts : \A p \in PredictCoord(ctx) : Between(p.x) /\ p.hits <= p.of

(* The total is the number of pairs in the log, or what is counted of them so *)
(* far, unless two trainings overlapped (then pairs are counted twice).       *)
TotalIsRows == ~together => totalCmds <= Len(pairRows)

(* What the statistics say is founded on what was taught and logged.          *)
StatisticsFounded == PredictionsFounded /\ TotalIsRows
=============================================================================
