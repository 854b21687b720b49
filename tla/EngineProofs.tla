---------------------------- MODULE EngineProofs ----------------------------
(***************************************************************************)
(* Proofs about what is learnt and kept of it: what task_end makes of the  *)
(* log of commands; the statistics of the adaptive engine and the element  *)
(* priors, with the sums and means in them; the transformer with its files *)
(* and checkpoints, for any number of trainings, resets, rounds of online  *)
(* training and crashes; the training samples, whoever prunes them; and    *)
(* the training pairs of the OCR bridge.                                   *)
(***************************************************************************)
EXTENDS MLEngine, TrainingStore, Learnt, FiniteSetTheorems, SequenceTheorems, WellFoundedInduction, TLAPS

-----------------------------------------------------------------------------
(* Tasks and the log of commands                                             *)

\* (What a recursive definition computes is shown by the least number for which it does not.)
LEMMA LeastNumber ==
  ASSUME NEW T \in SUBSET Nat, T # {}
  PROVE  \E n \in T : \A m \in T : n <= m
<1> DEFINE R == OpToRel(<, Nat)
<1>1. IsWellFoundedOn(R, Nat)
  BY NatLessThanWellFounded
<1>2. \A x \in Nat, y \in Nat : <<y, x>> \in R <=> y < x
  BY DEF OpToRel
<1> HIDE DEF R
<1>3. T \subseteq Nat
  OBVIOUS
<1>4. PICK n \in T : \A m \in T : ~(<<m, n>> \in R)
  BY <1>1, <1>3, WFMin, Zenon
<1>5. ASSUME NEW m \in T PROVE n <= m
  <2>1. m \in Nat /\ n \in Nat /\ ~(m < n)
    BY <1>2, <1>3, <1>4
  <2>2. QED
    BY <2>1
<1>6. QED
  BY <1>5, Zenon

\* (Counting up, from nothing to all.)
LEMMA CountUp ==
  ASSUME NEW I, NEW N \in Nat, 0 \in I, \A n \in 0..N : n \in I /\ n # N => n + 1 \in I
  PROVE  N \in I
<1> DEFINE T == {n \in 0..N : n \notin I}
<1>1. ASSUME T # {} PROVE FALSE
  <2>1. T \in SUBSET Nat
    OBVIOUS
  <2> HIDE DEF T
  <2>2. PICK k \in T : \A m \in T : k <= m
    BY <1>1, <2>1, LeastNumber
  <2>3. k \in 0..N /\ k \notin I
    BY <2>2 DEF T
  <2>4. k # 0
    BY <2>3
  <2>5. k - 1 \in 0..N /\ k - 1 \notin T /\ k - 1 # N
    BY <2>2, <2>3, <2>4
  <2>6. k - 1 \in I
    BY <2>5 DEF T
  <2>7. (k - 1) + 1 \in I
    BY <2>5, <2>6
  <2>8. (k - 1) + 1 = k
    BY <2>3
  <2>9. QED
    BY <2>3, <2>7, <2>8
<1>2. QED
  BY <1>1

Tools == {e.tool : e \in Commands}
Logged == [tool : Tools, success : {e.success : e \in Commands}, at : Nat]
InTime(e, start, end) == start <= e.at /\ e.at <= end
InTimeUpTo(log, start, end, n) == {i \in 1..n : InTime(log[i], start, end)}

\* What Within picks, command by command.
Picks(f, start, end) ==
  /\ DOMAIN f = 0..Len(commandLog) /\ f[0] = <<>>
  /\ \A n \in 1..Len(commandLog) :
       f[n] = IF InTime(commandLog[n], start, end) THEN Append(f[n - 1], commandLog[n]) ELSE f[n - 1]

LEMMA WithinPicks ==
  ASSUME NEW start, NEW end, Len(commandLog) \in Nat
  PROVE  \E f : Picks(f, start, end) /\ Within(start, end) = f[Len(commandLog)]
<1> DEFINE len == Len(commandLog)
           Next(f, n) == IF n = 0 THEN <<>>
                         ELSE IF start <= commandLog[n].at /\ commandLog[n].at <= end THEN Append(f[n - 1], commandLog[n])
                         ELSE f[n - 1]
           Fits(f, k) == f = [n \in 0..k |-> f[n]] /\ \A n \in 0..k : f[n] = Next(f, n)
<1> HIDE DEF len
<1>1. len \in Nat
  BY DEF len
<1>2. \E f : f = [n \in 0..len |-> Next(f, n)]
  <2> DEFINE T == {k \in 0..len : ~\E f : Fits(f, k)}
  <2>1. ASSUME T # {} PROVE FALSE
    <3>1. T \in SUBSET Nat
      BY <1>1
    <3> HIDE DEF T
    <3>2. PICK k \in T : \A m \in T : k <= m
      BY <2>1, <3>1, LeastNumber
    <3>3. k \in 0..len /\ ~\E f : Fits(f, k)
      BY <3>2 DEF T
    <3>4. k # 0
      <4>1. Fits([n \in 0..0 |-> <<>>], 0)
        OBVIOUS
      <4>2. QED
        BY <3>3, <4>1
    <3>5. k - 1 \in 0..len /\ k - 1 \notin T
      BY <1>1, <3>2, <3>3, <3>4
    <3>6. PICK f : Fits(f, k - 1)
      BY <3>5 DEF T
    <3> DEFINE g == [n \in 0..k |-> IF n = k THEN Next(f, k) ELSE f[n]]
    <3>7. ASSUME NEW n \in 0..k PROVE g[n] = Next(g, n)
      <4>1. CASE n = k
        <5>1. k - 1 \in 0..k /\ k - 1 # k /\ k \in 0..k
          BY <1>1, <3>3, <3>4
        <5>2. g[k - 1] = f[k - 1] /\ g[k] = Next(f, k)
          BY <5>1
        <5>3. QED
          BY <3>4, <4>1, <5>2
      <4>2. CASE n # k
        <5>1. n \in 0..k - 1 /\ (n # 0 => n - 1 \in 0..k - 1 /\ n - 1 # k)
          BY <1>1, <3>3, <4>2
        <5>2. g[n] = f[n] /\ (n # 0 => g[n - 1] = f[n - 1])
          BY <1>1, <3>3, <5>1
        <5>3. f[n] = Next(f, n)
          BY <3>6, <5>1
        <5>4. QED
          BY <4>2, <5>1, <5>2, <5>3
      <4>3. QED
        BY <4>1, <4>2
    <3>8. Fits(g, k)
      BY <3>7
    <3>9. QED
      BY <3>3, <3>8
  <2>2. PICK f : Fits(f, len)
    <3>1. len \in 0..len /\ len \notin T
      BY <1>1, <2>1
    <3>2. QED
      BY <3>1
  <2>3. f = [n \in 0..len |-> f[n]]
    BY <2>2, Zenon
  <2>4. [n \in 0..len |-> f[n]] = [n \in 0..len |-> Next(f, n)]
    BY <2>2
  <2>5. QED
    BY <2>3, <2>4, Zenon
<1>3. PICK f : f = [n \in 0..len |-> Next(f, n)] /\ Within(start, end) = f[len]
  <2> DEFINE c == CHOOSE g : g = [n \in 0..len |-> Next(g, n)]
  <2>1. c = [n \in 0..len |-> Next(c, n)]
    BY <1>2, Zenon
  <2>2. Within(start, end) = c[len]
    BY <1>1 DEF Within, len
  <2>3. QED
    BY <2>1, <2>2
<1>4. DOMAIN f = 0..len /\ \A n \in 0..len : f[n] = Next(f, n)
  BY <1>3
<1>5. Picks(f, start, end)
  <2>1. f[0] = <<>>
    <3>1. 0 \in 0..len
      BY <1>1
    <3>2. QED
      BY <1>4, <3>1
  <2>2. ASSUME NEW n \in 1..len
        PROVE f[n] = IF InTime(commandLog[n], start, end) THEN Append(f[n - 1], commandLog[n]) ELSE f[n - 1]
    <3>1. n \in 0..len /\ n # 0
      BY <1>1
    <3>2. f[n] = Next(f, n)
      BY <1>4, <3>1
    <3>3. QED
      BY <3>1, <3>2 DEF InTime
  <2>3. QED
    BY <1>4, <2>1, <2>2 DEF Picks, len
<1>6. QED
  BY <1>3, <1>5 DEF len

\* It is as many commands as there are in the time.
LEMMA WithinFits ==
  ASSUME commandLog \in Seq(Logged), NEW start, NEW end
  PROVE  /\ Within(start, end) \in Seq(Logged)
         /\ Len(Within(start, end)) = Cardinality(InTimeUpTo(commandLog, start, end, Len(commandLog)))
<1>len. Len(commandLog) \in Nat
  OBVIOUS
<1>1. PICK f : Picks(f, start, end) /\ Within(start, end) = f[Len(commandLog)]
  BY <1>len, WithinPicks
<1> DEFINE Of(n) == InTimeUpTo(commandLog, start, end, n)
           I == {n \in 0..Len(commandLog) : f[n] \in Seq(Logged) /\ Len(f[n]) = Cardinality(Of(n)) /\ IsFiniteSet(Of(n))}
<1>2. 0 \in I
  <2>1. Of(0) = {}
    BY DEF InTimeUpTo
  <2>2. f[0] = <<>>
    BY <1>1 DEF Picks
  <2>3. IsFiniteSet(Of(0)) /\ Cardinality(Of(0)) = 0
    BY <2>1, FS_EmptySet, Zenon
  <2>4. <<>> \in Seq(Logged) /\ Len(<<>>) = 0
    BY EmptySeq
  <2> HIDE DEF Of
  <2>5. f[0] \in Seq(Logged) /\ Len(f[0]) = 0
    BY <2>2, <2>4
  <2>6. 0 \in 0..Len(commandLog)
    BY <1>len
  <2>7. QED
    BY <2>3, <2>5, <2>6
<1>3. ASSUME NEW n \in 0..Len(commandLog), n \in I, n # Len(commandLog) PROVE n + 1 \in I
  <2>0. n + 1 \in 1..Len(commandLog) /\ (n + 1) - 1 = n /\ n \in Nat
    BY <1>len, <1>3
  <2>1. f[n + 1] = IF InTime(commandLog[n + 1], start, end) THEN Append(f[n], commandLog[n + 1]) ELSE f[n]
    <3>1. f[n + 1] = IF InTime(commandLog[n + 1], start, end) THEN Append(f[(n + 1) - 1], commandLog[n + 1]) ELSE f[(n + 1) - 1]
      BY <1>1, <2>0 DEF Picks
    <3>2. QED
      BY <2>0, <3>1
  <2>2. f[n] \in Seq(Logged) /\ Len(f[n]) = Cardinality(Of(n)) /\ IsFiniteSet(Of(n))
    BY <1>3
  <2>3. CASE InTime(commandLog[n + 1], start, end)
    <3>1. Of(n + 1) = Of(n) \cup {n + 1} /\ n + 1 \notin Of(n)
      BY <2>0, <2>3 DEF InTimeUpTo
    <3> HIDE DEF Of
    <3>2. Cardinality(Of(n + 1)) = Cardinality(Of(n)) + 1 /\ IsFiniteSet(Of(n + 1))
      BY <2>2, <3>1, FS_AddElement
    <3>3. f[n + 1] \in Seq(Logged) /\ Len(f[n + 1]) = Len(f[n]) + 1
      BY <2>0, <2>1, <2>2, <2>3
    <3>4. QED
      BY <1>len, <2>0, <2>2, <3>2, <3>3
  <2>4. CASE ~InTime(commandLog[n + 1], start, end)
    <3>1. Of(n + 1) = Of(n)
      BY <2>0, <2>4 DEF InTimeUpTo
    <3> HIDE DEF Of
    <3>2. QED
      BY <1>len, <2>0, <2>1, <2>2, <2>4, <3>1
  <2>5. QED
    BY <2>3, <2>4
<1> HIDE DEF I
<1>4. Len(commandLog) \in I
  BY <1>len, <1>2, <1>3, CountUp
<1>5. QED
  BY <1>1, <1>4 DEF I
Insights ==
  [sequence : Seq(Tools), failed : SUBSET Tools, patterns : SUBSET [tools : Seq(Tools), count : Nat]]
FailedOf(es) == {i \in DOMAIN es : ~es[i].success}

LEMMA ToolsOfFit ==
  ASSUME NEW es \in Seq(Logged)
  PROVE  /\ Len(es) \in Nat /\ DOMAIN es = 1..Len(es) /\ ToolsOf(es) \in Seq(Tools) /\ Len(ToolsOf(es)) = Len(es)
         /\ \A i \in 1..Len(es) : ToolsOf(es)[i] = es[i].tool /\ es[i].tool \in Tools
<1>1. Len(es) \in Nat /\ DOMAIN es = 1..Len(es) /\ \A i \in 1..Len(es) : es[i] \in Logged
  OBVIOUS
<1>2. \A i \in 1..Len(es) : es[i].tool \in Tools
  BY <1>1 DEF Logged
<1>3. ToolsOf(es) = [i \in 1..Len(es) |-> es[i].tool]
  BY <1>1 DEF ToolsOf
<1>4. QED
  BY <1>1, <1>2, <1>3

LEMMA FailuresTold ==
  ASSUME NEW es \in Seq(Logged)
  PROVE  /\ Cardinality(FailedOf(es)) \in Nat /\ Cardinality(FailedOf(es)) <= Len(es)
         /\ (mineTaskInsights(es).failed = {}) = (Cardinality(FailedOf(es)) = 0)
         /\ mineTaskInsights(es).failed \in SUBSET Tools
<1>1. Len(es) \in Nat /\ DOMAIN es = 1..Len(es)
  BY ToolsOfFit
<1>2. IsFiniteSet(1..Len(es)) /\ Cardinality(1..Len(es)) = Len(es)
  BY <1>1, FS_Interval
<1>3. FailedOf(es) \in SUBSET (1..Len(es))
  BY <1>1 DEF FailedOf
<1>4. IsFiniteSet(FailedOf(es)) /\ Cardinality(FailedOf(es)) <= Len(es)
  BY <1>2, <1>3, FS_Subset
<1>5. Cardinality(FailedOf(es)) \in Nat
  BY <1>4, FS_CardinalityType
<1>6. PICK failed : failed = {t \in {ToolsOf(es)[i] : i \in DOMAIN es} : FailsOf(es, t) > 0}
  OBVIOUS
<1>7. mineTaskInsights(es).failed = failed
  BY <1>6 DEF mineTaskInsights
<1>8. \A t : IsFiniteSet({i \in DOMAIN es : es[i].tool = t /\ ~es[i].success})
  <2>1. ASSUME NEW t PROVE IsFiniteSet({i \in DOMAIN es : es[i].tool = t /\ ~es[i].success})
    <3>1. PICK s : s = {i \in DOMAIN es : es[i].tool = t /\ ~es[i].success}
      OBVIOUS
    <3>2. s \in SUBSET (1..Len(es))
      BY <1>1, <3>1
    <3>3. IsFiniteSet(s)
      BY <1>2, <3>2, FS_Subset
    <3>4. QED
      BY <3>1, <3>3
  <2>2. QED
    BY <2>1
<1>9. ASSUME FailedOf(es) = {} PROVE failed = {}
  <2>1. ASSUME NEW t PROVE FailsOf(es, t) = 0
    <3>1. {i \in DOMAIN es : es[i].tool = t /\ ~es[i].success} = {}
      BY <1>9 DEF FailedOf
    <3>2. QED
      BY <3>1, FS_EmptySet DEF FailsOf
  <2>2. QED
    BY <1>6, <2>1
<1>10. ASSUME FailedOf(es) # {} PROVE failed # {}
  <2>1. PICK i \in 1..Len(es) : ~es[i].success
    BY <1>1, <1>10 DEF FailedOf
  <2>2. PICK s : s = {j \in DOMAIN es : es[j].tool = es[i].tool /\ ~es[j].success}
    OBVIOUS
  <2>3. IsFiniteSet(s) /\ s # {}
    BY <1>1, <1>8, <2>1, <2>2
  <2>4. Cardinality(s) # 0 /\ Cardinality(s) \in Nat
    BY <2>3, FS_EmptySet, FS_CardinalityType
  <2>5. FailsOf(es, es[i].tool) > 0
    BY <2>2, <2>4 DEF FailsOf
  <2>6. es[i].tool \in {ToolsOf(es)[j] : j \in DOMAIN es}
    BY <1>1, ToolsOfFit
  <2>7. QED
    BY <1>6, <2>5, <2>6
<1>11. (Cardinality(FailedOf(es)) = 0) <=> FailedOf(es) = {}
  BY <1>4, FS_EmptySet
<1>12. failed \in SUBSET Tools
  BY <1>1, <1>6, ToolsOfFit
<1>13. QED
  BY <1>4, <1>5, <1>7, <1>9, <1>10, <1>11, <1>12

\* A run of the shortest length that comes twice is named.
LEMMA PatternsTold ==
  ASSUME NEW ts \in Seq(Tools), Len(ts) >= PatternsFrom, NEW i \in 1..(Len(ts) + 1 - Shortest),
         NEW j \in 1..(Len(ts) + 1 - Shortest), i < j,
         SubSeq(ts, i, i + Shortest - 1) = SubSeq(ts, j, j + Shortest - 1)
  PROVE  \E p \in Repeated(ts) : p.tools = SubSeq(ts, i, i + Shortest - 1) /\ p.count >= 2
<1>1. Shortest \in Nat \ {0} /\ PatternsFrom \in Nat /\ Shortest \in Shortest..Longest
  BY TaskBounds
<1>2. Len(ts) \in Nat
  OBVIOUS
<1>3. PICK same : same = {k \in Runs(ts, Shortest) : SubSeq(ts, k, k + Shortest - 1) = SubSeq(ts, i, i + Shortest - 1)}
  OBVIOUS
<1>4. i \in Runs(ts, Shortest) /\ j \in Runs(ts, Shortest)
  BY <1>1, <1>2 DEF Runs
<1>5. i \in same /\ j \in same /\ i # j
  <2>1. i \in same
    BY <1>3, <1>4, Zenon
  <2>2. j \in same
    BY <1>3, <1>4, Zenon
  <2>3. QED
    BY <2>1, <2>2
<1>6. IsFiniteSet(same)
  <2>1. same \in SUBSET (1..Len(ts))
    BY <1>3 DEF Runs
  <2>2. IsFiniteSet(1..Len(ts))
    BY <1>2, FS_Interval
  <2>3. QED
    BY <2>1, <2>2, FS_Subset
<1>7. Cardinality(same) >= 2
  <2>1. PICK s : s = {i}
    OBVIOUS
  <2>2. IsFiniteSet(s) /\ Cardinality(s) = 1
    BY <2>1, FS_Singleton
  <2>3. IsFiniteSet(s \cup {j}) /\ Cardinality(s \cup {j}) = 2
    <3>1. j \notin s
      BY <1>5, <2>1
    <3>2. Cardinality(s \cup {j}) = Cardinality(s) + 1 /\ IsFiniteSet(s \cup {j})
      BY <2>2, <3>1, FS_AddElement
    <3>3. QED
      BY <2>2, <3>2
  <2>4. s \cup {j} \in SUBSET same
    BY <1>5, <2>1
  <2>5. Cardinality(s \cup {j}) <= Cardinality(same)
    BY <1>6, <2>4, FS_Subset
  <2>6. Cardinality(same) \in Nat
    BY <1>6, FS_CardinalityType
  <2>7. QED
    BY <2>3, <2>5, <2>6
<1>8. PICK p : p = [tools |-> SubSeq(ts, i, i + Shortest - 1), count |-> Cardinality(same)]
  OBVIOUS
<1>9. p \in {[tools |-> SubSeq(ts, x, x + Shortest - 1),
              count |-> Cardinality({k \in Runs(ts, Shortest) : SubSeq(ts, k, k + Shortest - 1) = SubSeq(ts, x, x + Shortest - 1)})]
               : x \in Runs(ts, Shortest)}
  BY <1>3, <1>4, <1>8
<1>10. p \in RepeatedPatterns(ts)
  <2>1. ~(Len(ts) < PatternsFrom)
    BY <1>1, <1>2
  <2>2. QED
    BY <1>1, <1>9, <2>1 DEF RepeatedPatterns
<1>11. p.tools = SubSeq(ts, i, i + Shortest - 1) /\ p.count >= 2
  BY <1>7, <1>8
<1>12. QED
  BY <1>10, <1>11 DEF Repeated

LEMMA PatternsFit ==
  ASSUME NEW ts \in Seq(Tools)
  PROVE  Repeated(ts) \in SUBSET [tools : Seq(Tools), count : Nat]
<1>1. Len(ts) \in Nat /\ Shortest \in Nat \ {0} /\ Longest \in Nat
  BY TaskBounds
<1>2. ASSUME NEW n \in Shortest..Longest, NEW x \in Runs(ts, n)
      PROVE  [tools |-> SubSeq(ts, x, x + n - 1),
              count |-> Cardinality({k \in Runs(ts, n) : SubSeq(ts, k, k + n - 1) = SubSeq(ts, x, x + n - 1)})]
               \in [tools : Seq(Tools), count : Nat]
  <2>1. x \in 1..Len(ts) /\ x + n - 1 <= Len(ts) /\ n \in Nat
    BY <1>1 DEF Runs
  <2>2. SubSeq(ts, x, x + n - 1) \in Seq(Tools)
    BY <1>1, <2>1
  <2>3. PICK same : same = {k \in Runs(ts, n) : SubSeq(ts, k, k + n - 1) = SubSeq(ts, x, x + n - 1)}
    OBVIOUS
  <2>4. same \in SUBSET (1..Len(ts)) /\ IsFiniteSet(1..Len(ts))
    BY <1>1, <2>3, FS_Interval DEF Runs
  <2>5. Cardinality(same) \in Nat
    BY <2>4, FS_Subset, FS_CardinalityType
  <2>6. QED
    BY <2>2, <2>3, <2>5
<1>3. ASSUME NEW p \in RepeatedPatterns(ts) PROVE p \in [tools : Seq(Tools), count : Nat]
  <2>1. ~(Len(ts) < PatternsFrom)
    BY <1>3 DEF RepeatedPatterns
  <2>2. PICK n \in Shortest..Longest : \E x \in Runs(ts, n) :
          p = [tools |-> SubSeq(ts, x, x + n - 1),
               count |-> Cardinality({k \in Runs(ts, n) : SubSeq(ts, k, k + n - 1) = SubSeq(ts, x, x + n - 1)})]
    BY <1>3, <2>1 DEF RepeatedPatterns
  <2>3. PICK x \in Runs(ts, n) :
          p = [tools |-> SubSeq(ts, x, x + n - 1),
               count |-> Cardinality({k \in Runs(ts, n) : SubSeq(ts, k, k + n - 1) = SubSeq(ts, x, x + n - 1)})]
    BY <2>2
  <2>4. QED
    BY <1>2, <2>3
<1>4. QED
  BY <1>3 DEF Repeated

\* What is made of a task's commands tells of them.
LEMMA InsightsTell ==
  ASSUME NEW es \in Seq(Logged)
  PROVE  /\ mineTaskInsights(es) \in Insights
         /\ mineTaskInsights(es).sequence = ToolsOf(es)
         /\ mineTaskInsights(es).patterns = Repeated(ToolsOf(es))
<1>1. ToolsOf(es) \in Seq(Tools)
  BY ToolsOfFit
<1>2. Repeated(ToolsOf(es)) \in SUBSET [tools : Seq(Tools), count : Nat]
  BY <1>1, PatternsFit
<1>3. PICK failed : failed = mineTaskInsights(es).failed
  OBVIOUS
<1>4. failed \in SUBSET Tools
  BY <1>3, FailuresTold
<1>5. mineTaskInsights(es) = [sequence |-> ToolsOf(es), failed |-> failed, patterns |-> Repeated(ToolsOf(es))]
  BY <1>3 DEF mineTaskInsights
<1>6. QED
  BY <1>1, <1>2, <1>4, <1>5 DEF Insights

TaskRows ==
  [start : Nat, end : Nat, from : Nat, to : Nat, steps : Nat, failures : Nat, insights : Insights, ends : Nat]
TaskStates == [active : BOOLEAN, id : Nat, start : Nat, from : Nat]
DoingStates == [at : {"idle", "insert", "mine"}, was : TaskStates, end : Nat, to : Nat]
TaskTypes ==
  /\ task \in TaskStates /\ taskLog \in Seq(TaskRows) /\ commandLog \in Seq(Logged)
  /\ doing \in [TaskCallers -> DoingStates]
  /\ second \in Nat /\ taskFaults \in Nat /\ misled \in BOOLEAN
\* A task's commands are those logged from its first on, not before it began.
Since(t) == t.from <= Len(commandLog) /\ t.start <= second /\ \A i \in t.from + 1..Len(commandLog) : t.start <= commandLog[i].at
\* Its row is there, and open.
HasRow(t) ==
  /\ t.id \in 1..Len(taskLog) /\ taskLog[t.id].start = t.start /\ taskLog[t.id].from = t.from
  /\ taskLog[t.id].ends = 0
Asked(d) ==
  /\ d.at = "insert" => task = d.was /\ task.active /\ Since(task)
  /\ d.at = "mine" =>
       /\ HasRow(d.was) /\ Since(d.was) /\ d.was.start <= d.end /\ d.was.from <= d.to /\ d.to <= Len(commandLog)
       /\ \A i \in 1..d.to : commandLog[i].at <= d.end
       /\ ~task.active
OneTaskCall == \A c, d \in TaskCallers : InCall(c) /\ InCall(d) => c = d
UnderWay == task.active /\ (\A c \in TaskCallers : ~InCall(c)) => HasRow(task) /\ Since(task)
NotLater == \A i \in 1..Len(commandLog) : commandLog[i].at <= second
RowSound(r, log) ==
  /\ r.ends <= 1 /\ (r.ends = 0 => r.steps = 0)
  /\ Ended(r) =>
       /\ r.start <= r.end
       /\ r.to - r.from <= r.steps
       /\ r.steps <= Cardinality(InTimeUpTo(log, r.start, r.end, Len(log)))
       /\ Len(r.insights.sequence) = r.steps /\ r.failures <= r.steps
       /\ (r.insights.failed = {}) = (r.failures = 0)
       /\ r.steps >= PatternsFrom =>
            \A i, j \in 1..(r.steps + 1 - Shortest) :
              i < j /\ SubSeq(r.insights.sequence, i, i + Shortest - 1) = SubSeq(r.insights.sequence, j, j + Shortest - 1)
              => \E p \in r.insights.patterns : p.tools = SubSeq(r.insights.sequence, i, i + Shortest - 1) /\ p.count >= 2
RowsTell == \A n \in 1..Len(taskLog) : RowSound(taskLog[n], commandLog)
TaskInv ==
  /\ TaskTypes /\ NotLater
  /\ ~misled => OneTaskCall /\ UnderWay /\ (\A c \in TaskCallers : Asked(doing[c])) /\ RowsTell

LEMMA TaskInitInv == TaskInit => TaskInv
<1> SUFFICES ASSUME TaskInit PROVE TaskInv
  OBVIOUS
<1> USE DEF TaskInit, NoTask, NotDoing
<1>1. Len(<<>>) = 0
  OBVIOUS
<1>2. TaskTypes
  <2>1. task \in TaskStates
    BY DEF TaskStates
  <2>2. taskLog \in Seq(TaskRows) /\ commandLog \in Seq(Logged)
    BY EmptySeq
  <2>3. NotDoing \in DoingStates
    BY DEF DoingStates, TaskStates
  <2>4. doing \in [TaskCallers -> DoingStates]
    BY <2>3 DEF NotDoing
  <2>5. QED
    BY <2>1, <2>2, <2>4 DEF TaskTypes
<1>3. NotLater /\ RowsTell
  BY <1>1 DEF NotLater, RowsTell
<1>4. \A c \in TaskCallers : ~InCall(c)
  BY DEF InCall
<1>5. \A c \in TaskCallers : Asked(doing[c])
  BY DEF Asked
<1>6. OneTaskCall /\ UnderWay
  BY <1>4 DEF OneTaskCall, UnderWay
<1>7. QED
  BY <1>2, <1>3, <1>5, <1>6 DEF TaskInv

\* What is told of a row stays so while the log only grows.
LEMMA RowStillTells ==
  ASSUME NEW log \in Seq(Logged), NEW more \in Logged, NEW r \in TaskRows, RowSound(r, log)
  PROVE  RowSound(r, Append(log, more))
<1>1. PICK grown : grown = Append(log, more)
  OBVIOUS
<1>2. Len(log) \in Nat /\ Len(grown) = Len(log) + 1 /\ \A i \in 1..Len(log) : grown[i] = log[i]
  BY <1>1
<1>3. PICK old : old = InTimeUpTo(log, r.start, r.end, Len(log))
  OBVIOUS
<1>4. PICK new : new = InTimeUpTo(grown, r.start, r.end, Len(grown))
  OBVIOUS
<1>5. old \in SUBSET new
  BY <1>2, <1>3, <1>4 DEF InTimeUpTo, InTime
<1>6. IsFiniteSet(new)
  <2>1. new \in SUBSET (1..Len(grown)) /\ IsFiniteSet(1..Len(grown))
    BY <1>2, <1>4, FS_Interval DEF InTimeUpTo
  <2>2. QED
    BY <2>1, FS_Subset
<1>7. Cardinality(old) <= Cardinality(new) /\ Cardinality(new) \in Nat /\ IsFiniteSet(old)
  BY <1>5, <1>6, FS_Subset, FS_CardinalityType
<1>8. Cardinality(old) \in Nat /\ r.steps \in Nat
  BY <1>7, FS_CardinalityType DEF TaskRows
<1>9. Ended(r) => r.steps <= Cardinality(old)
  BY <1>3 DEF RowSound
<1>10. Ended(r) => r.steps <= Cardinality(new)
  BY <1>7, <1>8, <1>9
<1>11. RowSound(r, grown)
  BY <1>4, <1>10 DEF RowSound
<1>12. QED
  BY <1>1, <1>11

LEMMA RowsTellMeans ==
  ASSUME commandLog \in Seq(Logged), NEW r, RowSound(r, commandLog)
  PROVE  RowTells(r)
<1>1. DOMAIN commandLog = 1..Len(commandLog)
  OBVIOUS
<1>2. InTimeUpTo(commandLog, r.start, r.end, Len(commandLog))
        = {i \in DOMAIN commandLog : r.start <= commandLog[i].at /\ commandLog[i].at <= r.end}
  BY <1>1 DEF InTimeUpTo, InTime
<1>3. QED
  BY <1>2 DEF RowTells, RowSound

LEMMA TaskInvTells == TaskInv => TasksTold
<1> SUFFICES ASSUME TaskInv, ~misled PROVE TasksTold
  BY DEF TasksTold
<1>1. commandLog \in Seq(Logged) /\ DOMAIN taskLog = 1..Len(taskLog)
  BY DEF TaskInv, TaskTypes
<1>2. \A n \in DOMAIN taskLog : RowTells(taskLog[n])
  BY <1>1, RowsTellMeans DEF TaskInv, RowsTell
<1>3. task.active /\ (\A c \in TaskCallers : ~InCall(c)) =>
         taskLog[task.id].start = task.start /\ ~Ended(taskLog[task.id])
  BY DEF TaskInv, UnderWay, HasRow, Ended
<1>4. QED
  BY <1>2, <1>3 DEF TasksTold

\* A row that was not ended tells nothing yet.
LEMMA OpenRowTells ==
  ASSUME NEW r, NEW log, r.ends = 0, r.steps = 0
  PROVE  RowSound(r, log)
BY DEF RowSound, Ended

\* (Who is in a call after one of one caller.)
LEMMA OneCallEnds ==
  ASSUME TaskTypes, OneTaskCall, NEW c \in TaskCallers, InCall(c), doing' = [doing EXCEPT ![c] = NotDoing]
  PROVE  \A d \in TaskCallers : doing'[d].at = "idle"
<1>1. DOMAIN doing = TaskCallers
  BY DEF TaskTypes
<1>2. \A d \in TaskCallers : d # c => doing'[d] = doing[d] /\ doing[d].at = "idle"
  BY <1>1 DEF OneTaskCall, InCall
<1>3. doing'[c].at = "idle"
  BY <1>1 DEF NotDoing
<1>4. QED
  BY <1>2, <1>3

LEMMA NotDoingFits == NotDoing \in DoingStates /\ NotDoing.at = "idle"
BY DEF NotDoing, NoTask, DoingStates, TaskStates

\* (When nobody is in a call nobody asks for anything.)
LEMMA NobodyAsks ==
  ASSUME \A d \in TaskCallers : doing[d].at = "idle"
  PROVE  OneTaskCall /\ (\A d \in TaskCallers : Asked(doing[d])) /\ \A d \in TaskCallers : ~InCall(d)
BY DEF OneTaskCall, Asked, InCall

LEMMA TaskBeginInv == ASSUME TaskInv, NEW c \in TaskCallers, TaskBegin(c) PROVE TaskInv'
<1>1. PICK t : t = [task EXCEPT !.active = TRUE, !.start = second, !.from = Len(commandLog)]
  OBVIOUS
<1>2. PICK d : d = [NotDoing EXCEPT !.at = "insert", !.was = t]
  OBVIOUS
<1>3. task' = t /\ doing' = [doing EXCEPT ![c] = d] /\ UNCHANGED <<taskLog, commandLog, second, taskFaults>>
      /\ misled' = (misled \/ \E x \in TaskCallers : InCall(x))
  BY <1>1, <1>2 DEF TaskBegin
<1>types. TaskTypes /\ Len(commandLog) \in Nat
  BY DEF TaskInv, TaskTypes
<1>4. t \in TaskStates /\ t.active /\ t.start = second /\ t.from = Len(commandLog)
  BY <1>1, <1>types DEF TaskTypes, TaskStates
<1>5. d \in DoingStates /\ d.at = "insert" /\ d.was = t
  BY <1>2, <1>4, NotDoingFits DEF NotDoing, DoingStates
<1>6. TaskTypes'
  BY <1>3, <1>4, <1>5, <1>types DEF TaskTypes
<1>7. NotLater'
  BY <1>3 DEF TaskInv, NotLater
<1>8. ASSUME ~misled' PROVE OneTaskCall' /\ UnderWay' /\ (\A x \in TaskCallers : Asked(doing[x])') /\ RowsTell'
  <2>1. ~misled /\ \A x \in TaskCallers : doing[x].at = "idle"
    BY <1>3, <1>8 DEF InCall
  <2>2. doing'[c] = d /\ \A x \in TaskCallers : x # c => doing'[x].at = "idle"
    BY <1>3, <1>types, <2>1 DEF TaskTypes
  <2>3. InCall(c)'
    BY <1>5, <2>2 DEF InCall
  <2>4. OneTaskCall' /\ UnderWay'
    BY <2>2, <2>3 DEF OneTaskCall, UnderWay, InCall
  <2>5. Since(task)'
    <3>1. commandLog' = commandLog /\ second' = second /\ task'.from = Len(commandLog) /\ task'.start = second
      BY <1>3, <1>4
    <3>2. \A i \in Len(commandLog) + 1..Len(commandLog) : FALSE
      BY <1>types
    <3>3. second <= second /\ Len(commandLog) <= Len(commandLog)
      BY <1>types DEF TaskTypes
    <3>4. QED
      BY <3>1, <3>2, <3>3 DEF Since
  <2>6. \A x \in TaskCallers : Asked(doing[x])'
    BY <1>3, <1>4, <1>5, <2>2, <2>5 DEF Asked
  <2>7. RowsTell'
    BY <1>3, <2>1 DEF RowsTell, TaskInv
  <2>8. QED
    BY <2>4, <2>6, <2>7
<1>9. QED
  BY <1>6, <1>7, <1>8 DEF TaskInv

LEMMA NoInsightsFit == NoInsights \in Insights
<1>1. <<>> \in Seq(Tools)
  BY EmptySeq
<1>2. QED
  BY <1>1 DEF NoInsights, Insights

LEMMA InsertTaskInv == ASSUME TaskInv, NEW c \in TaskCallers, InsertTask(c) PROVE TaskInv'
<1>types. TaskTypes /\ Len(taskLog) \in Nat /\ DOMAIN doing = TaskCallers /\ doing[c] \in DoingStates
  BY DEF TaskInv, TaskTypes
<1>1. PICK r : r = [start |-> task.start, end |-> 0, from |-> doing[c].was.from, to |-> 0,
                    steps |-> 0, failures |-> 0, insights |-> NoInsights, ends |-> 0]
  OBVIOUS
<1>2. r.start = task.start /\ r.from = doing[c].was.from /\ r.ends = 0 /\ r.steps = 0
  BY <1>1
<1>3. r \in TaskRows
  <2>1. task.start \in Nat /\ doing[c].was.from \in Nat
    BY <1>types DEF TaskTypes, TaskStates, DoingStates
  <2>2. QED
    BY <1>1, <2>1, NoInsightsFit DEF TaskRows
<1>4. taskLog' = Append(taskLog, r) /\ task' = [task EXCEPT !.id = Len(taskLog')]
      /\ doing' = [doing EXCEPT ![c] = NotDoing] /\ doing[c].at = "insert"
      /\ UNCHANGED <<commandLog, second, taskFaults, misled>>
  BY <1>1 DEF InsertTask
<1>5. taskLog' \in Seq(TaskRows) /\ Len(taskLog') = Len(taskLog) + 1 /\ taskLog'[Len(taskLog) + 1] = r
      /\ \A n \in 1..Len(taskLog) : taskLog'[n] = taskLog[n]
  BY <1>3, <1>4, <1>types DEF TaskTypes
<1>6. task' \in TaskStates /\ task'.id = Len(taskLog) + 1 /\ task'.start = task.start /\ task'.from = task.from
  BY <1>4, <1>5, <1>types DEF TaskTypes, TaskStates
<1>7. TaskTypes'
  <2>1. doing' \in [TaskCallers -> DoingStates]
    BY <1>4, <1>types, NotDoingFits DEF TaskTypes
  <2>2. QED
    BY <1>4, <1>5, <1>6, <1>types, <2>1 DEF TaskTypes
<1>8. NotLater'
  BY <1>4 DEF TaskInv, NotLater
<1>9. ASSUME ~misled' PROVE OneTaskCall' /\ UnderWay' /\ (\A x \in TaskCallers : Asked(doing[x])') /\ RowsTell'
  <2>1. ~misled /\ OneTaskCall /\ RowsTell /\ Asked(doing[c])
    BY <1>4, <1>9 DEF TaskInv
  <2>2. \A x \in TaskCallers : doing'[x].at = "idle"
    <3>1. InCall(c)
      BY <1>4 DEF InCall
    <3>2. QED
      BY <1>4, <1>types, <2>1, <3>1, OneCallEnds
  <2>3. OneTaskCall' /\ \A x \in TaskCallers : Asked(doing[x])'
    BY <2>2 DEF OneTaskCall, Asked, InCall
  <2>4. task = doing[c].was /\ Since(task)
    BY <1>4, <2>1 DEF Asked
  <2>5. Since(task)'
    BY <1>4, <1>6, <2>4 DEF Since
  <2>6. HasRow(task)'
    BY <1>2, <1>5, <1>6, <1>types, <2>4 DEF HasRow
  <2>7. ASSUME NEW n \in 1..Len(taskLog') PROVE RowSound(taskLog'[n], commandLog')
    <3>1. commandLog' = commandLog
      BY <1>4
    <3>2. CASE n = Len(taskLog) + 1
      BY <1>2, <1>5, <3>2, OpenRowTells
    <3>3. CASE n # Len(taskLog) + 1
      <4>1. n \in 1..Len(taskLog)
        BY <1>5, <1>types, <3>3
      <4>2. RowSound(taskLog[n], commandLog)
        BY <2>1, <4>1 DEF RowsTell
      <4>3. QED
        BY <1>5, <3>1, <4>1, <4>2
    <3>4. QED
      BY <3>2, <3>3
  <2>8. RowsTell'
    BY <2>7 DEF RowsTell
  <2>9. QED
    BY <2>3, <2>5, <2>6, <2>8 DEF UnderWay
<1>10. QED
  BY <1>7, <1>8, <1>9 DEF TaskInv

LEMMA TaskFailsInv ==
  ASSUME TaskInv, NEW c \in TaskCallers, InsertTaskFails(c) \/ UpdateTaskFails(c) PROVE TaskInv'
<1>1. misled' = TRUE /\ doing' = [doing EXCEPT ![c] = NotDoing] /\ taskFaults' = taskFaults + 1
      /\ UNCHANGED <<task, taskLog, commandLog, second>>
  BY DEF InsertTaskFails, UpdateTaskFails
<1>2. TaskTypes
  BY DEF TaskInv
<1>3. doing' \in [TaskCallers -> DoingStates]
  BY <1>1, <1>2, NotDoingFits DEF TaskTypes
<1>4. TaskTypes'
  BY <1>1, <1>2, <1>3 DEF TaskTypes
<1>5. NotLater'
  BY <1>1 DEF TaskInv, NotLater
<1>6. QED
  BY <1>1, <1>4, <1>5 DEF TaskInv

LEMMA TaskEndInv == ASSUME TaskInv, NEW c \in TaskCallers, TaskEnd(c) PROVE TaskInv'
<1>1. PICK t : t = [task EXCEPT !.active = FALSE]
  OBVIOUS
<1>2. PICK d : d = [at |-> "mine", was |-> task, end |-> second, to |-> Len(commandLog)]
  OBVIOUS
<1>3. task' = t /\ doing' = [doing EXCEPT ![c] = d] /\ UNCHANGED <<taskLog, commandLog, second, taskFaults>>
      /\ misled' = (misled \/ \E x \in TaskCallers : InCall(x)) /\ task.active
  BY <1>1, <1>2 DEF TaskEnd
<1>types. TaskTypes /\ Len(commandLog) \in Nat
  BY DEF TaskInv, TaskTypes
<1>4. t \in TaskStates /\ ~t.active
  BY <1>1, <1>types DEF TaskTypes, TaskStates
<1>5. d \in DoingStates /\ d.at = "mine" /\ d.was = task /\ d.end = second /\ d.to = Len(commandLog)
  BY <1>2, <1>types DEF TaskTypes, DoingStates
<1>6. TaskTypes'
  BY <1>3, <1>4, <1>5, <1>types DEF TaskTypes
<1>7. NotLater'
  BY <1>3 DEF TaskInv, NotLater
<1>8. ASSUME ~misled' PROVE OneTaskCall' /\ UnderWay' /\ (\A x \in TaskCallers : Asked(doing[x])') /\ RowsTell'
  <2>1. ~misled /\ \A x \in TaskCallers : doing[x].at = "idle"
    BY <1>3, <1>8 DEF InCall
  <2>2. doing'[c] = d /\ \A x \in TaskCallers : x # c => doing'[x].at = "idle"
    BY <1>3, <1>types, <2>1 DEF TaskTypes
  <2>3. OneTaskCall' /\ UnderWay'
    BY <1>3, <1>4, <2>2 DEF OneTaskCall, UnderWay, InCall
  <2>4. HasRow(task) /\ Since(task)
    BY <1>3, <2>1 DEF TaskInv, UnderWay, InCall
  <2>5. HasRow(d.was)' /\ Since(d.was)'
    BY <1>3, <1>5, <2>4 DEF HasRow, Since
  <2>6. d.was.start <= d.end /\ d.was.from <= d.to /\ d.to <= Len(commandLog)
    BY <1>5, <1>types, <2>4 DEF Since
  <2>7. \A i \in 1..d.to : commandLog[i].at <= d.end
    BY <1>5 DEF TaskInv, NotLater
  <2>8. Asked(d)'
    BY <1>3, <1>4, <1>5, <2>5, <2>6, <2>7 DEF Asked
  <2>9. \A x \in TaskCallers : Asked(doing[x])'
    BY <2>2, <2>8 DEF Asked
  <2>10. RowsTell'
    BY <1>3, <2>1 DEF RowsTell, TaskInv
  <2>11. QED
    BY <2>3, <2>9, <2>10
<1>9. QED
  BY <1>6, <1>7, <1>8 DEF TaskInv

MinedOf(old, end, to, steps, fails, ins) ==
  [old EXCEPT !.end = end, !.to = to, !.steps = steps, !.failures = fails, !.insights = ins, !.ends = old.ends + 1]
Mined(r, old, end, to, steps, fails, ins) ==
  /\ r.start = old.start /\ r.end = end /\ r.from = old.from /\ r.to = to /\ r.steps = steps
  /\ r.failures = fails /\ r.insights = ins /\ r.ends = old.ends + 1

LEMMA MinedRow ==
  ASSUME NEW old \in TaskRows, NEW end \in Nat, NEW to \in Nat, NEW steps \in Nat, NEW fails \in Nat, NEW ins \in Insights
  PROVE  MinedOf(old, end, to, steps, fails, ins) \in TaskRows /\ Mined(MinedOf(old, end, to, steps, fails, ins), old, end, to, steps, fails, ins)
<1>1. PICK ends : ends = old.ends + 1
  OBVIOUS
<1>2. old.start \in Nat /\ old.from \in Nat /\ ends \in Nat
  BY <1>1 DEF TaskRows
<1>3. PICK r : r = [old EXCEPT !.end = end, !.to = to, !.steps = steps, !.failures = fails, !.insights = ins, !.ends = ends]
  OBVIOUS
<1>4. r = [start |-> old.start, end |-> end, from |-> old.from, to |-> to,
           steps |-> steps, failures |-> fails, insights |-> ins, ends |-> ends]
  BY <1>3 DEF TaskRows
<1>5. MinedOf(old, end, to, steps, fails, ins) = r
  BY <1>1, <1>3 DEF MinedOf
<1>6. r \in TaskRows
  BY <1>2, <1>4 DEF TaskRows
<1>7. QED
  BY <1>1, <1>4, <1>5, <1>6 DEF Mined

\* What task_end writes into its row tells of the task.
LEMMA MinedRowTells ==
  ASSUME TaskTypes, NEW r \in TaskRows, NEW es, es = Within(r.start, r.end),
         r.start <= r.end, r.from <= r.to, r.to <= Len(commandLog), r.ends = 1,
         \A i \in r.from + 1..r.to : InTime(commandLog[i], r.start, r.end),
         r.steps = Len(es), r.failures = Cardinality(FailedOf(es)), r.insights = mineTaskInsights(es)
  PROVE  RowSound(r, commandLog)
<1>1. es \in Seq(Logged) /\ Len(es) = Cardinality(InTimeUpTo(commandLog, r.start, r.end, Len(commandLog)))
  BY WithinFits DEF TaskTypes
<1>2. Len(es) \in Nat /\ ToolsOf(es) \in Seq(Tools) /\ Len(ToolsOf(es)) = Len(es)
  BY <1>1, ToolsOfFit
<1>3. PICK ins : ins = r.insights
  OBVIOUS
<1>5. r.failures \in Nat /\ r.failures <= Len(es) /\ (ins.failed = {}) = (r.failures = 0)
  BY <1>1, <1>3, FailuresTold
<1>6. ins \in Insights /\ ins.sequence = ToolsOf(es) /\ ins.patterns = Repeated(ToolsOf(es))
  BY <1>1, <1>3, InsightsTell
<1>10. Len(commandLog) \in Nat /\ r.from \in Nat /\ r.to \in Nat
  BY DEF TaskTypes, TaskRows
<1>11. r.to - r.from <= Len(es)
  <2>1. PICK s : s = InTimeUpTo(commandLog, r.start, r.end, Len(commandLog))
    OBVIOUS
  <2>2. s \in SUBSET (1..Len(commandLog))
    BY <2>1 DEF InTimeUpTo
  <2>3. IsFiniteSet(s)
    <3>1. IsFiniteSet(1..Len(commandLog))
      BY <1>10, FS_Interval
    <3>2. QED
      BY <2>2, <3>1, FS_Subset
  <2>4. PICK t : t = r.from + 1..r.to
    OBVIOUS
  <2>5. t \in SUBSET s
    BY <1>10, <2>1, <2>4 DEF InTimeUpTo
  <2>6. Cardinality(t) <= Cardinality(s)
    BY <2>3, <2>5, FS_Subset
  <2>7. Cardinality(t) = r.to - r.from
    <3>1. r.from + 1 \in Int /\ r.to \in Int
      BY <1>10
    <3>2. Cardinality(r.from + 1..r.to) = IF r.from + 1 > r.to THEN 0 ELSE r.to - (r.from + 1) + 1
      BY <3>1, FS_Interval
    <3>3. QED
      BY <1>10, <2>4, <3>2
  <2>8. QED
    BY <1>1, <2>1, <2>6, <2>7
<1>12. ASSUME Len(es) >= PatternsFrom, NEW i \in 1..(Len(es) + 1 - Shortest), NEW j \in 1..(Len(es) + 1 - Shortest), i < j,
              SubSeq(ins.sequence, i, i + Shortest - 1) = SubSeq(ins.sequence, j, j + Shortest - 1)
       PROVE  \E p \in ins.patterns : p.tools = SubSeq(ins.sequence, i, i + Shortest - 1) /\ p.count >= 2
  <2>1. PICK ts : ts = ToolsOf(es)
    OBVIOUS
  <2>2. ts \in Seq(Tools) /\ Len(ts) = Len(es) /\ ins.sequence = ts /\ ins.patterns = Repeated(ts)
    BY <1>2, <1>6, <2>1
  <2>3. Len(ts) >= PatternsFrom /\ i \in 1..(Len(ts) + 1 - Shortest) /\ j \in 1..(Len(ts) + 1 - Shortest)
    BY <1>12, <2>2
  <2>4. SubSeq(ts, i, i + Shortest - 1) = SubSeq(ts, j, j + Shortest - 1)
    BY <1>12, <2>2
  <2>5. \E p \in Repeated(ts) : p.tools = SubSeq(ts, i, i + Shortest - 1) /\ p.count >= 2
    BY <1>12, <2>2, <2>3, <2>4, PatternsTold
  <2>6. QED
    BY <2>2, <2>5
<1>13. Len(es) >= PatternsFrom =>
         \A i, j \in 1..(Len(es) + 1 - Shortest) : i < j
            /\ SubSeq(ins.sequence, i, i + Shortest - 1) = SubSeq(ins.sequence, j, j + Shortest - 1)
            => \E p \in ins.patterns : p.tools = SubSeq(ins.sequence, i, i + Shortest - 1) /\ p.count >= 2
  BY <1>12
<1>14. PICK told : told = Cardinality(InTimeUpTo(commandLog, r.start, r.end, Len(commandLog)))
  OBVIOUS
<1>15. r.steps <= told /\ Len(ins.sequence) = r.steps /\ r.to - r.from <= r.steps /\ r.failures <= r.steps
  BY <1>1, <1>2, <1>5, <1>6, <1>11, <1>14
<1>16. r.steps >= PatternsFrom =>
         \A i, j \in 1..(r.steps + 1 - Shortest) :
            i < j /\ SubSeq(r.insights.sequence, i, i + Shortest - 1) = SubSeq(r.insights.sequence, j, j + Shortest - 1)
            => \E p \in r.insights.patterns : p.tools = SubSeq(r.insights.sequence, i, i + Shortest - 1) /\ p.count >= 2
  <2>1. r.steps = Len(es) /\ r.insights = ins
    BY <1>3
  <2>2. QED
    BY <1>13, <2>1, Zenon
<1>17. r.ends <= 1 /\ r.ends # 0 /\ (r.insights.failed = {}) = (r.failures = 0) /\ Len(r.insights.sequence) = r.steps
  BY <1>3, <1>5, <1>15
<1>18. QED
  BY <1>14, <1>15, <1>16, <1>17 DEF RowSound

LEMMA UpdateTaskInv == ASSUME TaskInv, NEW c \in TaskCallers, UpdateTask(c) PROVE TaskInv'
<1>types. TaskTypes /\ Len(taskLog) \in Nat /\ DOMAIN taskLog = 1..Len(taskLog) /\ Len(commandLog) \in Nat /\ doing[c] \in DoingStates
  BY DEF TaskInv, TaskTypes
<1>1. PICK d : d = doing[c]
  OBVIOUS
<1>2. d \in DoingStates /\ d.at = "mine" /\ d.was.start \in Nat /\ d.was.from \in Nat /\ d.end \in Nat /\ d.to \in Nat /\ d.was.id \in Nat
  BY <1>1, <1>types DEF DoingStates, TaskStates, UpdateTask
<1>3. PICK es : es = Within(d.was.start, d.end)
  OBVIOUS
<1>4. PICK ins : ins = mineTaskInsights(es)
  OBVIOUS
<1>5. PICK fails : fails = Cardinality(FailedOf(es))
  OBVIOUS
<1>6. taskLog' = [n \in 1..Len(taskLog) |->
         IF n # d.was.id THEN taskLog[n] ELSE MinedOf(taskLog[n], d.end, d.to, Len(es), fails, ins)]
  BY <1>1, <1>3, <1>4, <1>5, <1>types DEF UpdateTask, FailedOf, MinedOf
<1>7. doing' = [doing EXCEPT ![c] = NotDoing] /\ UNCHANGED <<task, commandLog, second, taskFaults, misled>>
  BY DEF UpdateTask
<1>8. es \in Seq(Logged)
  BY <1>3, <1>types, WithinFits DEF TaskTypes
<1>9. Len(es) \in Nat /\ fails \in Nat /\ ins \in Insights
  BY <1>4, <1>5, <1>8, ToolsOfFit, FailuresTold, InsightsTell
<1>10. Len(taskLog') = Len(taskLog) /\ taskLog' \in Seq(TaskRows)
  <2>1. ASSUME NEW n \in 1..Len(taskLog) PROVE taskLog'[n] \in TaskRows
    <3>1. taskLog[n] \in TaskRows
      BY <1>types DEF TaskTypes
    <3>2. MinedOf(taskLog[n], d.end, d.to, Len(es), fails, ins) \in TaskRows
      BY <1>2, <1>9, <3>1, MinedRow
    <3>3. QED
      BY <1>6, <3>1, <3>2
  <2>2. DOMAIN taskLog' = 1..Len(taskLog)
    BY <1>6, <1>types
  <2>3. taskLog' = [n \in 1..Len(taskLog) |-> taskLog'[n]]
    BY <1>6, <1>types
  <2>4. QED
    BY <1>types, <2>1, <2>3
<1>11. doing' \in [TaskCallers -> DoingStates]
  BY <1>7, <1>types, NotDoingFits DEF TaskTypes
<1>12. TaskTypes'
  BY <1>7, <1>10, <1>11, <1>types DEF TaskTypes
<1>13. NotLater'
  BY <1>7 DEF TaskInv, NotLater
<1>14. ASSUME ~misled' PROVE OneTaskCall' /\ UnderWay' /\ (\A x \in TaskCallers : Asked(doing[x])') /\ RowsTell'
  <2>1. ~misled /\ OneTaskCall /\ RowsTell /\ Asked(d)
    BY <1>1, <1>7, <1>14 DEF TaskInv
  <2>2. \A x \in TaskCallers : doing'[x].at = "idle"
    <3>1. InCall(c)
      BY <1>1, <1>2 DEF InCall
    <3>2. QED
      BY <1>7, <1>types, <2>1, <3>1, OneCallEnds
  <2>3. OneTaskCall' /\ \A x \in TaskCallers : Asked(doing[x])'
    BY <2>2 DEF OneTaskCall, Asked, InCall
  <2>4. /\ HasRow(d.was) /\ Since(d.was) /\ d.was.start <= d.end /\ d.was.from <= d.to /\ d.to <= Len(commandLog)
        /\ \A i \in 1..d.to : commandLog[i].at <= d.end
        /\ ~task.active
    BY <1>2, <2>1 DEF Asked
  <2>5. UnderWay'
    BY <1>7, <2>4 DEF UnderWay
  <2>6. d.was.id \in 1..Len(taskLog) /\ taskLog[d.was.id] \in TaskRows
    BY <1>types, <2>4 DEF HasRow, TaskTypes
  <2>7. PICK old : old = taskLog[d.was.id]
    OBVIOUS
  <2>8. old \in TaskRows /\ old.start = d.was.start /\ old.from = d.was.from /\ old.ends = 0
    BY <2>4, <2>6, <2>7 DEF HasRow
  <2>9. PICK r : r = MinedOf(old, d.end, d.to, Len(es), fails, ins)
    OBVIOUS
  <2>10. /\ r \in TaskRows /\ r.start = d.was.start /\ r.end = d.end /\ r.from = d.was.from /\ r.to = d.to
         /\ r.steps = Len(es) /\ r.failures = fails /\ r.insights = ins /\ r.ends = 1
    <3>1. /\ r \in TaskRows /\ r.start = old.start /\ r.end = d.end /\ r.from = old.from /\ r.to = d.to
          /\ r.steps = Len(es) /\ r.failures = fails /\ r.insights = ins /\ r.ends = old.ends + 1
      <4>1. old \in TaskRows /\ d.end \in Nat /\ d.to \in Nat /\ Len(es) \in Nat /\ fails \in Nat /\ ins \in Insights
        BY <1>2, <1>9, <2>8
      <4>2. MinedOf(old, d.end, d.to, Len(es), fails, ins) \in TaskRows
            /\ Mined(MinedOf(old, d.end, d.to, Len(es), fails, ins), old, d.end, d.to, Len(es), fails, ins)
        BY <4>1, MinedRow
      <4>3. QED
        BY <2>9, <4>2 DEF Mined
    <3>2. QED
      BY <2>8, <3>1
  <2>11. RowSound(r, commandLog)
    <3>1. ASSUME NEW i \in r.from + 1..r.to PROVE InTime(commandLog[i], r.start, r.end)
      <4>1. i \in 1..d.to /\ i \in d.was.from + 1..Len(commandLog)
        BY <1>2, <1>types, <2>4, <2>10
      <4>2. QED
        BY <2>4, <2>10, <4>1 DEF Since, InTime
    <3>2. es = Within(r.start, r.end) /\ r.failures = Cardinality(FailedOf(es)) /\ r.insights = mineTaskInsights(es)
      BY <1>3, <1>4, <1>5, <2>10
    <3>3. r.start <= r.end /\ r.from <= r.to /\ r.to <= Len(commandLog)
      BY <2>4, <2>10
    <3>4. QED
      BY <1>types, <2>10, <3>1, <3>2, <3>3, MinedRowTells
  <2>12. taskLog'[d.was.id] = r
    BY <1>6, <2>6, <2>7, <2>9
  <2>13. ASSUME NEW n \in 1..Len(taskLog') PROVE RowSound(taskLog'[n], commandLog')
    <3>1. commandLog' = commandLog /\ n \in 1..Len(taskLog)
      BY <1>7, <1>10
    <3>2. CASE n = d.was.id
      BY <2>11, <2>12, <3>1, <3>2
    <3>3. CASE n # d.was.id
      <4>1. taskLog'[n] = taskLog[n]
        BY <1>6, <1>types, <3>1, <3>3
      <4>2. RowSound(taskLog[n], commandLog)
        BY <2>1, <3>1 DEF RowsTell
      <4>3. QED
        BY <3>1, <4>1, <4>2
    <3>4. QED
      BY <3>2, <3>3
  <2>14. RowsTell'
    BY <2>13 DEF RowsTell
  <2>15. QED
    BY <2>3, <2>5, <2>14
<1>15. QED
  BY <1>12, <1>13, <1>14 DEF TaskInv

LEMMA LogCommandInv == ASSUME TaskInv, NEW e \in Commands, LogCommand(e) PROVE TaskInv'
<1>types. TaskTypes /\ Len(commandLog) \in Nat /\ second \in Nat
  BY DEF TaskInv, TaskTypes
<1>1. PICK x : x = [tool |-> e.tool, success |-> e.success, at |-> second]
  OBVIOUS
<1>2. x \in Logged /\ x.at = second
  BY <1>1, <1>types DEF Logged, Tools
<1>3. commandLog' = Append(commandLog, x) /\ UNCHANGED <<task, taskLog, doing, second, taskFaults, misled>>
  BY <1>1 DEF LogCommand
<1>4. commandLog' \in Seq(Logged) /\ Len(commandLog') = Len(commandLog) + 1 /\ commandLog'[Len(commandLog) + 1] = x
      /\ \A i \in 1..Len(commandLog) : commandLog'[i] = commandLog[i]
  BY <1>2, <1>3, <1>types DEF TaskTypes
<1>5. TaskTypes'
  BY <1>3, <1>4, <1>types DEF TaskTypes
<1>6. ASSUME NEW i \in 1..Len(commandLog') PROVE i \in 1..Len(commandLog) \/ commandLog'[i] = x
  BY <1>4, <1>types
<1>7. NotLater'
  <2>1. ASSUME NEW i \in 1..Len(commandLog') PROVE commandLog'[i].at <= second
    <3>1. CASE i \in 1..Len(commandLog)
      BY <1>4, <3>1 DEF TaskInv, NotLater
    <3>2. CASE commandLog'[i] = x
      BY <1>2, <1>types, <3>2
    <3>3. QED
      BY <1>6, <3>1, <3>2
  <2>2. QED
    BY <1>3, <2>1 DEF NotLater
<1>8. ASSUME NEW t \in TaskStates, Since(t) PROVE Since(t)'
  <2>1. t.from \in Nat /\ t.start \in Nat /\ t.from <= Len(commandLog) /\ t.start <= second
    BY <1>8 DEF TaskStates, Since
  <2>2. ASSUME NEW i \in t.from + 1..Len(commandLog') PROVE t.start <= commandLog'[i].at
    <3>1. i \in 1..Len(commandLog')
      BY <1>4, <1>types, <2>1
    <3>2. CASE i \in 1..Len(commandLog)
      <4>1. i \in t.from + 1..Len(commandLog)
        BY <1>4, <1>types, <2>1, <3>2
      <4>2. QED
        BY <1>4, <1>8, <3>2, <4>1 DEF Since
    <3>3. CASE commandLog'[i] = x
      BY <1>2, <2>1, <3>3
    <3>4. QED
      BY <1>6, <3>1, <3>2, <3>3
  <2>3. t.from <= Len(commandLog') /\ t.start <= second'
    BY <1>3, <1>4, <1>types, <2>1
  <2>4. QED
    BY <2>2, <2>3 DEF Since
<1>9. ASSUME ~misled' PROVE OneTaskCall' /\ UnderWay' /\ (\A y \in TaskCallers : Asked(doing[y])') /\ RowsTell'
  <2>1. ~misled /\ OneTaskCall /\ UnderWay /\ RowsTell /\ \A y \in TaskCallers : Asked(doing[y])
    BY <1>3, <1>9 DEF TaskInv
  <2>2. OneTaskCall'
    BY <1>3, <2>1 DEF OneTaskCall, InCall
  <2>3. UnderWay'
    <3>1. task \in TaskStates
      BY <1>types DEF TaskTypes
    <3>2. Since(task) => Since(task)'
      BY <1>3, <1>8, <3>1 DEF Since
    <3>3. HasRow(task) => HasRow(task)'
      BY <1>3 DEF HasRow
    <3>4. QED
      BY <1>3, <2>1, <3>2, <3>3 DEF UnderWay, InCall
  <2>4. ASSUME NEW y \in TaskCallers PROVE Asked(doing[y])'
    <3>1. doing[y] \in DoingStates /\ doing[y].was \in TaskStates /\ task \in TaskStates
      BY <1>types DEF TaskTypes, DoingStates
    <3>2. PICK d : d = doing[y]
      OBVIOUS
    <3>3. Asked(d) /\ d \in DoingStates /\ d.was \in TaskStates /\ d.to \in Nat
      BY <2>1, <3>1, <3>2 DEF DoingStates
    <3>4. Since(task) => Since(task)'
      BY <1>3, <1>8, <3>1 DEF Since
    <3>5. Since(d.was) => Since(d.was)'
      BY <1>8, <3>3
    <3>6. HasRow(d.was) => HasRow(d.was)'
      BY <1>3 DEF HasRow
    <3>7. d.at = "mine" => d.to <= Len(commandLog') /\ \A i \in 1..d.to : commandLog'[i].at <= d.end
      <4>1. ASSUME d.at = "mine" PROVE d.to <= Len(commandLog') /\ \A i \in 1..d.to : commandLog'[i].at <= d.end
        <5>1. d.to <= Len(commandLog) /\ \A i \in 1..d.to : commandLog[i].at <= d.end
          BY <3>3, <4>1 DEF Asked
        <5>2. \A i \in 1..d.to : i \in 1..Len(commandLog)
          BY <1>types, <3>3, <5>1
        <5>3. QED
          BY <1>4, <1>types, <3>3, <5>1, <5>2
      <4>2. QED
        BY <4>1
    <3>8. Asked(d)'
      BY <1>3, <3>3, <3>4, <3>5, <3>6, <3>7 DEF Asked
    <3>9. doing'[y] = d
      BY <1>3, <3>2
    <3>10. QED
      BY <3>8, <3>9 DEF Asked
  <2>5. ASSUME NEW n \in 1..Len(taskLog) PROVE RowSound(taskLog[n], commandLog')
    <3>1. taskLog[n] \in TaskRows /\ RowSound(taskLog[n], commandLog) /\ commandLog \in Seq(Logged)
      BY <1>types, <2>1 DEF TaskTypes, RowsTell
    <3>2. RowSound(taskLog[n], Append(commandLog, x))
      BY <1>2, <3>1, RowStillTells
    <3>3. QED
      BY <1>3, <3>2
  <2>6. RowsTell'
    BY <1>3, <2>5 DEF RowsTell
  <2>7. QED
    BY <2>2, <2>3, <2>4, <2>6
<1>10. QED
  BY <1>5, <1>7, <1>9 DEF TaskInv

LEMMA SecondPassesInv == ASSUME TaskInv, SecondPasses PROVE TaskInv'
<1>1. second' = second + 1 /\ UNCHANGED <<task, taskLog, commandLog, doing, taskFaults, misled>>
  BY DEF SecondPasses
<1>2. TaskTypes /\ second \in Nat /\ second' \in Nat
  BY <1>1 DEF TaskInv, TaskTypes
<1>3. TaskTypes'
  BY <1>1, <1>2 DEF TaskTypes
<1>4. NotLater'
  <2>1. ASSUME NEW i \in 1..Len(commandLog) PROVE commandLog[i].at <= second'
    <3>1. commandLog[i].at \in Nat /\ commandLog[i].at <= second
      <4>1. commandLog[i] \in Logged
        BY <1>2 DEF TaskTypes
      <4>2. QED
        BY <4>1 DEF TaskInv, NotLater, Logged
    <3>2. QED
      BY <1>1, <1>2, <3>1
  <2>2. QED
    BY <1>1, <2>1 DEF NotLater
<1>5. ASSUME NEW t \in TaskStates, Since(t) PROVE Since(t)'
  <2>1. t.start \in Nat /\ t.start <= second
    BY <1>5 DEF TaskStates, Since
  <2>2. t.start <= second'
    BY <1>1, <1>2, <2>1
  <2>3. QED
    BY <1>1, <1>5, <2>2 DEF Since
<1>6. ASSUME ~misled' PROVE OneTaskCall' /\ UnderWay' /\ (\A y \in TaskCallers : Asked(doing[y])') /\ RowsTell'
  <2>1. ~misled /\ OneTaskCall /\ UnderWay /\ RowsTell /\ \A y \in TaskCallers : Asked(doing[y])
    BY <1>1, <1>6 DEF TaskInv
  <2>2. OneTaskCall' /\ RowsTell'
    BY <1>1, <2>1 DEF OneTaskCall, InCall, RowsTell
  <2>3. task \in TaskStates /\ \A y \in TaskCallers : doing[y].was \in TaskStates
    BY <1>2 DEF TaskTypes, DoingStates
  <2>4. Since(task) => Since(task)'
    BY <1>1, <1>5, <2>3 DEF Since
  <2>5. HasRow(task) => HasRow(task)'
    BY <1>1 DEF HasRow
  <2>6. UnderWay'
    BY <1>1, <2>1, <2>4, <2>5 DEF UnderWay, InCall
  <2>7. ASSUME NEW y \in TaskCallers PROVE Asked(doing[y])'
    <3>1. PICK d : d = doing[y]
      OBVIOUS
    <3>2. Asked(d) /\ d.was \in TaskStates
      BY <2>1, <2>3, <3>1
    <3>3. Since(d.was) => Since(d.was)'
      BY <1>5, <3>2
    <3>4. HasRow(d.was) => HasRow(d.was)'
      BY <1>1 DEF HasRow
    <3>5. Asked(d)'
      BY <1>1, <2>4, <3>2, <3>3, <3>4 DEF Asked
    <3>6. doing'[y] = d
      BY <1>1, <3>1
    <3>7. QED
      BY <3>5, <3>6 DEF Asked
  <2>8. QED
    BY <2>2, <2>6, <2>7
<1>7. QED
  BY <1>3, <1>4, <1>6 DEF TaskInv

LEMMA TaskStepInv == TaskInv /\ [TaskNext]_taskVars => TaskInv'
<1> SUFFICES ASSUME TaskInv, [TaskNext]_taskVars PROVE TaskInv'
  OBVIOUS
<1>1. ASSUME NEW c \in TaskCallers, TaskBegin(c) PROVE TaskInv'
  BY <1>1, TaskBeginInv
<1>2. ASSUME NEW c \in TaskCallers, InsertTask(c) PROVE TaskInv'
  BY <1>2, InsertTaskInv
<1>3. ASSUME NEW c \in TaskCallers, InsertTaskFails(c) \/ UpdateTaskFails(c) PROVE TaskInv'
  BY <1>3, TaskFailsInv
<1>4. ASSUME NEW c \in TaskCallers, TaskEnd(c) PROVE TaskInv'
  BY <1>4, TaskEndInv
<1>5. ASSUME NEW c \in TaskCallers, UpdateTask(c) PROVE TaskInv'
  BY <1>5, UpdateTaskInv
<1>6. ASSUME NEW e \in Commands, LogCommand(e) PROVE TaskInv'
  BY <1>6, LogCommandInv
<1>7. ASSUME SecondPasses PROVE TaskInv'
  BY <1>7, SecondPassesInv
<1>8. ASSUME UNCHANGED taskVars PROVE TaskInv'
  <2>1. UNCHANGED <<task, taskLog, commandLog, doing, second, taskFaults, misled>>
    BY <1>8 DEF taskVars
  <2>2. TaskTypes' /\ NotLater'
    BY <2>1 DEF TaskInv, TaskTypes, NotLater
  <2>3. OneTaskCall' = OneTaskCall /\ UnderWay' = UnderWay /\ RowsTell' = RowsTell
    BY <2>1 DEF OneTaskCall, UnderWay, RowsTell, InCall, HasRow, Since
  <2>4. \A c \in TaskCallers : Asked(doing[c]) => Asked(doing[c])'
    BY <2>1 DEF Asked, HasRow, Since
  <2>5. QED
    BY <2>1, <2>2, <2>3, <2>4 DEF TaskInv
<1>9. QED
  BY <1>1, <1>2, <1>3, <1>4, <1>5, <1>6, <1>7, <1>8 DEF TaskNext

\* A task's row tells of the task, ended once, counting the commands logged
\* while it was under way, with insights that are of the commands it counts.
THEOREM TasksToldHolds == TaskSpec => []TasksTold
<1>1. QED
  BY TaskInitInv, TaskStepInv, TaskInvTells, PTL DEF TaskSpec

-----------------------------------------------------------------------------
(* The statistics of the adaptive engine                                     *)

\* A function defined step by step from the one before is there.
LEMMA StepByStep ==
  ASSUME NEW S, NEW z \in S, NEW N \in Nat, NEW g \in [1..N -> [S -> S]]
  PROVE  \E f \in [0..N -> S] : f[0] = z /\ \A n \in 1..N : f[n] = g[n][f[n - 1]]
<1> DEFINE Fits(f, k) == f \in [0..k -> S] /\ f[0] = z /\ \A n \in 1..k : f[n] = g[n][f[n - 1]]
           T == {k \in 0..N : ~\E f : Fits(f, k)}
<1>1. ASSUME T # {} PROVE FALSE
  <2>1. T \in SUBSET Nat
    OBVIOUS
  <2> HIDE DEF T
  <2>2. PICK k \in T : \A m \in T : k <= m
    BY <1>1, <2>1, LeastNumber
  <2>3. k \in 0..N /\ ~\E f : Fits(f, k)
    BY <2>2 DEF T
  <2>4. k # 0
    <3>1. Fits([n \in 0..0 |-> z], 0)
      OBVIOUS
    <3>2. QED
      BY <2>3, <3>1
  <2>5. k - 1 \in 0..N /\ k - 1 \notin T
    BY <2>2, <2>3, <2>4
  <2>6. PICK f : Fits(f, k - 1)
    BY <2>5 DEF T
  <2>7. PICK h : h = [n \in 0..k |-> IF n = k THEN g[k][f[k - 1]] ELSE f[n]]
    OBVIOUS
  <2>8. k \in 1..N /\ k - 1 \in 0..k - 1
    BY <2>3, <2>4
  <2>9. g[k][f[k - 1]] \in S
    <3>1. g[k] \in [S -> S] /\ f[k - 1] \in S
      BY <2>6, <2>8
    <3>2. QED
      BY <3>1
  <2>10. ASSUME NEW n \in 0..k, n # k PROVE n \in 0..k - 1 /\ h[n] = f[n] /\ f[n] \in S
    <3>1. n \in 0..k - 1
      BY <2>3, <2>10
    <3>2. QED
      BY <2>6, <2>7, <2>10, <3>1
  <2>11. h[k] = g[k][f[k - 1]] /\ k \in 0..k
    BY <2>3, <2>7
  <2>12. h \in [0..k -> S]
    BY <2>7, <2>9, <2>10
  <2>13. h[0] = z
    <3>1. 0 \in 0..k
      BY <2>3
    <3>2. QED
      BY <2>4, <2>6, <2>10, <3>1
  <2>14. ASSUME NEW n \in 1..k PROVE h[n] = g[n][h[n - 1]]
    <3>1. n - 1 \in 0..k /\ n - 1 # k /\ n \in 0..k
      BY <2>3
    <3>2. h[n - 1] = f[n - 1]
      BY <2>10, <3>1
    <3>3. CASE n = k
      BY <2>11, <3>2, <3>3
    <3>4. CASE n # k
      <4>1. n \in 1..k - 1 /\ h[n] = f[n]
        BY <2>3, <2>10, <3>1, <3>4
      <4>2. QED
        BY <2>6, <3>2, <4>1
    <3>5. QED
      BY <3>3, <3>4
  <2>15. Fits(h, k)
    BY <2>12, <2>13, <2>14
  <2>16. QED
    BY <2>3, <2>15
<1>2. N \in 0..N /\ N \notin T
  <2> HIDE DEF T
  <2>1. QED
    BY <1>1
<1>3. PICK f : Fits(f, N)
  BY <1>2
<1>4. QED
  BY <1>3

\* (Multiplication, as far as the means need it.)
LEMMA TimesLess ==
  ASSUME NEW a \in Int, NEW b \in Int, NEW n \in Nat, a <= b
  PROVE  a * n <= b * n
<1> DEFINE I == {m \in 0..n : a * m <= b * m}
<1>1. 0 \in I
  OBVIOUS
<1>2. ASSUME NEW m \in 0..n, m \in I, m # n PROVE m + 1 \in I
  <2>1. a * (m + 1) = a * m + a /\ b * (m + 1) = b * m + b
    OBVIOUS
  <2>2. a * m \in Int /\ b * m \in Int /\ a * m <= b * m
    BY <1>2
  <2>3. a * (m + 1) <= b * (m + 1)
    BY <2>1, <2>2
  <2>4. m + 1 \in 0..n
    BY <1>2
  <2>5. QED
    BY <2>3, <2>4
<1> HIDE DEF I
<1>3. n \in I
  BY <1>1, <1>2, CountUp
<1>4. QED
  BY <1>3 DEF I

LEMMA DivBetween ==
  ASSUME NEW x \in Int, NEW b \in Nat \ {0}, NEW l \in Int, NEW h \in Int, l * b <= x, x <= h * b
  PROVE  x \div b \in Int /\ l <= x \div b /\ x \div b <= h
<1>1. PICK q : q = x \div b
  OBVIOUS
<1>2. q \in Int /\ b * q <= x /\ x < b * q + b
  BY <1>1
<1>3. b * q = q * b /\ q * b \in Int /\ h * b \in Int /\ l * b \in Int
  BY <1>2
<1>4. ASSUME q < l PROVE FALSE
  <2>1. (q + 1) * b <= l * b
    BY <1>2, <1>4, TimesLess
  <2>2. (q + 1) * b = q * b + b
    BY <1>2
  <2>3. QED
    BY <1>2, <1>3, <2>1, <2>2
<1>5. ASSUME h < q PROVE FALSE
  <2>1. (h + 1) * b <= q * b
    BY <1>2, <1>5, TimesLess
  <2>2. (h + 1) * b = h * b + b
    OBVIOUS
  <2>3. QED
    BY <1>2, <1>3, <2>1, <2>2
<1>6. QED
  BY <1>1, <1>2, <1>4, <1>5

LEMMA QuotientBetween ==
  ASSUME NEW a \in Int, NEW b \in Nat \ {0}, NEW lo \in Int, NEW hi \in Int, lo * b <= a, a <= hi * b
  PROVE  Quotient(a, b) \in Int /\ lo <= Quotient(a, b) /\ Quotient(a, b) <= hi
<1>1. CASE a >= 0
  BY <1>1, DivBetween DEF Quotient
<1>2. CASE ~(a >= 0)
  <2>1. (-hi) * b = -(hi * b) /\ (-lo) * b = -(lo * b)
    OBVIOUS
  <2>2. lo * b \in Int /\ hi * b \in Int
    OBVIOUS
  <2>3. (-hi) * b <= -a /\ -a <= (-lo) * b
    BY <2>1, <2>2
  <2>4. (-a) \div b \in Int /\ -hi <= (-a) \div b /\ (-a) \div b <= -lo
    <3>1. -a \in Int /\ -hi \in Int /\ -lo \in Int
      OBVIOUS
    <3>2. QED
      BY <2>3, <3>1, DivBetween
  <2>5. Quotient(a, b) = -((-a) \div b)
    BY <1>2 DEF Quotient
  <2>6. QED
    BY <2>4, <2>5
<1>3. QED
  BY <1>1, <1>2

Counts == [sum : Int, count : Nat, success : Nat]
\* Samples whose places lie between two of those the tool went to.
Founded(s) ==
  /\ s \in Counts /\ s.success <= s.count
  /\ s = Nothing \/ \E lo, hi \in Places : lo * s.count <= s.sum /\ s.sum <= hi * s.count
Sample(n, x, ok) == [sum |-> n * x, count |-> n, success |-> n * OneIf(ok)]

LEMMA NothingFounded == Founded(Nothing)
BY DEF Founded, Nothing, Counts

LEMMA PlusFits ==
  ASSUME NEW s \in Counts, NEW t \in Counts
  PROVE  /\ Plus(s, t) \in Counts /\ Plus(s, t).sum = s.sum + t.sum /\ Plus(s, t).count = s.count + t.count
         /\ Plus(s, t).success = s.success + t.success
BY DEF Plus, Counts

LEMMA SameCounts ==
  ASSUME NEW s \in Counts, NEW t \in Counts, s.sum = t.sum, s.count = t.count, s.success = t.success
  PROVE  s = t
BY DEF Counts

\* (The lower of two places, and the higher.)
LEMMA Outer ==
  ASSUME NEW a \in Places, NEW b \in Places
  PROVE  \E lo, hi \in Places : lo <= a /\ lo <= b /\ a <= hi /\ b <= hi
<1>1. a \in Int /\ b \in Int
  BY AdaptiveAssumption
<1>2. CASE a <= b
  BY <1>1, <1>2
<1>3. CASE ~(a <= b)
  <2>1. b <= a /\ a <= a /\ b <= b
    BY <1>1, <1>3
  <2>2. QED
    BY <2>1
<1>4. QED
  BY <1>2, <1>3

LEMMA FoundedPlus ==
  ASSUME NEW s, NEW t, Founded(s), Founded(t)
  PROVE  Founded(Plus(s, t))
<1>1. s \in Counts /\ t \in Counts /\ s.success <= s.count /\ t.success <= t.count
  BY DEF Founded
<1>2. PICK p : p = Plus(s, t)
  OBVIOUS
<1>3. p \in Counts /\ p.sum = s.sum + t.sum /\ p.count = s.count + t.count /\ p.success = s.success + t.success
  BY <1>1, <1>2, PlusFits
<1>4. p.success <= p.count
  BY <1>1, <1>3 DEF Counts
<1>5. CASE s = Nothing
  <2>1. p = t
    <3>1. p.sum = t.sum /\ p.count = t.count /\ p.success = t.success
      BY <1>1, <1>3, <1>5 DEF Counts, Nothing
    <3>2. QED
      BY <1>1, <1>3, <3>1, SameCounts
  <2>2. QED
    BY <1>2, <2>1
<1>6. CASE t = Nothing
  <2>1. p = s
    <3>1. p.sum = s.sum /\ p.count = s.count /\ p.success = s.success
      BY <1>1, <1>3, <1>6 DEF Counts, Nothing
    <3>2. QED
      BY <1>1, <1>3, <3>1, SameCounts
  <2>2. QED
    BY <1>2, <2>1
<1>7. CASE s # Nothing /\ t # Nothing
  <2>1. PICK a, b \in Places : a * s.count <= s.sum /\ s.sum <= b * s.count
    BY <1>7 DEF Founded
  <2>2. PICK c, d \in Places : c * t.count <= t.sum /\ t.sum <= d * t.count
    BY <1>7 DEF Founded
  <2>3. PICK lo \in Places : lo <= a /\ lo <= c
    BY Outer
  <2>4. PICK hi \in Places : b <= hi /\ d <= hi
    BY Outer
  <2>5. PICK m, n \in Nat : m = s.count /\ n = t.count
    BY <1>1 DEF Counts
  <2>6. PICK x, y \in Int : x = s.sum /\ y = t.sum
    BY <1>1 DEF Counts
  <2>7. a \in Int /\ b \in Int /\ c \in Int /\ d \in Int /\ lo \in Int /\ hi \in Int
    BY AdaptiveAssumption
  <2>8. lo * m <= a * m /\ lo * n <= c * n /\ b * m <= hi * m /\ d * n <= hi * n
    BY <2>3, <2>4, <2>7, TimesLess
  <2>9. a * m <= x /\ c * n <= y /\ x <= b * m /\ y <= d * n
    BY <2>1, <2>2, <2>5, <2>6
  <2>10. lo * (m + n) = lo * m + lo * n /\ hi * (m + n) = hi * m + hi * n
    BY <2>7
  <2>11. /\ a * m \in Int /\ b * m \in Int /\ c * n \in Int /\ d * n \in Int
         /\ lo * m \in Int /\ lo * n \in Int /\ hi * m \in Int /\ hi * n \in Int
    BY <2>7
  <2>12. lo * (m + n) <= x + y /\ x + y <= hi * (m + n)
    BY <2>8, <2>9, <2>10, <2>11
  <2>13. lo * p.count <= p.sum /\ p.sum <= hi * p.count
    BY <1>3, <2>5, <2>6, <2>12
  <2>14. QED
    BY <1>2, <1>3, <1>4, <2>13 DEF Founded
<1>8. QED
  BY <1>5, <1>6, <1>7

LEMMA SampleFounded ==
  ASSUME NEW x \in Places, NEW n \in Nat, NEW ok \in BOOLEAN
  PROVE  Founded(Sample(n, x, ok))
<1>1. x \in Int /\ n * x \in Int /\ n * x = x * n
  BY AdaptiveAssumption
<1>2. PICK s : s = Sample(n, x, ok)
  OBVIOUS
<1>3. s.sum = n * x /\ s.count = n /\ s.success = n * OneIf(ok)
  BY <1>2 DEF Sample
<1>4. n * OneIf(ok) \in Nat /\ n * OneIf(ok) <= n
  BY DEF OneIf
<1>5. s \in Counts
  BY <1>1, <1>2, <1>4 DEF Sample, Counts
<1>6. x * s.count <= s.sum /\ s.sum <= x * s.count
  BY <1>1, <1>3
<1>7. QED
  BY <1>2, <1>3, <1>4, <1>5, <1>6 DEF Founded

LEMMA AddFounded ==
  ASSUME NEW s, Founded(s), NEW x \in Places, NEW n \in Nat, NEW ok \in BOOLEAN
  PROVE  Founded(Add(s, n, x, ok))
<1>1. Add(s, n, x, ok) = Plus(s, Sample(n, x, ok))
  BY DEF Add, Plus, Sample
<1>2. Founded(Sample(n, x, ok))
  BY SampleFounded
<1>3. QED
  BY <1>1, <1>2, FoundedPlus

Keys == Words \cup {Learned}

\* What predictCoord adds up over the words of a text is founded when each is.
LEMMA TokenSumFounded ==
  ASSUME NEW ctx \in Seq(Words), \A w \in Keys : Founded(coordIndex[w])
  PROVE  Founded(TokenSum(ctx))
<1>0. PICK N : N = Len(ctx)
  OBVIOUS
<1> DEFINE Next(f, n) == IF n = 0 THEN Nothing ELSE Plus(f[n - 1], coordIndex[ctx[n]])
<1>1. N \in Nat /\ \A n \in 1..N : ctx[n] \in Words
  BY <1>0
<1>2. \A n \in 1..N : coordIndex[ctx[n]] \in Counts /\ Founded(coordIndex[ctx[n]])
  BY <1>1 DEF Founded, Keys
<1>3. PICK g : g = [n \in 1..N |-> [s \in Counts |-> Plus(s, coordIndex[ctx[n]])]]
  OBVIOUS
<1>4. g \in [1..N -> [Counts -> Counts]]
  BY <1>2, <1>3, PlusFits
<1>5. Nothing \in Counts
  BY NothingFounded DEF Founded
<1>6. PICK f \in [0..N -> Counts] : f[0] = Nothing /\ \A n \in 1..N : f[n] = g[n][f[n - 1]]
  <2>1. \E f \in [0..N -> Counts] : f[0] = Nothing /\ \A n \in 1..N : f[n] = g[n][f[n - 1]]
    <3>1. N \in Nat /\ Nothing \in Counts /\ g \in [1..N -> [Counts -> Counts]]
      BY <1>1, <1>4, <1>5
    <3> HIDE DEF Next
    <3>2. QED
      BY <3>1, StepByStep, SMTT(30)
  <2>2. QED
    BY <2>1
<1>7. ASSUME NEW n \in 0..N PROVE f[n] = Next(f, n)
  <2>1. CASE n = 0
    BY <1>6, <2>1
  <2>2. CASE n # 0
    <3>1. n \in 1..N /\ n - 1 \in 0..N
      BY <1>1, <2>2
    <3>2. f[n - 1] \in Counts
      BY <1>6, <3>1
    <3>3. g[n][f[n - 1]] = Plus(f[n - 1], coordIndex[ctx[n]])
      BY <1>3, <3>1, <3>2
    <3>4. QED
      BY <1>6, <2>2, <3>1, <3>3
  <2>3. QED
    BY <2>1, <2>2
<1>8. f = [n \in 0..N |-> Next(f, n)]
  BY <1>6, <1>7
<1>9. PICK u : u = [n \in 0..N |-> Next(u, n)] /\ TokenSum(ctx) = u[N]
  <2> DEFINE c == CHOOSE h : h = [n \in 0..N |-> Next(h, n)]
  <2>1. c = [n \in 0..N |-> Next(c, n)]
    BY <1>8, Zenon
  <2>2. TokenSum(ctx) = c[N]
    BY <1>0, <1>1 DEF TokenSum
  <2>3. QED
    BY <2>1, <2>2
<1>10. \A n \in 0..N : u[n] = Next(u, n)
  BY <1>9
<1> DEFINE I == {n \in 0..N : Founded(u[n])}
<1>11. 0 \in I
  <2>1. 0 \in 0..N
    BY <1>1
  <2>2. u[0] = Nothing
    BY <1>10, <2>1
  <2>3. QED
    BY <2>1, <2>2, NothingFounded
<1>12. ASSUME NEW n \in 0..N, n \in I, n # N PROVE n + 1 \in I
  <2>1. n + 1 \in 1..N /\ n + 1 \in 0..N /\ n + 1 # 0 /\ (n + 1) - 1 = n
    BY <1>1, <1>12
  <2>2. u[n + 1] = Plus(u[n], coordIndex[ctx[n + 1]])
    BY <1>10, <2>1
  <2>3. Founded(u[n]) /\ Founded(coordIndex[ctx[n + 1]])
    BY <1>2, <1>12, <2>1
  <2>4. Founded(u[n + 1])
    BY <2>2, <2>3, FoundedPlus
  <2>5. QED
    BY <2>1, <2>4
<1> HIDE DEF I
<1>13. N \in I
  BY <1>1, <1>11, <1>12, CountUp
<1>14. QED
  BY <1>9, <1>13 DEF I

\* What is predicted from founded samples lies between places.
LEMMA PredictionFounded ==
  ASSUME NEW s, Founded(s), s.count >= Enough
  PROVE  Between(Quotient(s.sum, s.count)) /\ s.success <= s.count
<1>1. Enough \in Nat \ {0} /\ s.count \in Nat /\ s.sum \in Int
  BY AdaptiveAssumption DEF Founded, Counts
<1>2. s.count \in Nat \ {0}
  BY <1>1
<1>3. s # Nothing
  BY <1>2 DEF Nothing
<1>4. PICK lo, hi \in Places : lo * s.count <= s.sum /\ s.sum <= hi * s.count
  BY <1>3 DEF Founded
<1>5. lo \in Int /\ hi \in Int
  BY AdaptiveAssumption
<1>6. lo <= Quotient(s.sum, s.count) /\ Quotient(s.sum, s.count) <= hi
  BY <1>1, <1>2, <1>4, <1>5, QuotientBetween
<1>7. QED
  BY <1>6 DEF Between, Founded

Pairs == [ctx : Contexts, x : Places, ok : BOOLEAN]
Trainings == [at : {"idle", "clear", "rows"}, todo : Seq(Pairs)]
Tallies == [success : Nat, fail : Nat]
AdaptTypes ==
  /\ coordIndex \in [Keys -> Counts] /\ wordToCmds \in [Words -> Tallies]
  /\ totalCmds \in Nat /\ taught \in Nat /\ pairRows \in Seq(Pairs) /\ training \in [Trainers -> Trainings]
PlacesFounded == \A w \in Keys : Founded(coordIndex[w])
WordsFounded == \A w \in Words : wordToCmds[w].success + wordToCmds[w].fail <= totalCmds + taught
\* One training at a time counts no more rows than there are.
RowsLeft(t) ==
  /\ training[t].at = "clear" => Len(training[t].todo) <= Len(pairRows)
  /\ training[t].at = "rows" => totalCmds + Len(training[t].todo) <= Len(pairRows)
OneTraining ==
  /\ \A t, u \in Trainers : training[t].at # "idle" /\ training[u].at # "idle" => t = u
  /\ totalCmds <= Len(pairRows) /\ \A t \in Trainers : RowsLeft(t)
AdaptInv == AdaptTypes /\ PlacesFounded /\ WordsFounded /\ (~together => OneTraining)

LEMMA PredictionsFoundedWhen == AdaptTypes /\ PlacesFounded /\ WordsFounded => PredictionsFounded
<1> SUFFICES ASSUME AdaptTypes, PlacesFounded, WordsFounded PROVE PredictionsFounded
  OBVIOUS
<1>1. ASSUME NEW ctx \in Contexts, NEW p \in PredictCoord(ctx) PROVE Between(p.x) /\ p.hits <= p.of
  <2>1. ctx \in Seq(Words)
    BY AdaptiveAssumption
  <2>2. PICK s : s = TokenSum(ctx)
    OBVIOUS
  <2>3. Founded(s)
    BY <2>1, <2>2, TokenSumFounded DEF PlacesFounded
  <2>4. PICK l : l = coordIndex[Learned]
    OBVIOUS
  <2>5. Founded(l)
    BY <2>4 DEF PlacesFounded, Keys
  <2>6. CASE s.count >= Enough
    <3>1. p = [x |-> Quotient(s.sum, s.count), hits |-> s.success, of |-> s.count]
      BY <1>1, <2>2, <2>6 DEF PredictCoord
    <3>2. QED
      BY <2>3, <2>6, <3>1, PredictionFounded
  <2>7. CASE ~(s.count >= Enough)
    <3>1. l.count >= Enough /\ p = [x |-> Quotient(l.sum, l.count), hits |-> l.success, of |-> l.count]
      BY <1>1, <2>2, <2>4, <2>7 DEF PredictCoord
    <3>2. QED
      BY <2>5, <3>1, PredictionFounded
  <2>8. QED
    BY <2>6, <2>7
<1>2. QED
  BY <1>1 DEF PredictionsFounded, WordsFounded

LEMMA AdaptInvFounded == AdaptInv => StatisticsFounded
<1>1. AdaptInv => TotalIsRows
  BY DEF AdaptInv, OneTraining, TotalIsRows
<1>2. QED
  BY <1>1, PredictionsFoundedWhen DEF AdaptInv, StatisticsFounded

LEMMA BlankFits == Blank \in [Keys -> Counts] /\ \A w \in Keys : Founded(Blank[w])
<1>1. Nothing \in Counts
  BY NothingFounded DEF Founded
<1>2. QED
  BY <1>1, NothingFounded DEF Blank, Keys

LEMMA NoWordsFit == NoWords \in [Words -> Tallies] /\ \A w \in Words : NoWords[w].success + NoWords[w].fail = 0
<1>1. [success |-> 0, fail |-> 0] \in Tallies
  BY DEF Tallies
<1>2. QED
  BY <1>1 DEF NoWords

LEMMA AdaptInitInv == AdaptInit => AdaptInv
<1> SUFFICES ASSUME AdaptInit PROVE AdaptInv
  OBVIOUS
<1>1. coordIndex = Blank /\ wordToCmds = NoWords /\ totalCmds = 0 /\ taught = 0 /\ pairRows = <<>>
      /\ training = [t \in Trainers |-> [at |-> "idle", todo |-> <<>>]]
  BY DEF AdaptInit
<1>2. <<>> \in Seq(Pairs) /\ Len(<<>>) = 0
  BY EmptySeq
<1>3. [at |-> "idle", todo |-> <<>>] \in Trainings
  BY <1>2 DEF Trainings
<1>4. AdaptTypes
  BY <1>1, <1>2, <1>3, BlankFits, NoWordsFit DEF AdaptTypes
<1>5. PlacesFounded /\ WordsFounded
  BY <1>1, BlankFits, NoWordsFit DEF PlacesFounded, WordsFounded
<1>6. OneTraining
  BY <1>1, <1>2 DEF OneTraining, RowsLeft
<1>7. QED
  BY <1>4, <1>5, <1>6 DEF AdaptInv

LEMMA TimesFits == ASSUME NEW ctx \in Contexts, NEW w PROVE Times(w, ctx) \in Nat /\ Once(w, ctx) \in 0..1
<1>1. ctx \in Seq(Words)
  BY AdaptiveAssumption
<1>2. Len(ctx) \in Nat /\ DOMAIN ctx = 1..Len(ctx)
  BY <1>1
<1>3. PICK s : s = {i \in DOMAIN ctx : ctx[i] = w}
  OBVIOUS
<1>4. s \in SUBSET (1..Len(ctx))
  BY <1>2, <1>3
<1>5. IsFiniteSet(1..Len(ctx))
  BY <1>2, FS_Interval
<1>6. Cardinality(s) \in Nat
  BY <1>4, <1>5, FS_Subset, FS_CardinalityType
<1>7. QED
  BY <1>3, <1>6 DEF Times, Once, OneIf

\* A row and a teaching count at most once for a word.
LEMMA CountWordsFits ==
  ASSUME wordToCmds \in [Words -> Tallies], NEW ctx \in Contexts, NEW ok \in BOOLEAN
  PROVE  /\ CountWords(ctx, ok) \in [Words -> Tallies]
         /\ \A w \in Words : CountWords(ctx, ok)[w].success + CountWords(ctx, ok)[w].fail
                               <= wordToCmds[w].success + wordToCmds[w].fail + 1
<1>1. ASSUME NEW w \in Words
      PROVE  /\ Tally(wordToCmds[w], Once(w, ctx), ok) \in Tallies
             /\ Tally(wordToCmds[w], Once(w, ctx), ok).success + Tally(wordToCmds[w], Once(w, ctx), ok).fail
                  <= wordToCmds[w].success + wordToCmds[w].fail + 1
  <2>1. PICK n \in 0..1 : n = Once(w, ctx)
    BY TimesFits
  <2>2. PICK f \in Tallies : f = wordToCmds[w]
    OBVIOUS
  <2>3. f.success \in Nat /\ f.fail \in Nat
    BY <2>2 DEF Tallies
  <2>4. PICK t : t = Tally(f, n, ok)
    OBVIOUS
  <2>5. t = [success |-> f.success + n * OneIf(ok), fail |-> f.fail + n * OneIf(~ok)]
    BY <2>4 DEF Tally
  <2>6. n * OneIf(ok) \in Nat /\ n * OneIf(~ok) \in Nat /\ n * OneIf(ok) + n * OneIf(~ok) <= 1
    <3>1. CASE ok
      BY <3>1 DEF OneIf
    <3>2. CASE ~ok
      BY <3>2 DEF OneIf
    <3>3. QED
      BY <3>1, <3>2
  <2>7. t \in Tallies /\ t.success + t.fail <= f.success + f.fail + 1
    BY <2>3, <2>5, <2>6 DEF Tallies
  <2>8. QED
    BY <2>1, <2>2, <2>4, <2>7
<1>2. QED
  BY <1>1 DEF CountWords

LEMMA CountPlacesFits ==
  ASSUME PlacesFounded, NEW ctx \in Contexts, NEW x \in Places, NEW ok \in BOOLEAN
  PROVE  CountPlaces(ctx, x, ok) \in [Keys -> Counts] /\ \A w \in Keys : Founded(CountPlaces(ctx, x, ok)[w])
<1>1. ASSUME NEW w \in Keys
      PROVE  Founded(Add(coordIndex[w], IF w = Learned THEN 1 ELSE Once(w, ctx), x, ok))
  <2>1. PICK n : n = IF w = Learned THEN 1 ELSE Once(w, ctx)
    OBVIOUS
  <2>2. n \in Nat
    BY <2>1, TimesFits
  <2>3. Founded(Add(coordIndex[w], n, x, ok))
    BY <2>2, AddFounded DEF PlacesFounded
  <2>4. QED
    BY <2>1, <2>3
<1>2. \A w \in Keys : Add(coordIndex[w], IF w = Learned THEN 1 ELSE Once(w, ctx), x, ok) \in Counts
  BY <1>1 DEF Founded
<1>3. CountPlaces(ctx, x, ok) = [w \in Keys |-> Add(coordIndex[w], IF w = Learned THEN 1 ELSE Once(w, ctx), x, ok)]
  BY DEF CountPlaces, Keys
<1>4. QED
  BY <1>1, <1>2, <1>3

LEMMA UseInv ==
  ASSUME AdaptInv, NEW x \in Places, NEW ok \in BOOLEAN, LearnFromCommand(x, ok) PROVE AdaptInv'
<1>types. AdaptTypes /\ PlacesFounded
  BY DEF AdaptInv
<1>1. UNCHANGED <<wordToCmds, sequences, totalCmds, pairRows, training, taught, together>>
  BY DEF LearnFromCommand
<1>2. PICK s : s = Add(coordIndex[Learned], 1, x, ok)
  OBVIOUS
<1>3. coordIndex' = [coordIndex EXCEPT ![Learned] = s]
  BY <1>2 DEF LearnFromCommand
<1>4. Founded(s)
  BY <1>2, <1>types, AddFounded DEF PlacesFounded, Keys
<1>5. \A w \in Keys : coordIndex'[w] = coordIndex[w] \/ coordIndex'[w] = s
  BY <1>3, <1>types DEF AdaptTypes
<1>6. PlacesFounded'
  BY <1>4, <1>5, <1>types DEF PlacesFounded
<1>7. coordIndex' \in [Keys -> Counts]
  BY <1>3, <1>4, <1>types DEF AdaptTypes, Founded
<1>8. AdaptTypes'
  BY <1>1, <1>7, <1>types DEF AdaptTypes
<1>9. WordsFounded' /\ (~together' => OneTraining')
  BY <1>1 DEF AdaptInv, WordsFounded, OneTraining, RowsLeft
<1>10. QED
  BY <1>6, <1>8, <1>9 DEF AdaptInv

LEMMA UseWithContextInv ==
  ASSUME AdaptInv, NEW ctx \in Contexts, NEW x \in Places, NEW ok \in BOOLEAN, LearnFromCommandWithContext(ctx, x, ok)
  PROVE  AdaptInv'
<1>types. AdaptTypes /\ PlacesFounded /\ Len(pairRows) \in Nat
  BY DEF AdaptInv, AdaptTypes
<1>1. UNCHANGED <<wordToCmds, sequences, totalCmds, training, taught, together>>
  BY DEF LearnFromCommandWithContext
<1>2. PICK r : r = [ctx |-> ctx, x |-> x, ok |-> ok]
  OBVIOUS
<1>3. pairRows' = Append(pairRows, r) /\ r \in Pairs
  BY <1>2 DEF LearnFromCommandWithContext, Pairs
<1>4. pairRows' \in Seq(Pairs) /\ Len(pairRows') = Len(pairRows) + 1
  BY <1>3, <1>types DEF AdaptTypes
<1>5. coordIndex' = [w \in Keys |-> IF w = Learned THEN coordIndex[w] ELSE Add(coordIndex[w], Times(w, ctx), x, ok)]
  BY DEF LearnFromCommandWithContext, Keys
<1>6. ASSUME NEW w \in Keys PROVE Founded(Add(coordIndex[w], Times(w, ctx), x, ok))
  <2>1. PICK n \in Nat : n = Times(w, ctx)
    BY TimesFits
  <2>2. Founded(Add(coordIndex[w], n, x, ok))
    BY <1>types, AddFounded DEF PlacesFounded
  <2>3. QED
    BY <2>1, <2>2
<1>7. \A w \in Keys : Founded(coordIndex'[w])
  BY <1>5, <1>6, <1>types DEF PlacesFounded
<1>8. coordIndex' \in [Keys -> Counts]
  BY <1>5, <1>7 DEF Founded
<1>9. AdaptTypes'
  BY <1>1, <1>4, <1>8, <1>types DEF AdaptTypes
<1>10. WordsFounded'
  BY <1>1 DEF AdaptInv, WordsFounded
<1>11. ASSUME ~together' PROVE OneTraining'
  <2>1. OneTraining
    BY <1>1, <1>11 DEF AdaptInv
  <2>2. totalCmds \in Nat /\ \A t \in Trainers : Len(training[t].todo) \in Nat
    BY <1>types DEF AdaptTypes, Trainings
  <2>3. totalCmds <= Len(pairRows')
    BY <1>4, <1>types, <2>1, <2>2 DEF OneTraining
  <2>4. ASSUME NEW t \in Trainers PROVE RowsLeft(t)'
    <3>1. RowsLeft(t)
      BY <2>1 DEF OneTraining
    <3>2. QED
      BY <1>1, <1>4, <1>types, <2>2, <3>1 DEF RowsLeft
  <2>5. QED
    BY <1>1, <2>1, <2>3, <2>4 DEF OneTraining
<1>12. QED
  BY <1>7, <1>9, <1>10, <1>11 DEF AdaptInv, PlacesFounded

LEMMA TeachInv ==
  ASSUME AdaptInv, NEW ctx \in Contexts, NEW x \in Places, NEW ok \in BOOLEAN, MLTeach(ctx, x, ok) PROVE AdaptInv'
<1>types. AdaptTypes /\ PlacesFounded /\ WordsFounded
  BY DEF AdaptInv
<1>1. taught' = taught + 1 /\ wordToCmds' = CountWords(ctx, ok) /\ coordIndex' = CountPlaces(ctx, x, ok)
      /\ UNCHANGED <<sequences, totalCmds, pairRows, training, together>>
  BY DEF MLTeach
<1>2. coordIndex' \in [Keys -> Counts] /\ PlacesFounded'
  BY <1>1, <1>types, CountPlacesFits DEF PlacesFounded
<1>3. wordToCmds' \in [Words -> Tallies]
      /\ \A w \in Words : wordToCmds'[w].success + wordToCmds'[w].fail <= wordToCmds[w].success + wordToCmds[w].fail + 1
  BY <1>1, <1>types, CountWordsFits DEF AdaptTypes
<1>4. AdaptTypes'
  BY <1>1, <1>2, <1>3, <1>types DEF AdaptTypes
<1>5. ASSUME NEW w \in Words PROVE wordToCmds'[w].success + wordToCmds'[w].fail <= totalCmds' + taught'
  <2>1. PICK f \in Tallies : f = wordToCmds[w]
    BY <1>types DEF AdaptTypes
  <2>2. PICK h \in Tallies : h = wordToCmds'[w]
    BY <1>3
  <2>3. h.success + h.fail <= f.success + f.fail + 1 /\ f.success + f.fail <= totalCmds + taught
    BY <1>3, <1>types, <2>1, <2>2 DEF WordsFounded
  <2>4. QED
    BY <1>1, <1>types, <2>2, <2>3 DEF AdaptTypes, Tallies
<1>6. ~together' => OneTraining'
  BY <1>1 DEF AdaptInv, OneTraining, RowsLeft
<1>7. QED
  BY <1>2, <1>4, <1>5, <1>6 DEF AdaptInv, WordsFounded

LEMMA ReverseFits == ASSUME NEW S, NEW s \in Seq(S) PROVE Reverse(s) \in Seq(S) /\ Len(Reverse(s)) = Len(s)
<1>1. Len(s) \in Nat /\ \A i \in 1..Len(s) : (Len(s) - i) + 1 \in 1..Len(s) /\ s[(Len(s) - i) + 1] \in S
  OBVIOUS
<1>2. QED
  BY <1>1 DEF Reverse

\* (One trainer goes on to another state.)
LEMMA TrainerGoesOn ==
  ASSUME AdaptTypes, NEW t \in Trainers, NEW s \in Trainings, training' = [training EXCEPT ![t] = s]
  PROVE  training' \in [Trainers -> Trainings] /\ training'[t] = s /\ \A u \in Trainers : u # t => training'[u] = training[u]
BY DEF AdaptTypes

LEMMA TrainQueryInv == ASSUME AdaptInv, NEW t \in Trainers, TrainQuery(t) PROVE AdaptInv'
<1>types. AdaptTypes
  BY DEF AdaptInv
<1>1. PICK s : s = [at |-> "clear", todo |-> Reverse(pairRows)]
  OBVIOUS
<1>2. training' = [training EXCEPT ![t] = s] /\ together' = (together \/ \E u \in Trainers \ {t} : training[u].at # "idle")
      /\ UNCHANGED <<coordIndex, wordToCmds, sequences, totalCmds, pairRows, uses, taught>>
  BY <1>1 DEF TrainQuery
<1>3. s \in Trainings /\ s.at = "clear" /\ Len(s.todo) = Len(pairRows)
  <2>1. Reverse(pairRows) \in Seq(Pairs) /\ Len(Reverse(pairRows)) = Len(pairRows)
    BY <1>types, ReverseFits DEF AdaptTypes
  <2>2. QED
    BY <1>1, <2>1 DEF Trainings
<1>4. training' \in [Trainers -> Trainings] /\ training'[t] = s /\ \A u \in Trainers : u # t => training'[u] = training[u]
  BY <1>2, <1>3, <1>types, TrainerGoesOn
<1>5. AdaptTypes'
  BY <1>2, <1>4, <1>types DEF AdaptTypes
<1>6. PlacesFounded' /\ WordsFounded'
  BY <1>2 DEF AdaptInv, PlacesFounded, WordsFounded
<1>7. ASSUME ~together' PROVE OneTraining'
  <2>1. OneTraining /\ \A u \in Trainers : u # t => training[u].at = "idle"
    BY <1>2, <1>7 DEF AdaptInv
  <2>2. \A u \in Trainers : u # t => training'[u].at = "idle"
    BY <1>4, <2>1
  <2>3. Len(pairRows) \in Nat
    BY <1>types DEF AdaptTypes
  <2>4. \A u \in Trainers : RowsLeft(u)'
    BY <1>2, <1>3, <1>4, <2>2, <2>3 DEF RowsLeft
  <2>5. QED
    BY <1>2, <2>1, <2>2, <2>4 DEF OneTraining
<1>8. QED
  BY <1>5, <1>6, <1>7 DEF AdaptInv

LEMMA TrainClearInv == ASSUME AdaptInv, NEW t \in Trainers, TrainClear(t) PROVE AdaptInv'
<1>types. AdaptTypes
  BY DEF AdaptInv
<1>1. training[t] \in Trainings /\ training[t].at = "clear"
  BY <1>types DEF AdaptTypes, TrainClear
<1>2. PICK s : s = [training[t] EXCEPT !.at = "rows"]
  OBVIOUS
<1>3. s \in Trainings /\ s.at = "rows" /\ s.todo = training[t].todo
  BY <1>1, <1>2 DEF Trainings
<1>4. training' = [training EXCEPT ![t] = s] /\ coordIndex' = Blank /\ wordToCmds' = NoWords /\ totalCmds' = 0
      /\ UNCHANGED <<pairRows, uses, taught, together>>
  BY <1>2 DEF TrainClear
<1>5. training' \in [Trainers -> Trainings] /\ training'[t] = s /\ \A u \in Trainers : u # t => training'[u] = training[u]
  BY <1>3, <1>4, <1>types, TrainerGoesOn
<1>6. AdaptTypes'
  BY <1>4, <1>5, <1>types, BlankFits, NoWordsFit DEF AdaptTypes
<1>7. PlacesFounded' /\ WordsFounded'
  BY <1>4, <1>types, BlankFits, NoWordsFit DEF AdaptTypes, PlacesFounded, WordsFounded
<1>8. ASSUME ~together' PROVE OneTraining'
  <2>1. OneTraining
    BY <1>4, <1>8 DEF AdaptInv
  <2>2. \A u \in Trainers : u # t => training'[u].at = "idle"
    BY <1>1, <1>5, <2>1 DEF OneTraining
  <2>3. Len(pairRows) \in Nat /\ Len(s.todo) \in Nat /\ Len(s.todo) <= Len(pairRows)
    BY <1>1, <1>3, <1>types, <2>1 DEF AdaptTypes, Trainings, OneTraining, RowsLeft
  <2>4. \A u \in Trainers : RowsLeft(u)'
    BY <1>3, <1>4, <1>5, <2>2, <2>3 DEF RowsLeft
  <2>5. QED
    BY <1>4, <2>2, <2>3, <2>4 DEF OneTraining
<1>9. QED
  BY <1>6, <1>7, <1>8 DEF AdaptInv

LEMMA TrainRowInv == ASSUME AdaptInv, NEW t \in Trainers, TrainRow(t) PROVE AdaptInv'
<1>types. AdaptTypes /\ PlacesFounded /\ WordsFounded
  BY DEF AdaptInv
<1>1. training[t] \in Trainings /\ training[t].at = "rows" /\ training[t].todo # <<>> /\ training[t].todo \in Seq(Pairs)
  BY <1>types DEF AdaptTypes, TrainRow, Trainings
<1>2. PICK r : r = Head(training[t].todo)
  OBVIOUS
<1>3. r \in Pairs /\ Tail(training[t].todo) \in Seq(Pairs) /\ Len(Tail(training[t].todo)) = Len(training[t].todo) - 1
  BY <1>1, <1>2
<1>4. r.ctx \in Contexts /\ r.x \in Places /\ r.ok \in BOOLEAN
  BY <1>3 DEF Pairs
<1>5. PICK s : s = [training[t] EXCEPT !.todo = Tail(training[t].todo)]
  OBVIOUS
<1>6. s \in Trainings /\ s.at = "rows" /\ s.todo = Tail(training[t].todo)
  BY <1>1, <1>3, <1>5 DEF Trainings
<1>7. wordToCmds' = CountWords(r.ctx, r.ok) /\ coordIndex' = CountPlaces(r.ctx, r.x, r.ok) /\ totalCmds' = totalCmds + 1
      /\ training' = [training EXCEPT ![t] = s] /\ UNCHANGED <<sequences, pairRows, uses, taught, together>>
  BY <1>2, <1>5 DEF TrainRow
<1>8. training' \in [Trainers -> Trainings] /\ training'[t] = s /\ \A u \in Trainers : u # t => training'[u] = training[u]
  BY <1>6, <1>7, <1>types, TrainerGoesOn
<1>9. coordIndex' \in [Keys -> Counts] /\ PlacesFounded'
  BY <1>4, <1>7, <1>types, CountPlacesFits DEF PlacesFounded
<1>10. wordToCmds' \in [Words -> Tallies]
      /\ \A w \in Words : wordToCmds'[w].success + wordToCmds'[w].fail <= wordToCmds[w].success + wordToCmds[w].fail + 1
  BY <1>4, <1>7, <1>types, CountWordsFits DEF AdaptTypes
<1>11. AdaptTypes'
  BY <1>7, <1>8, <1>9, <1>10, <1>types DEF AdaptTypes
<1>12. ASSUME NEW w \in Words PROVE wordToCmds'[w].success + wordToCmds'[w].fail <= totalCmds' + taught'
  <2>1. PICK f \in Tallies : f = wordToCmds[w]
    BY <1>types DEF AdaptTypes
  <2>2. PICK h \in Tallies : h = wordToCmds'[w]
    BY <1>10
  <2>3. h.success + h.fail <= f.success + f.fail + 1 /\ f.success + f.fail <= totalCmds + taught
    BY <1>10, <1>types, <2>1, <2>2 DEF WordsFounded
  <2>4. QED
    BY <1>7, <1>types, <2>2, <2>3 DEF AdaptTypes, Tallies
<1>13. ASSUME ~together' PROVE OneTraining'
  <2>1. OneTraining
    BY <1>7, <1>13 DEF AdaptInv
  <2>2. \A u \in Trainers : u # t => training'[u].at = "idle"
    BY <1>1, <1>8, <2>1 DEF OneTraining
  <2>3. Len(training[t].todo) \in Nat /\ Len(s.todo) \in Nat /\ Len(pairRows) \in Nat /\ totalCmds \in Nat
    BY <1>1, <1>6, <1>types DEF AdaptTypes, Trainings
  <2>4. totalCmds + Len(training[t].todo) <= Len(pairRows) /\ Len(s.todo) = Len(training[t].todo) - 1
    BY <1>1, <1>3, <1>6, <2>1 DEF OneTraining, RowsLeft
  <2>5. totalCmds' <= Len(pairRows) /\ totalCmds' + Len(s.todo) <= Len(pairRows)
    <3>1. PICK a, b, c, d \in Nat : a = totalCmds /\ b = Len(training[t].todo) /\ c = Len(s.todo) /\ d = Len(pairRows)
      BY <2>3
    <3>2. a + b <= d /\ c = b - 1 /\ totalCmds' = a + 1
      BY <1>7, <2>4, <3>1
    <3>3. a + 1 <= d /\ (a + 1) + c <= d
      BY <3>2
    <3>4. QED
      BY <3>1, <3>2, <3>3
  <2>6. \A u \in Trainers : RowsLeft(u)'
    BY <1>6, <1>7, <1>8, <2>2, <2>5 DEF RowsLeft
  <2>7. QED
    BY <1>7, <2>2, <2>5, <2>6 DEF OneTraining
<1>14. QED
  BY <1>9, <1>11, <1>12, <1>13 DEF AdaptInv, WordsFounded

LEMMA RebuildInv == ASSUME AdaptInv, NEW t \in Trainers, RebuildSequences(t) PROVE AdaptInv'
<1>types. AdaptTypes
  BY DEF AdaptInv
<1>1. training[t] \in Trainings
  BY <1>types DEF AdaptTypes
<1>2. PICK s : s = [training[t] EXCEPT !.at = "idle"]
  OBVIOUS
<1>3. s \in Trainings /\ s.at = "idle"
  BY <1>1, <1>2 DEF Trainings
<1>4. training' = [training EXCEPT ![t] = s]
      /\ UNCHANGED <<coordIndex, wordToCmds, totalCmds, pairRows, uses, taught, together>>
  BY <1>2 DEF RebuildSequences
<1>5. training' \in [Trainers -> Trainings] /\ training'[t] = s /\ \A u \in Trainers : u # t => training'[u] = training[u]
  BY <1>3, <1>4, <1>types, TrainerGoesOn
<1>6. AdaptTypes' /\ PlacesFounded' /\ WordsFounded'
  BY <1>4, <1>5, <1>types DEF AdaptInv, AdaptTypes, PlacesFounded, WordsFounded
<1>7. ~together' => OneTraining'
  BY <1>3, <1>4, <1>5 DEF AdaptInv, OneTraining, RowsLeft
<1>8. QED
  BY <1>6, <1>7 DEF AdaptInv

LEMMA ResetInv == ASSUME AdaptInv, ResetAdaptive PROVE AdaptInv'
<1>types. AdaptTypes
  BY DEF AdaptInv
<1>1. coordIndex' = Blank /\ wordToCmds' = NoWords /\ totalCmds' = 0 /\ UNCHANGED <<pairRows, training, uses, taught, together>>
  BY DEF ResetAdaptive
<1>2. AdaptTypes' /\ PlacesFounded' /\ WordsFounded'
  BY <1>1, <1>types, BlankFits, NoWordsFit DEF AdaptTypes, PlacesFounded, WordsFounded
<1>3. ASSUME ~together' PROVE OneTraining'
  <2>1. OneTraining
    BY <1>1, <1>3 DEF AdaptInv
  <2>2. Len(pairRows) \in Nat /\ totalCmds \in Nat /\ \A t \in Trainers : Len(training[t].todo) \in Nat
    BY <1>types DEF AdaptTypes, Trainings
  <2>3. \A t \in Trainers : RowsLeft(t)'
    BY <1>1, <2>1, <2>2 DEF OneTraining, RowsLeft
  <2>4. QED
    BY <1>1, <2>1, <2>2, <2>3 DEF OneTraining
<1>4. QED
  BY <1>2, <1>3 DEF AdaptInv

LEMMA AdaptStepInv == AdaptInv /\ [AdaptNext]_adaptVars => AdaptInv'
<1> SUFFICES ASSUME AdaptInv, [AdaptNext]_adaptVars PROVE AdaptInv'
  OBVIOUS
<1>1. ASSUME NEW x \in Places, NEW ok \in BOOLEAN, LearnFromCommand(x, ok) PROVE AdaptInv'
  BY <1>1, UseInv
<1>2. ASSUME NEW x \in Places, NEW ok \in BOOLEAN, NEW ctx \in Contexts, LearnFromCommandWithContext(ctx, x, ok) PROVE AdaptInv'
  BY <1>2, UseWithContextInv
<1>3. ASSUME NEW x \in Places, NEW ok \in BOOLEAN, NEW ctx \in Contexts, MLTeach(ctx, x, ok) PROVE AdaptInv'
  BY <1>3, TeachInv
<1>4. ASSUME NEW t \in Trainers, TrainerOf(t) PROVE AdaptInv'
  BY <1>4, TrainQueryInv, TrainClearInv, TrainRowInv, RebuildInv DEF TrainerOf
<1>5. ASSUME ResetAdaptive PROVE AdaptInv'
  BY <1>5, ResetInv
<1>6. ASSUME UNCHANGED adaptVars PROVE AdaptInv'
  <2>1. UNCHANGED <<coordIndex, wordToCmds, totalCmds, pairRows, training, taught, together>>
    BY <1>6 DEF adaptVars
  <2>2. AdaptTypes' /\ PlacesFounded' /\ WordsFounded'
    BY <2>1 DEF AdaptInv, AdaptTypes, PlacesFounded, WordsFounded
  <2>3. OneTraining' = OneTraining
    BY <2>1 DEF OneTraining, RowsLeft
  <2>4. QED
    BY <2>1, <2>2, <2>3 DEF AdaptInv
<1>7. QED
  BY <1>1, <1>2, <1>3, <1>4, <1>5, <1>6 DEF AdaptNext

\* No word goes with the tool more often than the tool was used and taught,
\* what is predicted lies between places the tool went to, and the total is of
\* the pairs in the log unless two trainings overlapped.
THEOREM StatisticsFoundedHolds == AdaptSpec => []StatisticsFounded
BY AdaptInitInv, AdaptStepInv, AdaptInvFounded, PTL DEF AdaptSpec

-----------------------------------------------------------------------------
(* The element priors                                                        *)

Samples == [n : Nat, window : Windows, elements : Frames]
Sees(u, k) == u.window = k[2] /\ FirstOf(u.elements, k[1]) # {}
PlaceOf(u, k) == u.elements[Min(FirstOf(u.elements, k[1]))].at
PassesOver(h, u, k) == u.window = k[2] /\ u.elements = <<>> /\ SightingsIn(h, k) # {}

LEMMA FrameFits ==
  ASSUME NEW u \in Samples
  PROVE  /\ Len(u.elements) \in Nat /\ DOMAIN u.elements = 1..Len(u.elements) /\ u.window \in Windows
         /\ \A i \in 1..Len(u.elements) : u.elements[i].class \in DetectorLabels /\ u.elements[i].at \in PlacesOf
<1>1. u.elements \in Seq([class : DetectorLabels, at : PlacesOf]) /\ u.window \in Windows
  BY PriorAssumption DEF Samples
<1>2. PICK e, E : e = u.elements /\ E = [class : DetectorLabels, at : PlacesOf]
  OBVIOUS
<1>3. e \in Seq(E)
  BY <1>1, <1>2
<1>4. Len(e) \in Nat /\ DOMAIN e = 1..Len(e) /\ \A i \in 1..Len(e) : e[i].class \in DetectorLabels /\ e[i].at \in PlacesOf
  <2>1. Len(e) \in Nat /\ DOMAIN e = 1..Len(e) /\ \A i \in 1..Len(e) : e[i] \in E
    BY <1>3
  <2>2. QED
    BY <1>2, <2>1
<1>5. QED
  BY <1>1, <1>2, <1>4

\* A class is sighted first in one element, if any is of it.
LEMMA FirstThere ==
  ASSUME NEW u \in Samples, NEW c
  PROVE  /\ (FirstOf(u.elements, c) # {}) = (\E i \in 1..Len(u.elements) : u.elements[i].class = c)
         /\ FirstOf(u.elements, c) # {} => /\ Min(FirstOf(u.elements, c)) \in FirstOf(u.elements, c)
                                           /\ Min(FirstOf(u.elements, c)) \in 1..Len(u.elements)
<1>1. Len(u.elements) \in Nat /\ DOMAIN u.elements = 1..Len(u.elements)
  BY FrameFits
<1>2. PICK first : first = FirstOf(u.elements, c)
  OBVIOUS
<1>3. \A i \in first : i \in 1..Len(u.elements) /\ u.elements[i].class = c /\ \A j \in 1..(i - 1) : u.elements[j].class # c
  BY <1>1, <1>2 DEF FirstOf
<1>4. ASSUME NEW i \in 1..Len(u.elements), u.elements[i].class = c PROVE first # {}
  <2>1. PICK T : T = {m \in 1..Len(u.elements) : u.elements[m].class = c}
    OBVIOUS
  <2>2. T \in SUBSET Nat /\ T # {}
    BY <1>4, <2>1
  <2>3. PICK m \in T : \A x \in T : m <= x
    BY <2>2, LeastNumber
  <2>4. m \in 1..Len(u.elements) /\ u.elements[m].class = c
    BY <2>1, <2>3
  <2>5. ASSUME NEW j \in 1..(m - 1) PROVE u.elements[j].class # c
    <3>1. j \in 1..Len(u.elements) /\ ~(m <= j)
      BY <1>1, <2>4
    <3>2. QED
      BY <2>1, <2>3, <3>1
  <2>6. m \in first
    BY <1>1, <1>2, <2>4, <2>5 DEF FirstOf
  <2>7. QED
    BY <2>6
<1>5. ASSUME first # {} PROVE Min(first) \in first
  <2>1. first \in SUBSET Nat
    BY <1>3
  <2>2. \E n \in first : \A m \in first : n <= m
    BY <1>5, <2>1, LeastNumber
  <2>3. QED
    BY <2>2 DEF Min
<1>6. (first # {}) = (\E i \in 1..Len(u.elements) : u.elements[i].class = c)
  BY <1>3, <1>4
<1>7. QED
  BY <1>2, <1>3, <1>5, <1>6

LEMMA PlaceFits == ASSUME NEW u \in Samples, NEW k, Sees(u, k) PROVE PlaceOf(u, k) \in PlacesOf /\ PlaceOf(u, k) \in Nat
<1>1. Min(FirstOf(u.elements, k[1])) \in 1..Len(u.elements)
  BY FirstThere DEF Sees
<1>2. PlaceOf(u, k) \in PlacesOf
  BY <1>1, FrameFits DEF PlaceOf
<1>3. QED
  BY <1>2, PriorAssumption

\* What a history tells of a key, read off its samples.
LEMMA SightingsMean ==
  ASSUME NEW h \in Seq(Samples), NEW k
  PROVE  /\ SightingsIn(h, k) = {n \in 1..Len(h) : Sees(h[n], k)}
         /\ \A n : PlaceIn(h, k, n) = PlaceOf(h[n], k)
         /\ FramesIn(h, k) = {n \in 1..Len(h) : h[n].window = k[2] /\ h[n].elements = <<>> /\ \E m \in SightingsIn(h, k) : m < n}
         /\ \A n \in SightingsIn(h, k) : PlaceIn(h, k, n) \in PlacesOf /\ PlaceIn(h, k, n) \in Nat
<1>1. DOMAIN h = 1..Len(h) /\ \A n \in 1..Len(h) : h[n] \in Samples
  OBVIOUS
<1>2. SightingsIn(h, k) = {n \in 1..Len(h) : Sees(h[n], k)}
  BY <1>1 DEF SightingsIn, Sees
<1>3. \A n : PlaceIn(h, k, n) = PlaceOf(h[n], k)
  BY DEF PlaceIn, PlaceOf
<1>4. FramesIn(h, k) = {n \in 1..Len(h) : h[n].window = k[2] /\ h[n].elements = <<>> /\ \E m \in SightingsIn(h, k) : m < n}
  BY <1>1 DEF FramesIn
<1>5. \A n \in SightingsIn(h, k) : PlaceIn(h, k, n) \in PlacesOf /\ PlaceIn(h, k, n) \in Nat
  BY <1>1, <1>2, <1>3, PlaceFits
<1>6. QED
  BY <1>2, <1>3, <1>4, <1>5

Worth(h, k, n) == IF n \in SightingsIn(h, k) THEN PlaceIn(h, k, n) ELSE 0
SumsUp(f, h, k) ==
  f \in [0..Len(h) -> Nat] /\ f[0] = 0 /\ \A n \in 1..Len(h) : f[n] = f[n - 1] + Worth(h, k, n)

LEMMA WorthFits == ASSUME NEW h \in Seq(Samples), NEW k, NEW n PROVE Worth(h, k, n) \in Nat
BY SightingsMean DEF Worth

LEMMA PlacesSumUp ==
  ASSUME NEW h \in Seq(Samples), NEW k
  PROVE  \E f : SumsUp(f, h, k) /\ PlacesSum(h, k) = f[Len(h)]
<1>0. PICK N : N = Len(h)
  OBVIOUS
<1> DEFINE Next(f, n) == IF n = 0 THEN 0 ELSE f[n - 1] + (IF n \in SightingsIn(h, k) THEN PlaceIn(h, k, n) ELSE 0)
<1>1. N \in Nat
  BY <1>0
<1>2. \A n \in 1..N : Worth(h, k, n) \in Nat
  BY WorthFits
<1>3. PICK g : g = [n \in 1..N |-> [s \in Nat |-> s + Worth(h, k, n)]]
  OBVIOUS
<1>4. g \in [1..N -> [Nat -> Nat]]
  BY <1>2, <1>3
<1>5. PICK f \in [0..N -> Nat] : f[0] = 0 /\ \A n \in 1..N : f[n] = g[n][f[n - 1]]
  <2> HIDE DEF Next
  <2>1. PICK S, z : S = Nat /\ z = 0
    OBVIOUS
  <2>2. z \in S /\ g \in [1..N -> [S -> S]]
    BY <1>4, <2>1
  <2>3. \E f \in [0..N -> S] : f[0] = z /\ \A n \in 1..N : f[n] = g[n][f[n - 1]]
    BY <1>1, <2>2, StepByStep
  <2>4. QED
    BY <2>1, <2>3
<1>6. ASSUME NEW n \in 0..N PROVE f[n] = Next(f, n)
  <2>1. CASE n = 0
    BY <1>5, <2>1
  <2>2. CASE n # 0
    <3>1. n \in 1..N /\ n - 1 \in 0..N
      BY <1>1, <2>2
    <3>2. f[n - 1] \in Nat
      BY <1>5, <3>1
    <3>3. g[n][f[n - 1]] = f[n - 1] + Worth(h, k, n)
      BY <1>3, <3>1, <3>2
    <3>4. QED
      BY <1>5, <2>2, <3>1, <3>3 DEF Worth
  <2>3. QED
    BY <2>1, <2>2
<1>7. f = [n \in 0..N |-> Next(f, n)]
  BY <1>5, <1>6
<1>8. PICK u : u = [n \in 0..N |-> Next(u, n)] /\ PlacesSum(h, k) = u[N]
  <2> DEFINE c == CHOOSE v : v = [n \in 0..N |-> Next(v, n)]
  <2>1. c = [n \in 0..N |-> Next(c, n)]
    BY <1>7, Zenon
  <2>2. PlacesSum(h, k) = c[N]
    BY <1>0, <1>1 DEF PlacesSum
  <2>3. QED
    BY <2>1, <2>2
<1>9. \A n \in 0..N : u[n] = Next(u, n)
  BY <1>8
<1>10. \A n \in 1..N : u[n] = u[n - 1] + Worth(h, k, n)
  <2>1. ASSUME NEW n \in 1..N PROVE u[n] = u[n - 1] + Worth(h, k, n)
    <3>1. n \in 0..N /\ n # 0
      BY <1>1
    <3>2. QED
      BY <1>9, <3>1 DEF Worth
  <2>2. QED
    BY <2>1
<1>11. u[0] = 0
  <2>1. 0 \in 0..N
    BY <1>1
  <2>2. QED
    BY <1>9, <2>1
<1> HIDE DEF Next
<1>12. ASSUME NEW m \in 0..N PROVE u[m] \in Nat
  <2> DEFINE J == {n \in 0..m : u[n] \in Nat}
  <2>1. 0 \in J
    BY <1>1, <1>11
  <2>2. ASSUME NEW n \in 0..m, n \in J, n # m PROVE n + 1 \in J
    <3>1. n + 1 \in 1..N /\ n + 1 \in 0..m /\ (n + 1) - 1 = n
      BY <1>1, <1>12, <2>2
    <3>2. u[n + 1] = u[n] + Worth(h, k, n + 1)
      BY <1>10, <3>1
    <3>3. u[n] \in Nat /\ Worth(h, k, n + 1) \in Nat
      BY <2>2, WorthFits
    <3>4. QED
      BY <3>1, <3>2, <3>3
  <2> HIDE DEF J
  <2>3. m \in J
    BY <1>1, <2>1, <2>2, CountUp
  <2>4. QED
    BY <2>3 DEF J
<1>13. u \in [0..N -> Nat]
  <2>1. DOMAIN u = 0..N
    BY <1>8
  <2>2. u = [n \in 0..N |-> u[n]]
    BY <1>8
  <2>3. QED
    BY <1>12, <2>2
<1>14. QED
  BY <1>0, <1>8, <1>10, <1>11, <1>13 DEF SumsUp

CountIn(h, k) == Cardinality(SightingsIn(h, k))
PassedIn(h, k) == Cardinality(FramesIn(h, k))
PlacesSeen(h, k) == {PlaceIn(h, k, n) : n \in SightingsIn(h, k)}

LEMMA CountsFit ==
  ASSUME NEW h \in Seq(Samples), NEW k
  PROVE  /\ IsFiniteSet(SightingsIn(h, k)) /\ IsFiniteSet(FramesIn(h, k)) /\ CountIn(h, k) \in Nat /\ PassedIn(h, k) \in Nat
         /\ (CountIn(h, k) = 0) = (SightingsIn(h, k) = {})
<1>1. Len(h) \in Nat
  OBVIOUS
<1>2. IsFiniteSet(1..Len(h))
  BY <1>1, FS_Interval
<1>3. SightingsIn(h, k) \in SUBSET (1..Len(h))
  BY SightingsMean
<1>4. FramesIn(h, k) \in SUBSET (1..Len(h))
  BY SightingsMean
<1>5. IsFiniteSet(SightingsIn(h, k))
  BY <1>2, <1>3, FS_Subset
<1>6. IsFiniteSet(FramesIn(h, k))
  BY <1>2, <1>4, FS_Subset
<1>7. CountIn(h, k) \in Nat /\ PassedIn(h, k) \in Nat
  BY <1>5, <1>6, FS_CardinalityType DEF CountIn, PassedIn
<1>8. (CountIn(h, k) = 0) = (SightingsIn(h, k) = {})
  BY <1>5, FS_EmptySet DEF CountIn
<1>9. QED
  BY <1>5, <1>6, <1>7, <1>8

LEMMA NothingSeen ==
  ASSUME NEW h \in Seq(Samples), NEW k, SightingsIn(h, k) = {}
  PROVE  CountIn(h, k) = 0 /\ PassedIn(h, k) = 0 /\ PlacesSum(h, k) = 0
<1>1. FramesIn(h, k) = {}
  BY SightingsMean
<1>2. CountIn(h, k) = 0 /\ PassedIn(h, k) = 0
  BY <1>1, FS_EmptySet DEF CountIn, PassedIn
<1>3. PICK f : SumsUp(f, h, k) /\ PlacesSum(h, k) = f[Len(h)]
  BY PlacesSumUp
<1> DEFINE I == {n \in 0..Len(h) : f[n] = 0}
<1>4. Len(h) \in Nat
  OBVIOUS
<1>5. 0 \in I
  <2>1. 0 \in 0..Len(h)
    BY <1>4
  <2>2. QED
    BY <1>3, <2>1 DEF SumsUp
<1>6. ASSUME NEW n \in 0..Len(h), n \in I, n # Len(h) PROVE n + 1 \in I
  <2>1. n + 1 \in 1..Len(h) /\ n + 1 \in 0..Len(h) /\ (n + 1) - 1 = n
    BY <1>4, <1>6
  <2>2. f[n + 1] = f[n] + Worth(h, k, n + 1)
    <3>1. f[n + 1] = f[(n + 1) - 1] + Worth(h, k, n + 1)
      BY <1>3, <2>1 DEF SumsUp
    <3>2. QED
      BY <2>1, <3>1
  <2>3. Worth(h, k, n + 1) = 0
    BY DEF Worth
  <2>4. QED
    BY <1>6, <2>1, <2>2, <2>3
<1> HIDE DEF I
<1>7. Len(h) \in I
  BY <1>4, <1>5, <1>6, CountUp
<1>8. QED
  BY <1>2, <1>3, <1>7 DEF I

GrownBy(old, new, n) == n \notin old /\ new = old \cup {n}

\* What one more sample adds.
LEMMA SightingsGrow ==
  ASSUME NEW h \in Seq(Samples), NEW u \in Samples, NEW k, NEW g, g = Append(h, u)
  PROVE  /\ g \in Seq(Samples) /\ Len(h) \in Nat /\ Len(g) = Len(h) + 1 /\ g[Len(h) + 1] = u
         /\ \A n \in 1..Len(h) : g[n] = h[n]
         /\ Sees(u, k) => GrownBy(SightingsIn(h, k), SightingsIn(g, k), Len(h) + 1)
         /\ ~Sees(u, k) => SightingsIn(g, k) = SightingsIn(h, k)
         /\ PassesOver(h, u, k) => GrownBy(FramesIn(h, k), FramesIn(g, k), Len(h) + 1)
         /\ ~PassesOver(h, u, k) => FramesIn(g, k) = FramesIn(h, k)
<1>1. g \in Seq(Samples) /\ Len(h) \in Nat /\ Len(g) = Len(h) + 1 /\ g[Len(h) + 1] = u /\ \A n \in 1..Len(h) : g[n] = h[n]
  OBVIOUS
<1>2. \A n \in 1..Len(g) : n \in 1..Len(h) \/ n = Len(h) + 1
  BY <1>1
<1>3. PICK old, new : old = SightingsIn(h, k) /\ new = SightingsIn(g, k)
  OBVIOUS
<1>4. old = {n \in 1..Len(h) : Sees(h[n], k)} /\ new = {n \in 1..Len(g) : Sees(g[n], k)}
  BY <1>1, <1>3, SightingsMean
<1>5. new = old \cup {n \in {Len(h) + 1} : Sees(u, k)}
  <2>1. ASSUME NEW n \in new PROVE n \in old \cup {m \in {Len(h) + 1} : Sees(u, k)}
    BY <1>1, <1>2, <1>4
  <2>2. ASSUME NEW n \in old PROVE n \in new
    BY <1>1, <1>4
  <2>3. Sees(u, k) => Len(h) + 1 \in new
    BY <1>1, <1>4
  <2>4. QED
    BY <2>1, <2>2, <2>3
<1>6. PICK past, next : past = FramesIn(h, k) /\ next = FramesIn(g, k)
  OBVIOUS
<1>7. /\ past = {n \in 1..Len(h) : h[n].window = k[2] /\ h[n].elements = <<>> /\ \E m \in old : m < n}
      /\ next = {n \in 1..Len(g) : g[n].window = k[2] /\ g[n].elements = <<>> /\ \E m \in new : m < n}
  <2>1. FramesIn(h, k) = {n \in 1..Len(h) : h[n].window = k[2] /\ h[n].elements = <<>> /\ \E m \in SightingsIn(h, k) : m < n}
    BY SightingsMean
  <2>2. FramesIn(g, k) = {n \in 1..Len(g) : g[n].window = k[2] /\ g[n].elements = <<>> /\ \E m \in SightingsIn(g, k) : m < n}
    BY <1>1, SightingsMean
  <2>3. QED
    BY <1>3, <1>6, <2>1, <2>2, Zenon
<1>8. \A m \in old : m \in 1..Len(h)
  BY <1>4
<1>9. next = past \cup {n \in {Len(h) + 1} : PassesOver(h, u, k)}
  <2>1. ASSUME NEW n \in next PROVE n \in past \cup {m \in {Len(h) + 1} : PassesOver(h, u, k)}
    <3>1. n \in 1..Len(g) /\ g[n].window = k[2] /\ g[n].elements = <<>>
      BY <1>7
    <3>2. PICK m \in new : m < n
      BY <1>7
    <3>3. m \in old
      <4>1. m \in 1..Len(g) /\ m # Len(h) + 1
        BY <1>1, <1>4, <3>1, <3>2
      <4>2. QED
        BY <1>5, <4>1
    <3>4. CASE n \in 1..Len(h)
      BY <1>1, <1>7, <3>1, <3>2, <3>3, <3>4
    <3>5. CASE n = Len(h) + 1
      BY <1>1, <1>3, <3>1, <3>3, <3>5 DEF PassesOver
    <3>6. QED
      BY <1>2, <3>1, <3>4, <3>5
  <2>2. ASSUME NEW n \in past PROVE n \in next
    <3>1. n \in 1..Len(h) /\ n \in 1..Len(g) /\ g[n] = h[n]
      BY <1>1, <1>7
    <3>2. QED
      BY <1>5, <1>7, <3>1
  <2>3. ASSUME PassesOver(h, u, k) PROVE Len(h) + 1 \in next
    <3>1. PICK m : m \in old
      BY <1>3, <2>3 DEF PassesOver
    <3>2. m \in new /\ m < Len(h) + 1 /\ Len(h) + 1 \in 1..Len(g)
      BY <1>1, <1>5, <1>8, <3>1
    <3>3. QED
      BY <1>1, <1>7, <2>3, <3>2 DEF PassesOver
  <2>4. QED
    BY <2>1, <2>2, <2>3
<1>10. Len(h) + 1 \notin old /\ Len(h) + 1 \notin past
  BY <1>1, <1>4, <1>7
<1>11. (Sees(u, k) => GrownBy(old, new, Len(h) + 1)) /\ (~Sees(u, k) => new = old)
  BY <1>5, <1>10 DEF GrownBy
<1>12. (PassesOver(h, u, k) => GrownBy(past, next, Len(h) + 1)) /\ (~PassesOver(h, u, k) => next = past)
  BY <1>9, <1>10 DEF GrownBy
<1>13. QED
  BY <1>1, <1>3, <1>6, <1>11, <1>12

LEMMA SumGrows ==
  ASSUME NEW h \in Seq(Samples), NEW u \in Samples, NEW k, NEW g, g = Append(h, u)
  PROVE  /\ PlacesSum(h, k) \in Nat
         /\ Sees(u, k) => PlacesSum(g, k) = PlacesSum(h, k) + PlaceOf(u, k)
         /\ ~Sees(u, k) => PlacesSum(g, k) = PlacesSum(h, k)
<1>1. g \in Seq(Samples) /\ Len(h) \in Nat /\ Len(g) = Len(h) + 1 /\ g[Len(h) + 1] = u /\ \A n \in 1..Len(h) : g[n] = h[n]
  BY SightingsGrow
<1>2. PICK N \in Nat : N = Len(h)
  BY <1>1
<1>grown. PICK old, new : old = SightingsIn(h, k) /\ new = SightingsIn(g, k)
  OBVIOUS
<1>old. old = {n \in 1..N : Sees(h[n], k)}
  BY <1>2, <1>grown, SightingsMean
<1>seen. (Sees(u, k) => GrownBy(old, new, N + 1)) /\ (~Sees(u, k) => new = old)
  BY <1>2, <1>grown, SightingsGrow
<1>3. PICK f : SumsUp(f, h, k) /\ PlacesSum(h, k) = f[Len(h)]
  BY PlacesSumUp
<1>4. PICK e : SumsUp(e, g, k) /\ PlacesSum(g, k) = e[Len(g)]
  BY <1>1, PlacesSumUp
<1>5. f \in [0..N -> Nat] /\ f[0] = 0 /\ \A n \in 1..N : f[n] = f[n - 1] + Worth(h, k, n)
  BY <1>2, <1>3 DEF SumsUp
<1>6. e[0] = 0 /\ \A n \in 1..N + 1 : e[n] = e[n - 1] + Worth(g, k, n)
  BY <1>1, <1>2, <1>4 DEF SumsUp
<1>7. ASSUME NEW n \in 1..N PROVE Worth(g, k, n) = Worth(h, k, n)
  <2>1. n # N + 1 /\ g[n] = h[n]
    BY <1>1, <1>2
  <2>2. (n \in SightingsIn(g, k)) = (n \in SightingsIn(h, k))
    BY <1>grown, <1>seen, <2>1 DEF GrownBy
  <2>3. PlaceIn(g, k, n) = PlaceIn(h, k, n)
    BY <2>1 DEF PlaceIn
  <2>4. QED
    BY <2>2, <2>3 DEF Worth
<1>8. (Sees(u, k) => Worth(g, k, N + 1) = PlaceOf(u, k)) /\ (~Sees(u, k) => Worth(g, k, N + 1) = 0)
  <2>1. (N + 1 \in SightingsIn(g, k)) <=> Sees(u, k)
    <3>1. N + 1 \notin old
      BY <1>old
    <3>2. CASE Sees(u, k)
      BY <1>grown, <1>seen, <3>2 DEF GrownBy
    <3>3. CASE ~Sees(u, k)
      <4>1. new = old
        BY <1>seen, <3>3
      <4>2. N + 1 \notin SightingsIn(g, k)
        BY <1>grown, <3>1, <4>1
      <4>3. QED
        BY <3>3, <4>2
    <3>4. QED
      BY <3>2, <3>3
  <2>2. PlaceIn(g, k, N + 1) = PlaceOf(u, k)
    BY <1>1, <1>2 DEF PlaceIn, PlaceOf
  <2>3. QED
    BY <2>1, <2>2 DEF Worth
<1> DEFINE I == {n \in 0..N : e[n] = f[n]}
<1>9. 0 \in I
  BY <1>5, <1>6
<1>10. ASSUME NEW n \in 0..N, n \in I, n # N PROVE n + 1 \in I
  <2>1. n + 1 \in 1..N /\ n + 1 \in 1..N + 1 /\ n + 1 \in 0..N /\ (n + 1) - 1 = n
    BY <1>10
  <2>2. e[n + 1] = e[n] + Worth(g, k, n + 1) /\ f[n + 1] = f[n] + Worth(h, k, n + 1)
    <3>1. e[n + 1] = e[(n + 1) - 1] + Worth(g, k, n + 1)
      BY <1>6, <2>1
    <3>2. f[n + 1] = f[(n + 1) - 1] + Worth(h, k, n + 1)
      BY <1>5, <2>1
    <3>3. QED
      BY <2>1, <3>1, <3>2
  <2>3. QED
    BY <1>7, <1>10, <2>1, <2>2
<1> HIDE DEF I
<1>11. N \in I
  BY <1>9, <1>10, CountUp
<1>12. e[N] = f[N] /\ f[N] \in Nat
  BY <1>5, <1>11 DEF I
<1>13. e[N + 1] = e[N] + Worth(g, k, N + 1)
  <2>1. N + 1 \in 1..N + 1 /\ (N + 1) - 1 = N
    OBVIOUS
  <2>2. e[N + 1] = e[(N + 1) - 1] + Worth(g, k, N + 1)
    BY <1>6, <2>1
  <2>3. QED
    BY <2>1, <2>2
<1>14. QED
  BY <1>1, <1>2, <1>3, <1>4, <1>8, <1>12, <1>13

PriorRows == [count : Nat, frames : Nat, sum : Nat, squares : Nat, share : Nat \X Nat]
\* The mean lies between places where it was seen, and one that was seen in one place only has no spread.
MeanSeen(row, seen) ==
  row.count # 0 => \E lo, hi \in seen : lo * row.count <= row.sum /\ row.sum <= hi * row.count
Still(row, seen) ==
  \A x \in PlacesOf : seen \subseteq {x} => row.sum = x * row.count /\ row.squares = (x * x) * row.count
RowTold(row, h, k) ==
  /\ row \in PriorRows /\ row.count = CountIn(h, k) /\ row.frames = CountIn(h, k) + PassedIn(h, k)
  /\ row.sum = PlacesSum(h, k) /\ MeanSeen(row, PlacesSeen(h, k)) /\ Still(row, PlacesSeen(h, k))
Shared(row) == row.share = <<row.count, row.frames>>

LEMMA NoRowFits == NoRow \in PriorRows /\ NoRow.count = 0 /\ NoRow.frames = 0 /\ NoRow.sum = 0 /\ NoRow.squares = 0
BY DEF NoRow, PriorRows

LEMMA PlacesAreNumbers == \A x \in PlacesOf : x \in Nat /\ x \in Int
BY PriorAssumption

LEMMA NoRowTold ==
  ASSUME NEW h \in Seq(Samples), NEW k, SightingsIn(h, k) = {}
  PROVE  RowTold(NoRow, h, k)
<1>1. CountIn(h, k) = 0 /\ PassedIn(h, k) = 0 /\ PlacesSum(h, k) = 0
  BY NothingSeen
<1>2. MeanSeen(NoRow, PlacesSeen(h, k))
  BY NoRowFits DEF MeanSeen
<1>3. Still(NoRow, PlacesSeen(h, k))
  <2>1. ASSUME NEW x \in PlacesOf PROVE 0 = x * 0 /\ 0 = (x * x) * 0
    <3>1. x \in Int /\ x * x \in Int
      BY PlacesAreNumbers
    <3>2. QED
      BY <3>1
  <2>2. QED
    BY <2>1, NoRowFits DEF Still
<1>4. QED
  BY <1>1, <1>2, <1>3, NoRowFits DEF RowTold

LEMMA SeenFits ==
  ASSUME NEW h \in Seq(Samples), NEW k
  PROVE  \A y \in PlacesSeen(h, k) : y \in PlacesOf /\ y \in Nat
BY SightingsMean DEF PlacesSeen

SeenAlso(old, new, x) == new = old \cup {x}

LEMMA SeenGrows ==
  ASSUME NEW h \in Seq(Samples), NEW u \in Samples, NEW k, NEW g, g = Append(h, u)
  PROVE  /\ Sees(u, k) => SeenAlso(PlacesSeen(h, k), PlacesSeen(g, k), PlaceOf(u, k))
         /\ ~Sees(u, k) => PlacesSeen(g, k) = PlacesSeen(h, k)
<1>1. g \in Seq(Samples) /\ Len(h) \in Nat /\ g[Len(h) + 1] = u /\ \A n \in 1..Len(h) : g[n] = h[n]
  BY SightingsGrow
<1>2. PICK old, new, N : old = SightingsIn(h, k) /\ new = SightingsIn(g, k) /\ N = Len(h) + 1
  OBVIOUS
<1>3. (Sees(u, k) => GrownBy(old, new, N)) /\ (~Sees(u, k) => new = old)
  BY <1>2, SightingsGrow
<1>4. \A n \in old : n \in 1..Len(h)
  BY <1>2, SightingsMean
<1>5. \A n \in old : PlaceIn(g, k, n) = PlaceIn(h, k, n)
  BY <1>1, <1>4 DEF PlaceIn
<1>6. PlaceIn(g, k, N) = PlaceOf(u, k)
  BY <1>1, <1>2 DEF PlaceIn, PlaceOf
<1>7. PlacesSeen(h, k) = {PlaceIn(h, k, n) : n \in old} /\ PlacesSeen(g, k) = {PlaceIn(g, k, n) : n \in new}
  BY <1>2 DEF PlacesSeen
<1>8. ASSUME Sees(u, k) PROVE SeenAlso(PlacesSeen(h, k), PlacesSeen(g, k), PlaceOf(u, k))
  <2>1. new = old \cup {N}
    BY <1>3, <1>8 DEF GrownBy
  <2>2. QED
    BY <1>5, <1>6, <1>7, <2>1 DEF SeenAlso
<1>9. ASSUME ~Sees(u, k) PROVE PlacesSeen(g, k) = PlacesSeen(h, k)
  BY <1>3, <1>5, <1>7, <1>9
<1>10. QED
  BY <1>8, <1>9

LEMMA CountsGrow ==
  ASSUME NEW h \in Seq(Samples), NEW u \in Samples, NEW k, NEW g, g = Append(h, u)
  PROVE  /\ CountIn(h, k) \in Nat /\ PassedIn(h, k) \in Nat
         /\ Sees(u, k) => CountIn(g, k) = CountIn(h, k) + 1
         /\ ~Sees(u, k) => CountIn(g, k) = CountIn(h, k)
         /\ PassesOver(h, u, k) => PassedIn(g, k) = PassedIn(h, k) + 1
         /\ ~PassesOver(h, u, k) => PassedIn(g, k) = PassedIn(h, k)
<1>1. PICK a, b, c, d : a = SightingsIn(h, k) /\ b = SightingsIn(g, k) /\ c = FramesIn(h, k) /\ d = FramesIn(g, k)
  OBVIOUS
<1>2. IsFiniteSet(a) /\ IsFiniteSet(c) /\ Cardinality(a) \in Nat /\ Cardinality(c) \in Nat
  BY <1>1, CountsFit DEF CountIn, PassedIn
<1>3. PICK N : N = Len(h) + 1
  OBVIOUS
<1>4. (Sees(u, k) => GrownBy(a, b, N)) /\ (~Sees(u, k) => b = a)
  BY <1>1, <1>3, SightingsGrow
<1>5. (PassesOver(h, u, k) => GrownBy(c, d, N)) /\ (~PassesOver(h, u, k) => d = c)
  BY <1>1, <1>3, SightingsGrow
<1>6. Sees(u, k) => Cardinality(b) = Cardinality(a) + 1
  BY <1>2, <1>4, FS_AddElement DEF GrownBy
<1>7. PassesOver(h, u, k) => Cardinality(d) = Cardinality(c) + 1
  BY <1>2, <1>5, FS_AddElement DEF GrownBy
<1>8. QED
  BY <1>1, <1>2, <1>4, <1>5, <1>6, <1>7 DEF CountIn, PassedIn

LEMMA NotBoth == ASSUME NEW h, NEW u \in Samples, NEW k, PassesOver(h, u, k) PROVE ~Sees(u, k)
<1>1. u.elements = <<>>
  BY DEF PassesOver
<1>2. FirstOf(u.elements, k[1]) = {}
  BY <1>1 DEF FirstOf
<1>3. QED
  BY <1>2 DEF Sees

\* How much more a longer history tells of a key: a sighting, a frame without it, or nothing.
OneSighting(h, g, x, k) ==
  /\ CountIn(g, k) = CountIn(h, k) + 1 /\ PassedIn(g, k) = PassedIn(h, k)
  /\ PlacesSum(g, k) = PlacesSum(h, k) + x /\ PlacesSeen(g, k) = PlacesSeen(h, k) \cup {x}
OneFrame(h, g, k) ==
  /\ CountIn(g, k) = CountIn(h, k) /\ PassedIn(g, k) = PassedIn(h, k) + 1
  /\ PlacesSum(g, k) = PlacesSum(h, k) /\ PlacesSeen(g, k) = PlacesSeen(h, k)
NothingMore(h, g, k) ==
  /\ CountIn(g, k) = CountIn(h, k) /\ PassedIn(g, k) = PassedIn(h, k)
  /\ PlacesSum(g, k) = PlacesSum(h, k) /\ PlacesSeen(g, k) = PlacesSeen(h, k)
ToldByBoth(h, k) == CountIn(h, k) \in Nat /\ PassedIn(h, k) \in Nat /\ PlacesSum(h, k) \in Nat

LEMMA OneMore ==
  ASSUME NEW h \in Seq(Samples), NEW u \in Samples, NEW k, NEW g, g = Append(h, u)
  PROVE  /\ ToldByBoth(h, k)
         /\ Sees(u, k) => OneSighting(h, g, PlaceOf(u, k), k)
         /\ PassesOver(h, u, k) => OneFrame(h, g, k)
         /\ ~Sees(u, k) /\ ~PassesOver(h, u, k) => NothingMore(h, g, k)
<1>1. /\ CountIn(h, k) \in Nat /\ PassedIn(h, k) \in Nat
      /\ Sees(u, k) => CountIn(g, k) = CountIn(h, k) + 1
      /\ ~Sees(u, k) => CountIn(g, k) = CountIn(h, k)
      /\ PassesOver(h, u, k) => PassedIn(g, k) = PassedIn(h, k) + 1
      /\ ~PassesOver(h, u, k) => PassedIn(g, k) = PassedIn(h, k)
  BY CountsGrow
<1>2. /\ PlacesSum(h, k) \in Nat
      /\ Sees(u, k) => PlacesSum(g, k) = PlacesSum(h, k) + PlaceOf(u, k)
      /\ ~Sees(u, k) => PlacesSum(g, k) = PlacesSum(h, k)
  BY SumGrows
<1>3. /\ Sees(u, k) => SeenAlso(PlacesSeen(h, k), PlacesSeen(g, k), PlaceOf(u, k))
      /\ ~Sees(u, k) => PlacesSeen(g, k) = PlacesSeen(h, k)
  BY SeenGrows
<1>4. PassesOver(h, u, k) => ~Sees(u, k)
  BY NotBoth
<1>5. ToldByBoth(h, k)
  BY <1>1, <1>2 DEF ToldByBoth
<1>6. Sees(u, k) => OneSighting(h, g, PlaceOf(u, k), k)
  BY <1>1, <1>2, <1>3, <1>4 DEF OneSighting, SeenAlso
<1>7. PassesOver(h, u, k) => OneFrame(h, g, k)
  BY <1>1, <1>2, <1>3, <1>4 DEF OneFrame
<1>8. ~Sees(u, k) /\ ~PassesOver(h, u, k) => NothingMore(h, g, k)
  BY <1>1, <1>2, <1>3 DEF NothingMore
<1>9. QED
  BY <1>5, <1>6, <1>7, <1>8

LEMMA LowerMean ==
  ASSUME NEW a \in Int, NEW x \in Int, NEW n \in Nat, NEW s \in Int, a * n <= s
  PROVE  \E m \in {a, x} : m * (n + 1) <= s + x
<1>1. CASE a <= x
  <2>1. a * (n + 1) = a * n + a /\ a * n \in Int
    OBVIOUS
  <2>2. a * (n + 1) <= s + x
    BY <1>1, <2>1
  <2>3. QED
    BY <2>2
<1>2. CASE ~(a <= x)
  <2>1. x * n <= a * n
    BY <1>2, TimesLess
  <2>2. x * (n + 1) = x * n + x /\ x * n \in Int /\ a * n \in Int
    OBVIOUS
  <2>3. x * (n + 1) <= s + x
    BY <2>1, <2>2
  <2>4. QED
    BY <2>3
<1>3. QED
  BY <1>1, <1>2

LEMMA UpperMean ==
  ASSUME NEW b \in Int, NEW x \in Int, NEW n \in Nat, NEW s \in Int, s <= b * n
  PROVE  \E m \in {b, x} : s + x <= m * (n + 1)
<1>1. CASE x <= b
  <2>1. b * (n + 1) = b * n + b /\ b * n \in Int
    OBVIOUS
  <2>2. s + x <= b * (n + 1)
    BY <1>1, <2>1
  <2>3. QED
    BY <2>2
<1>2. CASE ~(x <= b)
  <2>1. b * n <= x * n
    BY <1>2, TimesLess
  <2>2. x * (n + 1) = x * n + x /\ x * n \in Int /\ b * n \in Int
    OBVIOUS
  <2>3. s + x <= x * (n + 1)
    BY <2>1, <2>2
  <2>4. QED
    BY <2>3
<1>3. QED
  BY <1>1, <1>2

LEMMA SightedFits ==
  ASSUME NEW row \in PriorRows, NEW x \in Nat
  PROVE  /\ Sighted(row, x) \in PriorRows /\ Sighted(row, x).count = row.count + 1 /\ Sighted(row, x).frames = row.frames + 1
         /\ Sighted(row, x).sum = row.sum + x /\ Sighted(row, x).squares = row.squares + x * x /\ Shared(Sighted(row, x))
<1>1. x * x \in Nat
  OBVIOUS
<1>2. PICK a, b, c, d \in Nat : a = row.count /\ b = row.frames /\ c = row.sum /\ d = row.squares
  BY DEF PriorRows
<1>3. PICK q \in Nat : q = x * x
  BY <1>1
<1>4. PICK r : r = Sighted(row, x)
  OBVIOUS
<1>5. r = [count |-> a + 1, frames |-> b + 1, sum |-> c + x, squares |-> d + q, share |-> <<a + 1, b + 1>>]
  BY <1>2, <1>3, <1>4 DEF Sighted
<1>6. r \in PriorRows
  <2>1. a + 1 \in Nat /\ b + 1 \in Nat /\ c + x \in Nat /\ d + q \in Nat
    OBVIOUS
  <2>2. <<a + 1, b + 1>> \in Nat \X Nat
    BY <2>1
  <2>3. QED
    BY <1>5, <2>1, <2>2 DEF PriorRows
<1>7. Shared(r)
  BY <1>5 DEF Shared
<1>8. r.count = a + 1 /\ r.frames = b + 1 /\ r.sum = c + x /\ r.squares = d + q
  BY <1>5
<1>9. QED
  BY <1>2, <1>3, <1>4, <1>6, <1>7, <1>8

LEMMA UnsightedFits ==
  ASSUME NEW row \in PriorRows
  PROVE  /\ Unsighted(row) \in PriorRows /\ Unsighted(row).count = row.count /\ Unsighted(row).frames = row.frames + 1
         /\ Unsighted(row).sum = row.sum /\ Unsighted(row).squares = row.squares /\ Shared(Unsighted(row))
<1>1. PICK a, b, c, d \in Nat : a = row.count /\ b = row.frames /\ c = row.sum /\ d = row.squares
  BY DEF PriorRows
<1>2. b + 1 \in Nat /\ <<a, b + 1>> \in Nat \X Nat
  OBVIOUS
<1>3. PICK r : r = Unsighted(row)
  OBVIOUS
<1>4. r = [count |-> a, frames |-> b + 1, sum |-> c, squares |-> d, share |-> <<a, b + 1>>]
  <2>1. PICK z : z = row.share
    OBVIOUS
  <2>2. row = [count |-> a, frames |-> b, sum |-> c, squares |-> d, share |-> z]
    BY <1>1, <2>1 DEF PriorRows
  <2>3. PICK e, w : e = b + 1 /\ w = <<a, b + 1>>
    OBVIOUS
  <2>4. r = [row EXCEPT !.frames = e, !.share = w]
    BY <1>1, <1>3, <2>3 DEF Unsighted
  <2>5. r = [[[count |-> a, frames |-> b, sum |-> c, squares |-> d, share |-> z] EXCEPT !.frames = e] EXCEPT !.share = w]
    BY <2>2, <2>4, Zenon
  <2>6. [[count |-> a, frames |-> b, sum |-> c, squares |-> d, share |-> z] EXCEPT !.frames = e]
          = [count |-> a, frames |-> e, sum |-> c, squares |-> d, share |-> z]
    OBVIOUS
  <2>7. [[count |-> a, frames |-> e, sum |-> c, squares |-> d, share |-> z] EXCEPT !.share = w]
          = [count |-> a, frames |-> e, sum |-> c, squares |-> d, share |-> w]
    OBVIOUS
  <2>8. QED
    BY <2>3, <2>5, <2>6, <2>7
<1>5. r \in PriorRows
  BY <1>2, <1>4 DEF PriorRows
<1>6. r.count = a /\ r.frames = b + 1 /\ r.sum = c /\ r.squares = d
  BY <1>4
<1>7. Shared(r)
  BY <1>4 DEF Shared
<1>8. QED
  BY <1>1, <1>3, <1>5, <1>6, <1>7

LEMMA SightedTold ==
  ASSUME NEW h \in Seq(Samples), NEW u \in Samples, NEW k, NEW g, g = Append(h, u), NEW row, RowTold(row, h, k), Sees(u, k)
  PROVE  RowTold(Sighted(row, PlaceOf(u, k)), g, k) /\ Shared(Sighted(row, PlaceOf(u, k)))
<1>1. PICK x : x = PlaceOf(u, k)
  OBVIOUS
<1>2. x \in PlacesOf /\ x \in Nat /\ x \in Int
  BY <1>1, PlaceFits
<1>3. PICK r : r = Sighted(row, x)
  OBVIOUS
<1>4. row \in PriorRows /\ row.count \in Nat /\ row.sum \in Nat /\ row.squares \in Nat /\ row.frames \in Nat
  BY DEF RowTold, PriorRows
<1>5. /\ r \in PriorRows /\ r.count = row.count + 1 /\ r.frames = row.frames + 1
      /\ r.sum = row.sum + x /\ r.squares = row.squares + x * x /\ Shared(r)
  BY <1>2, <1>3, <1>4, SightedFits
<1>6. ToldByBoth(h, k) /\ OneSighting(h, g, PlaceOf(u, k), k)
  BY OneMore
<1>7. /\ CountIn(g, k) = CountIn(h, k) + 1 /\ CountIn(h, k) \in Nat /\ PassedIn(h, k) \in Nat /\ PassedIn(g, k) = PassedIn(h, k)
      /\ PlacesSum(h, k) \in Nat /\ PlacesSum(g, k) = PlacesSum(h, k) + x
  BY <1>1, <1>6 DEF ToldByBoth, OneSighting
<1>8. PlacesSeen(g, k) = PlacesSeen(h, k) \cup {x}
  BY <1>1, <1>6 DEF OneSighting
<1>9. PICK seen, more : seen = PlacesSeen(h, k) /\ more = PlacesSeen(g, k)
  OBVIOUS
<1>10. more = seen \cup {x} /\ \A y \in seen : y \in PlacesOf /\ y \in Nat /\ y \in Int
  BY <1>8, <1>9, SeenFits, PlacesAreNumbers
<1>11. MeanSeen(r, more)
  <2>1. CASE row.count = 0
    <3>1. CountIn(h, k) = 0
      BY <2>1 DEF RowTold
    <3>2. SightingsIn(h, k) = {}
      BY <3>1, CountsFit
    <3>3. row.sum = 0
      BY <3>2, NothingSeen DEF RowTold
    <3>4. r.count = 1 /\ r.sum = x /\ x * 1 = x /\ x <= x
      BY <1>2, <1>5, <2>1, <3>3
    <3>5. QED
      BY <1>10, <3>4 DEF MeanSeen
  <2>2. CASE row.count # 0
    <3>1. PICK lo, hi \in seen : lo * row.count <= row.sum /\ row.sum <= hi * row.count
      BY <1>9, <2>2 DEF RowTold, MeanSeen
    <3>2. lo \in Int /\ hi \in Int
      BY <1>10, <3>1
    <3>3. PICK n, s \in Nat : n = row.count /\ s = row.sum
      BY <1>4
    <3>l. lo * n <= s /\ s <= hi * n /\ s \in Int
      BY <3>1, <3>3
    <3>4. \E m \in {lo, x} : m * (n + 1) <= s + x
      BY <1>2, <3>2, <3>l, LowerMean
    <3>5. \E m \in {hi, x} : s + x <= m * (n + 1)
      BY <1>2, <3>2, <3>l, UpperMean
    <3>6. PICK a \in more : a * (n + 1) <= s + x
      BY <1>10, <3>1, <3>4
    <3>7. PICK b \in more : s + x <= b * (n + 1)
      BY <1>10, <3>1, <3>5
    <3>8. r.count = n + 1 /\ r.sum = s + x
      BY <1>5, <3>3
    <3>9. QED
      BY <3>6, <3>7, <3>8 DEF MeanSeen
  <2>3. QED
    BY <2>1, <2>2
<1>12. ASSUME NEW y \in PlacesOf, more \subseteq {y} PROVE r.sum = y * r.count /\ r.squares = (y * y) * r.count
  <2>1. x = y /\ seen \subseteq {y}
    BY <1>10, <1>12
  <2>2. row.sum = y * row.count /\ row.squares = (y * y) * row.count
    BY <1>9, <2>1 DEF RowTold, Still
  <2>3. PICK n \in Nat : n = row.count
    BY <1>4
  <2>4. PICK q \in Int : q = y * y
    BY <1>2, <2>1
  <2>5. y * (n + 1) = y * n + y /\ q * (n + 1) = q * n + q
    BY <1>2, <2>1
  <2>6. r.count = n + 1 /\ r.sum = y * n + y /\ r.squares = q * n + q
    BY <1>5, <2>1, <2>2, <2>3, <2>4
  <2>7. QED
    BY <2>4, <2>5, <2>6
<1>13. Still(r, more)
  BY <1>12 DEF Still
<1>14. RowTold(r, g, k)
  <2>1. row.count = CountIn(h, k) /\ row.frames = CountIn(h, k) + PassedIn(h, k) /\ row.sum = PlacesSum(h, k)
    BY DEF RowTold
  <2>2. r.count = CountIn(g, k) /\ r.frames = CountIn(g, k) + PassedIn(g, k) /\ r.sum = PlacesSum(g, k)
    BY <1>5, <1>7, <2>1
  <2>3. QED
    BY <1>5, <1>9, <1>11, <1>13, <2>2 DEF RowTold
<1>15. QED
  BY <1>1, <1>3, <1>5, <1>14

LEMMA UnsightedTold ==
  ASSUME NEW h \in Seq(Samples), NEW u \in Samples, NEW k, NEW g, g = Append(h, u), NEW row, RowTold(row, h, k), PassesOver(h, u, k)
  PROVE  RowTold(Unsighted(row), g, k) /\ Shared(Unsighted(row))
<1>1. PICK r : r = Unsighted(row)
  OBVIOUS
<1>2. row \in PriorRows
  BY DEF RowTold
<1>3. r \in PriorRows /\ r.count = row.count /\ r.frames = row.frames + 1 /\ r.sum = row.sum /\ r.squares = row.squares /\ Shared(r)
  BY <1>1, <1>2, UnsightedFits
<1>4. ToldByBoth(h, k) /\ OneFrame(h, g, k)
  BY OneMore
<1>5. CountIn(g, k) = CountIn(h, k) /\ PassedIn(g, k) = PassedIn(h, k) + 1 /\ CountIn(h, k) \in Nat /\ PassedIn(h, k) \in Nat
  BY <1>4 DEF ToldByBoth, OneFrame
<1>6. PlacesSum(g, k) = PlacesSum(h, k)
  BY <1>4 DEF OneFrame
<1>7. PlacesSeen(g, k) = PlacesSeen(h, k)
  BY <1>4 DEF OneFrame
<1>8. RowTold(r, g, k)
  <2>1. row.count = CountIn(h, k) /\ row.frames = CountIn(h, k) + PassedIn(h, k) /\ row.sum = PlacesSum(h, k)
    BY DEF RowTold
  <2>2. r.count = CountIn(g, k) /\ r.frames = CountIn(g, k) + PassedIn(g, k) /\ r.sum = PlacesSum(g, k)
    BY <1>3, <1>5, <1>6, <2>1
  <2>3. MeanSeen(r, PlacesSeen(g, k)) /\ Still(r, PlacesSeen(g, k))
    BY <1>3, <1>7 DEF RowTold, MeanSeen, Still
  <2>4. QED
    BY <1>3, <2>2, <2>3 DEF RowTold
<1>9. QED
  BY <1>1, <1>3, <1>8

LEMMA UntouchedTold ==
  ASSUME NEW h \in Seq(Samples), NEW u \in Samples, NEW k, NEW g, g = Append(h, u), NEW row, RowTold(row, h, k),
         ~Sees(u, k), ~PassesOver(h, u, k)
  PROVE  RowTold(row, g, k)
<1>1. NothingMore(h, g, k)
  BY OneMore
<1>2. QED
  BY <1>1 DEF NothingMore, RowTold

RowStands(table, h, k) ==
  /\ (k \in DOMAIN table) <=> (SightingsIn(h, k) # {})
  /\ k \in DOMAIN table => RowTold(table[k], h, k) /\ Shared(table[k])
TableTold(table, h) == DOMAIN table \subseteq PriorKeys /\ \A k \in PriorKeys : RowStands(table, h, k)
RowCached(cache, h, k) ==
  /\ k \in DOMAIN cache => RowTold(cache[k], h, k) /\ Shared(cache[k]) /\ SightingsIn(h, k) # {}
  /\ k \notin DOMAIN cache => SightingsIn(h, k) = {} \/ CountIn(h, k) > 1
CacheTold(cache, h) == DOMAIN cache \subseteq PriorKeys /\ \A k \in PriorKeys : RowCached(cache, h, k)

LEMMA RowOfTold ==
  ASSUME NEW h \in Seq(Samples), NEW table, NEW k, RowStands(table, h, k)
  PROVE  RowTold(RowOf(table, k), h, k)
<1>1. CASE k \in DOMAIN table
  BY <1>1 DEF RowStands, RowOf
<1>2. CASE k \notin DOMAIN table
  <2>1. SightingsIn(h, k) = {}
    BY <1>2 DEF RowStands
  <2>2. RowTold(NoRow, h, k)
    BY <2>1, NoRowTold
  <2>3. QED
    BY <1>2, <2>2 DEF RowOf
<1>3. QED
  BY <1>1, <1>2

\* The keys an update sights are those the sample sees.
LEMMA SightedAreSeen ==
  ASSUME NEW u \in Samples, NEW sighted, sighted = {u.elements[i].class : i \in DOMAIN u.elements} \X {u.window}
  PROVE  /\ sighted \subseteq PriorKeys
         /\ \A k \in PriorKeys : (k \in sighted) <=> Sees(u, k)
<1>1. PICK e, w : e = u.elements /\ w = u.window
  OBVIOUS
<1>2. DOMAIN e = 1..Len(e) /\ w \in Windows /\ \A i \in 1..Len(e) : e[i].class \in DetectorLabels
  BY <1>1, FrameFits
<1>3. PICK C : C = {e[i].class : i \in DOMAIN e}
  OBVIOUS
<1>4. sighted = C \X {w} /\ C \subseteq DetectorLabels
  BY <1>1, <1>2, <1>3
<1>5. sighted \subseteq PriorKeys
  BY <1>2, <1>4 DEF PriorKeys
<1>6. ASSUME NEW k \in PriorKeys PROVE (k \in sighted) <=> Sees(u, k)
  <2>1. PICK c, v : k = <<c, v>> /\ k[1] = c /\ k[2] = v
    BY DEF PriorKeys
  <2>2. (k \in sighted) <=> (c \in C /\ v = w)
    BY <1>4, <2>1
  <2>3. (c \in C) <=> (\E i \in 1..Len(e) : e[i].class = c)
    BY <1>2, <1>3
  <2>4. (FirstOf(u.elements, c) # {}) <=> (\E i \in 1..Len(e) : e[i].class = c)
    BY <1>1, FirstThere
  <2>5. Sees(u, k) <=> (v = w /\ FirstOf(u.elements, c) # {})
    BY <1>1, <2>1 DEF Sees
  <2>6. QED
    BY <2>2, <2>3, <2>4, <2>5
<1>7. QED
  BY <1>5, <1>6

LEMMA SightingsStay ==
  ASSUME NEW h \in Seq(Samples), NEW u \in Samples, NEW k, NEW g, g = Append(h, u)
  PROVE  /\ Sees(u, k) => SightingsIn(g, k) # {}
         /\ ~Sees(u, k) => SightingsIn(g, k) = SightingsIn(h, k)
<1>1. PICK a, b, N : a = SightingsIn(h, k) /\ b = SightingsIn(g, k) /\ N = Len(h) + 1
  OBVIOUS
<1>2. (Sees(u, k) => GrownBy(a, b, N)) /\ (~Sees(u, k) => b = a)
  BY <1>1, SightingsGrow
<1>3. Sees(u, k) => b # {}
  BY <1>2 DEF GrownBy
<1>4. QED
  BY <1>1, <1>2, <1>3

LEMMA DetectionsTold ==
  ASSUME NEW h \in Seq(Samples), NEW u \in Samples, NEW g, g = Append(h, u), TableTold(priors, h),
         u.elements # <<>>, NEW t, t = UpdatePriorsFromDetections(u.window, u.elements)
  PROVE  TableTold(t, g)
<1>1. PICK sighted : sighted = {u.elements[i].class : i \in DOMAIN u.elements} \X {u.window}
  OBVIOUS
<1>2. sighted \subseteq PriorKeys /\ \A k \in PriorKeys : (k \in sighted) <=> Sees(u, k)
  BY <1>1, SightedAreSeen
<1>3. t = [k \in DOMAIN priors \cup sighted |-> IF k \in sighted THEN Sighted(RowOf(priors, k), PlaceOf(u, k)) ELSE priors[k]]
  BY <1>1 DEF UpdatePriorsFromDetections, PlaceOf
<1>4. DOMAIN priors \subseteq PriorKeys /\ \A k \in PriorKeys : RowStands(priors, h, k)
  BY DEF TableTold
<1>5. DOMAIN t = DOMAIN priors \cup sighted /\ DOMAIN t \subseteq PriorKeys
  BY <1>2, <1>3, <1>4
<1>6. ASSUME NEW k \in PriorKeys PROVE RowStands(t, g, k)
  <2>1. RowStands(priors, h, k)
    BY <1>4
  <2>2. (k \in sighted) <=> Sees(u, k)
    BY <1>2
  <2>3. CASE Sees(u, k)
    <3>1. k \in DOMAIN t /\ t[k] = Sighted(RowOf(priors, k), PlaceOf(u, k))
      BY <1>3, <1>5, <2>2, <2>3
    <3>2. PICK row : row = RowOf(priors, k)
      OBVIOUS
    <3>3. RowTold(row, h, k)
      BY <2>1, <3>2, RowOfTold
    <3>4. RowTold(Sighted(row, PlaceOf(u, k)), g, k) /\ Shared(Sighted(row, PlaceOf(u, k)))
      BY <2>3, <3>3, SightedTold
    <3>5. SightingsIn(g, k) # {}
      BY <2>3, SightingsStay
    <3>6. QED
      BY <3>1, <3>2, <3>4, <3>5 DEF RowStands
  <2>4. CASE ~Sees(u, k)
    <3>1. SightingsIn(g, k) = SightingsIn(h, k)
      BY <2>4, SightingsStay
    <3>2. ~PassesOver(h, u, k)
      BY DEF PassesOver
    <3>3. (k \in DOMAIN t) <=> (k \in DOMAIN priors)
      BY <1>5, <2>2, <2>4
    <3>4. CASE k \in DOMAIN priors
      <4>1. t[k] = priors[k] /\ k \in DOMAIN t
        BY <1>3, <1>5, <2>2, <2>4, <3>4
      <4>2. PICK row : row = priors[k]
        OBVIOUS
      <4>3. RowTold(row, h, k) /\ Shared(row) /\ SightingsIn(h, k) # {}
        BY <2>1, <3>4, <4>2 DEF RowStands
      <4>4. RowTold(row, g, k)
        BY <2>4, <3>2, <4>3, UntouchedTold
      <4>5. QED
        BY <3>1, <4>1, <4>2, <4>3, <4>4 DEF RowStands
    <3>5. CASE k \notin DOMAIN priors
      BY <2>1, <3>1, <3>3, <3>5 DEF RowStands
    <3>6. QED
      BY <3>4, <3>5
  <2>5. QED
    BY <2>3, <2>4
<1>7. QED
  BY <1>5, <1>6 DEF TableTold

LEMMA NegativeTold ==
  ASSUME NEW h \in Seq(Samples), NEW u \in Samples, NEW g, g = Append(h, u), TableTold(priors, h),
         u.elements = <<>>, NEW t, t = UpdatePriorsForNegative(u.window)
  PROVE  TableTold(t, g)
<1>1. DOMAIN priors \subseteq PriorKeys /\ \A k \in PriorKeys : RowStands(priors, h, k)
  BY DEF TableTold
<1>2. t = [k \in DOMAIN priors |-> IF k[2] = u.window THEN Unsighted(priors[k]) ELSE priors[k]]
  BY DEF UpdatePriorsForNegative
<1>3. DOMAIN t = DOMAIN priors
  BY <1>2
<1>4. ASSUME NEW k \in PriorKeys PROVE RowStands(t, g, k)
  <2>1. RowStands(priors, h, k)
    BY <1>1
  <2>2. ~Sees(u, k)
    <3>1. FirstOf(u.elements, k[1]) = {}
      BY DEF FirstOf
    <3>2. QED
      BY <3>1 DEF Sees
  <2>3. SightingsIn(g, k) = SightingsIn(h, k)
    BY <2>2, SightingsStay
  <2>4. CASE k \notin DOMAIN priors
    BY <1>3, <2>1, <2>3, <2>4 DEF RowStands
  <2>5. CASE k \in DOMAIN priors
    <3>1. PICK row : row = priors[k]
      OBVIOUS
    <3>2. RowTold(row, h, k) /\ Shared(row) /\ SightingsIn(h, k) # {}
      BY <2>1, <2>5, <3>1 DEF RowStands
    <3>3. CASE k[2] = u.window
      <4>1. PassesOver(h, u, k)
        BY <3>2, <3>3 DEF PassesOver
      <4>2. RowTold(Unsighted(row), g, k) /\ Shared(Unsighted(row))
        BY <3>2, <4>1, UnsightedTold
      <4>3. t[k] = Unsighted(row) /\ k \in DOMAIN t
        BY <1>2, <1>3, <2>5, <3>1, <3>3
      <4>4. QED
        BY <2>3, <3>2, <4>2, <4>3 DEF RowStands
    <3>4. CASE k[2] # u.window
      <4>1. ~PassesOver(h, u, k)
        BY <3>4 DEF PassesOver
      <4>2. RowTold(row, g, k)
        BY <2>2, <3>2, <4>1, UntouchedTold
      <4>3. t[k] = row /\ k \in DOMAIN t
        BY <1>2, <1>3, <2>5, <3>1, <3>4
      <4>4. QED
        BY <2>3, <3>2, <4>2, <4>3 DEF RowStands
    <3>5. QED
      BY <3>3, <3>4
  <2>6. QED
    BY <2>4, <2>5
<1>5. QED
  BY <1>1, <1>3, <1>4 DEF TableTold

\* A table that is loaded loses rows of elements seen more than once, no other.
LEMMA LoadTold ==
  ASSUME NEW h \in Seq(Samples), NEW table, TableTold(table, h), NEW cache \in Loads(table)
  PROVE  CacheTold(cache, h)
<1>1. DOMAIN table \subseteq PriorKeys /\ \A k \in PriorKeys : RowStands(table, h, k)
  BY DEF TableTold
<1>2. PICK refused \in SUBSET {k \in DOMAIN table : table[k].count > 1} : cache = Restrict(table, DOMAIN table \ refused)
  BY DEF Loads
<1>3. DOMAIN cache = DOMAIN table \ refused /\ \A k \in DOMAIN cache : cache[k] = table[k]
  BY <1>2 DEF Restrict
<1>4. ASSUME NEW k \in PriorKeys PROVE RowCached(cache, h, k)
  <2>1. RowStands(table, h, k)
    BY <1>1
  <2>2. CASE k \in DOMAIN cache
    BY <1>3, <2>1, <2>2 DEF RowStands, RowCached
  <2>3. CASE k \notin DOMAIN table
    BY <1>3, <2>1, <2>3 DEF RowStands, RowCached
  <2>4. CASE k \in refused
    <3>1. k \in DOMAIN table /\ table[k].count > 1
      BY <1>2, <2>4
    <3>2. table[k].count = CountIn(h, k)
      BY <2>1, <3>1 DEF RowStands, RowTold
    <3>3. k \notin DOMAIN cache /\ CountIn(h, k) > 1
      BY <1>3, <2>4, <3>1, <3>2
    <3>4. QED
      BY <3>3 DEF RowCached
  <2>5. QED
    BY <1>3, <2>2, <2>3, <2>4
<1>5. QED
  BY <1>1, <1>3, <1>4 DEF CacheTold

LEMMA NothingToldYet ==
  ASSUME NEW h, h = <<>>
  PROVE  h \in Seq(Samples) /\ TableTold(NothingCached, h) /\ CacheTold(NothingCached, h)
<1>1. h \in Seq(Samples) /\ Len(h) = 0 /\ DOMAIN NothingCached = {}
  BY EmptySeq DEF NothingCached
<1>2. \A k \in PriorKeys : SightingsIn(h, k) = {}
  BY DEF SightingsIn
<1>3. QED
  BY <1>1, <1>2 DEF TableTold, CacheTold, RowStands, RowCached

-----------------------------------------------------------------------------
CacheThen(cache, h, now) ==
  \E n \in 0..Len(h) : (now = TRUE => n = Len(h)) /\ CacheTold(cache, SubSeq(h, 1, n))
PriorsInv ==
  /\ counted \in Seq(Samples) /\ counting \subseteq Samples /\ saved \in Nat
  /\ TableTold(priors, counted)
  /\ upToDate \in BOOLEAN /\ CacheThen(cached, counted, upToDate)

LEMMA Beginnings ==
  ASSUME NEW h \in Seq(Samples)
  PROVE  /\ Len(h) \in Nat /\ SubSeq(h, 1, Len(h)) = h /\ SubSeq(h, 1, 0) = <<>>
         /\ \A n \in 0..Len(h) : SubSeq(h, 1, n) \in Seq(Samples) /\ Len(SubSeq(h, 1, n)) = n
                                 /\ \A i \in 1..n : SubSeq(h, 1, n)[i] = h[i]
<1>1. Len(h) \in Nat
  OBVIOUS
<1>2. SubSeq(h, 1, Len(h)) = h
  <2>1. PICK S : S = Samples
    OBVIOUS
  <2>2. h \in Seq(S)
    BY <2>1
  <2>3. QED
    BY <2>2, SubSeqFull
<1>3. SubSeq(h, 1, 0) = <<>>
  BY SubSeqEmpty
<1>4. ASSUME NEW n \in 0..Len(h)
      PROVE  SubSeq(h, 1, n) \in Seq(Samples) /\ Len(SubSeq(h, 1, n)) = n /\ \A i \in 1..n : SubSeq(h, 1, n)[i] = h[i]
  <2>1. PICK S, m, p : S = Samples /\ m = 1 /\ p = n
    OBVIOUS
  <2>2. m \in Int /\ p \in Int /\ \A i \in m..p : h[i] \in S
    BY <1>1, <2>1
  <2>3. SubSeq(h, m, p) \in Seq(S) /\ Len(SubSeq(h, m, p)) = (IF m <= p THEN p - m + 1 ELSE 0)
        /\ \A i \in 1..p - m + 1 : SubSeq(h, m, p)[i] = h[m + i - 1]
    BY <2>2, SubSeqProperties
  <2>4. p - m + 1 = n /\ (IF m <= p THEN p - m + 1 ELSE 0) = n /\ \A i \in 1..n : m + i - 1 = i
    BY <1>1, <2>1
  <2>5. QED
    BY <2>1, <2>3, <2>4
<1>5. QED
  BY <1>1, <1>2, <1>3, <1>4

LEMMA BeginningStays ==
  ASSUME NEW h \in Seq(Samples), NEW u \in Samples, NEW n \in 0..Len(h)
  PROVE  SubSeq(Append(h, u), 1, n) = SubSeq(h, 1, n)
<1>1. PICK g : g = Append(h, u)
  OBVIOUS
<1>2. g \in Seq(Samples) /\ Len(h) \in Nat /\ Len(g) = Len(h) + 1 /\ \A i \in 1..Len(h) : g[i] = h[i]
  BY <1>1, SightingsGrow
<1>3. n \in 0..Len(g) /\ n \in Nat /\ \A i \in 1..n : i \in 1..Len(h)
  BY <1>2
<1>4. PICK a, b, S : a = SubSeq(g, 1, n) /\ b = SubSeq(h, 1, n) /\ S = Samples
  OBVIOUS
<1>5. a \in Seq(S) /\ b \in Seq(S) /\ Len(a) = n /\ Len(b) = n
  BY <1>2, <1>3, <1>4, Beginnings
<1>6. \A i \in 1..n : a[i] = g[i] /\ b[i] = h[i] /\ g[i] = h[i]
  BY <1>2, <1>3, <1>4, Beginnings
<1>7. \A i \in 1..Len(a) : a[i] = b[i]
  BY <1>5, <1>6
<1>8. a = b
  BY <1>5, <1>7, SeqEqual
<1>9. QED
  BY <1>1, <1>4, <1>8

LEMMA CacheNow ==
  ASSUME NEW h \in Seq(Samples), NEW cache, CacheTold(cache, h), NEW now
  PROVE  CacheThen(cache, h, now)
<1>1. Len(h) \in 0..Len(h)
  BY Beginnings
<1>2. SubSeq(h, 1, Len(h)) = h
  BY Beginnings
<1>3. QED
  BY <1>1, <1>2 DEF CacheThen

LEMMA CacheLater ==
  ASSUME NEW h \in Seq(Samples), NEW u \in Samples, NEW cache, NEW now, CacheThen(cache, h, now)
  PROVE  CacheThen(cache, Append(h, u), FALSE)
<1>1. PICK n \in 0..Len(h) : CacheTold(cache, SubSeq(h, 1, n))
  BY DEF CacheThen
<1>2. SubSeq(Append(h, u), 1, n) = SubSeq(h, 1, n)
  BY BeginningStays
<1>3. n \in 0..Len(Append(h, u))
  <2>1. Len(h) \in Nat /\ Len(Append(h, u)) = Len(h) + 1
    OBVIOUS
  <2>2. QED
    BY <2>1
<1>4. QED
  BY <1>1, <1>2, <1>3 DEF CacheThen

LEMMA CacheEmpty ==
  ASSUME NEW h \in Seq(Samples)
  PROVE  CacheThen(NothingCached, h, FALSE)
<1>1. SubSeq(h, 1, 0) = <<>> /\ 0 \in 0..Len(h)
  BY Beginnings
<1>2. PICK e : e = SubSeq(h, 1, 0)
  OBVIOUS
<1>3. CacheTold(NothingCached, e)
  BY <1>1, <1>2, NothingToldYet
<1>4. QED
  BY <1>1, <1>2, <1>3 DEF CacheThen

-----------------------------------------------------------------------------
LEMMA PriorsInitInv == PriorsInit => PriorsInv
<1> SUFFICES ASSUME PriorsInit PROVE PriorsInv
  OBVIOUS
<1>1. priors = NothingCached /\ cached = NothingCached /\ counted = <<>> /\ upToDate = FALSE /\ counting = {} /\ saved = 0
  BY DEF PriorsInit
<1>2. counted \in Seq(Samples) /\ TableTold(NothingCached, counted)
  BY <1>1, NothingToldYet
<1>3. CacheThen(NothingCached, counted, FALSE)
  BY <1>2, CacheEmpty
<1>4. QED
  BY <1>1, <1>2, <1>3 DEF PriorsInv

\* A sample is of a window and a frame there are.
LEMMA StartInv ==
  ASSUME PriorsInv, NEW title \in WindowTitles, NEW f \in Frames, StartCount(title, f)
  PROVE  counting' \subseteq Samples /\ saved' \in Nat
<1>1. saved' \in Nat
  BY DEF PriorsInv, StartCount
<1>2. normalizeWindowTitle[title] \in Windows
  BY DEF Windows
<1>3. PICK u : u = [n |-> saved', window |-> normalizeWindowTitle[title], elements |-> f]
  OBVIOUS
<1>4. u \in Samples
  BY <1>1, <1>2, <1>3 DEF Samples
<1>5. counting' = counting \cup {u}
  BY <1>3 DEF StartCount
<1>6. QED
  BY <1>1, <1>4, <1>5 DEF PriorsInv

LEMMA CommittedInv ==
  ASSUME PriorsInv, NEW u \in counting, Committed(u)
  PROVE  counted' \in Seq(Samples) /\ TableTold(priors', counted') /\ counted' = Append(counted, u) /\ u \in Samples
<1>1. counted \in Seq(Samples) /\ u \in Samples /\ TableTold(priors, counted) /\ counted' = Append(counted, u)
  BY DEF PriorsInv, Committed
<1>2. counted' \in Seq(Samples)
  BY <1>1
<1>3. CASE u.elements = <<>>
  <2>1. priors' = UpdatePriorsForNegative(u.window)
    BY <1>3 DEF Committed
  <2>2. PICK t, g : t = priors' /\ g = counted'
    OBVIOUS
  <2>3. TableTold(t, g)
    BY <1>1, <1>3, <2>1, <2>2, NegativeTold
  <2>4. QED
    BY <1>1, <1>2, <2>2, <2>3
<1>4. CASE u.elements # <<>>
  <2>1. priors' = UpdatePriorsFromDetections(u.window, u.elements)
    BY <1>4 DEF Committed
  <2>2. PICK t, g : t = priors' /\ g = counted'
    OBVIOUS
  <2>3. TableTold(t, g)
    BY <1>1, <1>4, <2>1, <2>2, DetectionsTold
  <2>4. QED
    BY <1>1, <1>2, <2>2, <2>3
<1>5. QED
  BY <1>3, <1>4

LEMMA CountSampleInv == ASSUME PriorsInv, NEW u \in counting, CountSample(u) PROVE PriorsInv'
<1>1. counting' \subseteq Samples /\ saved' = saved /\ saved \in Nat
  BY DEF CountSample, PriorsInv, boundVars
<1>2. counted \in Seq(Samples) /\ CacheThen(cached, counted, upToDate)
  BY DEF PriorsInv
<1>3. CASE Committed(u) /\ cached' \in Loads(priors') /\ upToDate' = TRUE
  <2>1. counted' \in Seq(Samples) /\ TableTold(priors', counted')
    BY <1>3, CommittedInv
  <2>2. PICK t, h, c : t = priors' /\ h = counted' /\ c = cached'
    OBVIOUS
  <2>3. CacheTold(c, h)
    BY <1>3, <2>1, <2>2, LoadTold
  <2>4. CacheThen(c, h, upToDate')
    BY <2>1, <2>2, <2>3, CacheNow
  <2>5. QED
    BY <1>1, <1>3, <2>1, <2>2, <2>4 DEF PriorsInv
<1>4. CASE Committed(u) /\ upToDate' = FALSE /\ UNCHANGED cached
  <2>1. counted' \in Seq(Samples) /\ TableTold(priors', counted') /\ counted' = Append(counted, u) /\ u \in Samples
    BY <1>4, CommittedInv
  <2>2. CacheThen(cached, Append(counted, u), FALSE)
    BY <1>2, <2>1, CacheLater
  <2>3. QED
    BY <1>1, <1>4, <2>1, <2>2 DEF PriorsInv
<1>5. CASE UNCHANGED <<priors, counted, upToDate>> /\ UNCHANGED cached
  BY <1>1, <1>5 DEF PriorsInv
<1>6. QED
  BY <1>3, <1>4, <1>5 DEF CountSample

LEMMA LoadOnceInv ==
  ASSUME PriorsInv, LoadPriorsOnce, UNCHANGED <<priors, counted>>
  PROVE  upToDate' \in BOOLEAN /\ CacheThen(cached', counted', upToDate')
<1>1. upToDate \in BOOLEAN /\ counted \in Seq(Samples) /\ CacheThen(cached, counted, upToDate) /\ TableTold(priors, counted)
  BY DEF PriorsInv
<1>2. CASE ~loadOnce /\ storeOpen
  <2>1. cached' \in Loads(priors)
    BY <1>2 DEF LoadPriorsOnce
  <2>2. PICK c : c = cached'
    OBVIOUS
  <2>3. CacheTold(c, counted)
    BY <1>1, <2>1, <2>2, LoadTold
  <2>4. CacheThen(c, counted, upToDate')
    BY <1>1, <2>3, CacheNow
  <2>5. QED
    BY <1>2, <2>2, <2>4 DEF LoadPriorsOnce
<1>3. CASE ~(~loadOnce /\ storeOpen)
  <2>1. cached' = cached /\ upToDate' = upToDate
    BY <1>3 DEF LoadPriorsOnce
  <2>2. QED
    BY <1>1, <2>1
<1>4. QED
  BY <1>2, <1>3

LEMMA PriorsStepInv == PriorsInv /\ [PriorsNext]_priorVars => PriorsInv'
<1> SUFFICES ASSUME PriorsInv, [PriorsNext]_priorVars PROVE PriorsInv'
  OBVIOUS
<1>1. CASE InitTrainingStore
  BY <1>1 DEF InitTrainingStore, PriorsInv, boundVars
<1>2. ASSUME NEW t \in WindowTitles, NEW f \in Frames, SaveSample(t, f) PROVE PriorsInv'
  <2>1. counting' \subseteq Samples /\ saved' \in Nat
    BY <1>2, StartInv DEF SaveSample
  <2>2. QED
    BY <1>2, <2>1 DEF SaveSample, PriorsInv
<1>3. ASSUME NEW t \in WindowTitles, NEW f \in Frames, NEW label, NEW x, SaveElementRegionSamples(t, label, x, f) PROVE PriorsInv'
  <2>1. counting' \subseteq Samples /\ saved' \in Nat
    BY <1>3, StartInv DEF SaveElementRegionSamples
  <2>2. upToDate' \in BOOLEAN /\ CacheThen(cached', counted', upToDate')
    BY <1>3, LoadOnceInv DEF SaveElementRegionSamples
  <2>3. QED
    BY <1>3, <2>1, <2>2 DEF SaveElementRegionSamples, PriorsInv
<1>4. ASSUME NEW u \in counting, CountSample(u) PROVE PriorsInv'
  BY <1>4, CountSampleInv
<1>5. CASE ReadPriors
  <2>1. upToDate' \in BOOLEAN /\ CacheThen(cached', counted', upToDate')
    BY <1>5, LoadOnceInv DEF ReadPriors
  <2>2. QED
    BY <1>5, <2>1 DEF ReadPriors, PriorsInv, boundVars
<1>6. CASE PriorsRestart
  <2>1. counted \in Seq(Samples)
    BY DEF PriorsInv
  <2>2. CacheThen(NothingCached, counted, FALSE)
    BY <2>1, CacheEmpty
  <2>3. cached' = NothingCached /\ upToDate' = FALSE /\ counting' = {} /\ UNCHANGED <<priors, saved, counted>>
    BY <1>6 DEF PriorsRestart
  <2>4. QED
    BY <2>2, <2>3 DEF PriorsInv
<1>7. CASE UNCHANGED priorVars
  BY <1>7 DEF PriorsInv, priorVars
<1>8. QED
  BY <1>1, <1>2, <1>3, <1>4, <1>5, <1>6, <1>7 DEF PriorsNext

-----------------------------------------------------------------------------
LEMMA TableFoundedHolds == PriorsInv => TableFounded
<1> SUFFICES ASSUME PriorsInv PROVE TableFounded
  OBVIOUS
<1>1. counted \in Seq(Samples) /\ TableTold(priors, counted) /\ upToDate \in BOOLEAN /\ CacheThen(cached, counted, upToDate)
  BY DEF PriorsInv
<1>2. ASSUME NEW h \in Seq(Samples), NEW k, NEW row, RowTold(row, h, k), Shared(row), SightingsIn(h, k) # {}
      PROVE  Teaches(h, row, k)
  <2>1. row.count = CountIn(h, k) /\ row.frames = CountIn(h, k) + PassedIn(h, k) /\ row.sum = PlacesSum(h, k)
        /\ row.share = <<row.count, row.frames>>
    BY <1>2 DEF RowTold, Shared
  <2>2. QED
    BY <1>2, <2>1 DEF Teaches, CountIn, PassedIn
<1>3. ASSUME NEW k \in PriorKeys PROVE Teaches(counted, RowOf(priors, k), k)
  <2>1. RowStands(priors, counted, k)
    BY <1>1 DEF TableTold
  <2>2. CASE k \in DOMAIN priors
    BY <1>1, <1>2, <2>1, <2>2 DEF RowStands, RowOf
  <2>3. CASE k \notin DOMAIN priors
    BY <2>1, <2>3 DEF RowStands, RowOf, Teaches
  <2>4. QED
    BY <2>2, <2>3
<1>4. PICK n \in 0..Len(counted) : (upToDate = TRUE => n = Len(counted)) /\ CacheTold(cached, SubSeq(counted, 1, n))
  BY <1>1 DEF CacheThen
<1>5. PICK h : h = SubSeq(counted, 1, n)
  OBVIOUS
<1>6. h \in Seq(Samples) /\ Len(counted) \in Nat
  BY <1>1, <1>5, Beginnings
<1>7. ASSUME NEW k \in PriorKeys
      PROVE  Teaches(h, RowOf(cached, k), k) \/ (k \notin DOMAIN cached /\ Cardinality(SightingsIn(h, k)) > 1)
  <2>1. RowCached(cached, h, k)
    BY <1>4, <1>5 DEF CacheTold
  <2>2. CASE k \in DOMAIN cached
    BY <1>2, <1>6, <2>1, <2>2 DEF RowCached, RowOf
  <2>3. CASE k \notin DOMAIN cached
    BY <2>1, <2>3 DEF RowCached, RowOf, Teaches, CountIn
  <2>4. QED
    BY <2>2, <2>3
<1>8. n \in (IF upToDate THEN Len(counted) ELSE 0)..Len(counted)
  BY <1>1, <1>4, <1>6
<1>9. QED
  BY <1>3, <1>5, <1>7, <1>8 DEF TableFounded

\* What was seen by some moment was seen.
LEMMA SeenBefore ==
  ASSUME NEW h \in Seq(Samples), NEW n \in 0..Len(h), NEW k
  PROVE  PlacesSeen(SubSeq(h, 1, n), k) \subseteq PlacesSeen(h, k)
<1>1. PICK b : b = SubSeq(h, 1, n)
  OBVIOUS
<1>2. b \in Seq(Samples) /\ Len(h) \in Nat /\ Len(b) = n /\ \A i \in 1..n : b[i] = h[i]
  BY <1>1, Beginnings
<1>3. ASSUME NEW i \in SightingsIn(b, k) PROVE i \in SightingsIn(h, k) /\ PlaceIn(b, k, i) = PlaceIn(h, k, i)
  <2>1. i \in 1..Len(b) /\ Sees(b[i], k)
    BY <1>2, SightingsMean
  <2>2. i \in 1..Len(h) /\ b[i] = h[i]
    BY <1>2, <2>1
  <2>3. i \in SightingsIn(h, k)
    BY <2>1, <2>2, SightingsMean
  <2>4. QED
    BY <2>2, <2>3 DEF PlaceIn
<1>4. PICK seen, all : seen = SightingsIn(b, k) /\ all = SightingsIn(h, k)
  OBVIOUS
<1>5. PlacesSeen(b, k) \subseteq PlacesSeen(h, k)
  BY <1>3, <1>4 DEF PlacesSeen
<1>6. QED
  BY <1>1, <1>5

\* One that is where it always was has no spread.
LEMMA NoSpread ==
  ASSUME NEW row \in PriorRows, NEW x \in Nat, row.sum = x * row.count, row.squares = (x * x) * row.count
  PROVE  Spread(row) = 0
<1>1. PICK n \in Nat : n = row.count
  BY DEF PriorRows
<1>2. n * ((x * x) * n) = (x * n) * (x * n)
  OBVIOUS
<1>3. PICK a, b : a = n * ((x * x) * n) /\ b = (x * n) * (x * n)
  OBVIOUS
<1>4. a \in Int /\ a = b
  <2>1. x * x \in Int
    OBVIOUS
  <2>2. (x * x) * n \in Int
    BY <2>1
  <2>3. n * ((x * x) * n) \in Int
    BY <2>2
  <2>4. QED
    BY <1>2, <1>3, <2>3
<1>5. Spread(row) = a - b
  BY <1>1, <1>3 DEF Spread
<1>6. QED
  BY <1>4, <1>5

LEMMA DivFits == ASSUME NEW a \in Int, NEW b \in Nat \ {0} PROVE a \div b \in Int /\ (a >= 0 => a \div b >= 0)
<1>1. PICK q : q = a \div b
  OBVIOUS
<1>2. q \in Int /\ b * q <= a /\ a < b * q + b
  BY <1>1
<1>3. ASSUME a >= 0, q < 0 PROVE FALSE
  <2>1. (q + 1) * b <= 0 * b /\ 0 * b = 0
    BY <1>2, <1>3, TimesLess
  <2>2. (q + 1) * b = b * q + b /\ b * q \in Int
    BY <1>2
  <2>3. QED
    BY <1>2, <1>3, <2>1, <2>2
<1>4. QED
  BY <1>1, <1>2, <1>3

LEMMA AdjustedFits ==
  ASSUME NEW row, NEW s \in Nat, NEW f \in Nat \ {0}, row.share = <<s, f>>, NEW c \in Int
  PROVE  /\ Raised(row, c) \in Int /\ Lowered(row, c) \in Int /\ \A x : Displaced(row, x, c) \in Int
         /\ c <= 100 => Raised(row, c) >= c
<1>1. row.share[1] = s /\ row.share[2] = f
  OBVIOUS
<1>2. PICK q : q = (10 * s) \div f
  OBVIOUS
<1>3. q \in Int /\ q >= 0
  <2>1. 10 * s \in Int /\ 10 * s >= 0
    OBVIOUS
  <2>2. QED
    BY <1>2, <2>1, DivFits
<1>4. PICK a : a = (5 + q) * (100 - c)
  OBVIOUS
<1>5. a \in Int /\ (c <= 100 => a >= 0)
  <2>1. 100 - c \in Int /\ 5 + q \in Nat
    BY <1>3
  <2>2. (5 + q) * (100 - c) \in Int
    BY <2>1
  <2>3. ASSUME c <= 100 PROVE (5 + q) * (100 - c) >= 0
    <3>1. 100 - c \in Nat
      BY <2>3
    <3>2. QED
      BY <2>1, <3>1
  <2>4. QED
    BY <1>4, <2>2, <2>3
<1>6. PICK p : p = a \div 100
  OBVIOUS
<1>7. p \in Int /\ (c <= 100 => p >= 0)
  BY <1>5, <1>6, DivFits
<1>8. Raised(row, c) \in {c, c + p}
  BY <1>1, <1>2, <1>4, <1>6 DEF Raised
<1>9. PICK r : r = (200 * s) \div f
  OBVIOUS
<1>10. r \in Int
  <2>1. 200 * s \in Int
    OBVIOUS
  <2>2. QED
    BY <1>9, <2>1, DivFits
<1>11. PICK d : d = ((10 - r) * c) \div 100
  OBVIOUS
<1>12. d \in Int
  <2>1. (10 - r) * c \in Int
    BY <1>10
  <2>2. QED
    BY <1>11, <2>1, DivFits
<1>13. Lowered(row, c) \in {c, c - d}
  BY <1>1, <1>9, <1>11 DEF Lowered
<1>14. PICK v, w : v = (15 * c) \div 100 /\ w = (5 * c) \div 100
  OBVIOUS
<1>15. v \in Int /\ w \in Int
  <2>1. 15 * c \in Int /\ 5 * c \in Int
    OBVIOUS
  <2>2. QED
    BY <1>14, <2>1, DivFits
<1>16. \A x : Displaced(row, x, c) \in {c, c - v, c - w}
  BY <1>14 DEF Displaced
<1>17. QED
  BY <1>7, <1>8, <1>12, <1>13, <1>15, <1>16

LEMMA AdjustedWithin ==
  ASSUME NEW row \in PriorRows, Shared(row), row.frames # 0, NEW x, NEW c \in Int,
         NEW a, a = Displaced(row, x, Lowered(row, Raised(row, c)))
  PROVE  a \in Int
<1>1. PICK s \in Nat, f \in Nat \ {0} : row.share = <<s, f>>
  BY DEF PriorRows, Shared
<1>2. PICK r : r = Raised(row, c)
  OBVIOUS
<1>3. r \in Int
  BY <1>1, <1>2, AdjustedFits
<1>4. PICK l : l = Lowered(row, r)
  OBVIOUS
<1>5. l \in Int
  BY <1>1, <1>3, <1>4, AdjustedFits
<1>6. Displaced(row, x, l) \in Int
  BY <1>1, <1>5, AdjustedFits
<1>7. QED
  BY <1>2, <1>4, <1>6

LEMMA AdjustedKeeps ==
  ASSUME NEW row \in PriorRows, Shared(row), row.frames # 0, row.count = row.frames, Spread(row) = 0,
         NEW x, NEW c \in Int, c <= 100, NEW a, a = Displaced(row, x, Lowered(row, Raised(row, c)))
  PROVE  a >= c
<1>1. PICK s \in Nat \ {0} : row.share = <<s, s>>
  BY DEF PriorRows, Shared
<1>2. row.share[1] = s /\ row.share[2] = s
  BY <1>1
<1>3. PICK r : r = Raised(row, c)
  OBVIOUS
<1>4. r \in Int /\ r >= c
  BY <1>1, <1>3, AdjustedFits
<1>5. Lowered(row, r) = r
  BY <1>2 DEF Lowered
<1>6. Displaced(row, x, r) = r
  BY DEF Displaced, FarOff
<1>7. QED
  BY <1>3, <1>4, <1>5, <1>6

LEMMA AnswersFoundedHolds == PriorsInv => AnswersFounded
<1> SUFFICES ASSUME PriorsInv, NEW k \in GetPriorStats(1)
             PROVE  /\ \A x \in FindPriorPrediction(k) : (\E y \in SeenAt(k) : y <= x) /\ (\E y \in SeenAt(k) : x <= y)
                    /\ \A x \in PlacesOf, c \in {1, 50, 99} :
                         /\ AdjustConfidenceWithPriors(k, x, c) \in 1..99
                         /\ SeenAt(k) = {x} /\ cached[k].count = cached[k].frames => AdjustConfidenceWithPriors(k, x, c) >= c
  BY DEF AnswersFounded
<1>1. counted \in Seq(Samples) /\ CacheThen(cached, counted, upToDate)
  BY DEF PriorsInv
<1>2. PICK n \in 0..Len(counted) : CacheTold(cached, SubSeq(counted, 1, n))
  BY <1>1 DEF CacheThen
<1>3. PICK h : h = SubSeq(counted, 1, n)
  OBVIOUS
<1>4. h \in Seq(Samples)
  BY <1>1, <1>3, Beginnings
<1>5. k \in DOMAIN cached /\ cached[k].count >= 1
  BY DEF GetPriorStats
<1>6. PICK row : row = cached[k]
  OBVIOUS
<1>7. RowOf(cached, k) = row
  BY <1>5, <1>6 DEF RowOf
<1>8. RowTold(row, h, k) /\ Shared(row)
  BY <1>2, <1>3, <1>5, <1>6 DEF CacheTold, RowCached
<1>9. row \in PriorRows /\ row.count \in Nat /\ row.frames \in Nat /\ row.sum \in Nat /\ row.count # 0
  BY <1>5, <1>6, <1>8 DEF RowTold, PriorRows
<1>10. row.frames # 0
  <2>1. PICK a, b \in Nat : a = CountIn(h, k) /\ b = PassedIn(h, k)
    BY <1>4, CountsFit
  <2>2. row.frames = a + b /\ a = row.count
    BY <1>8, <2>1 DEF RowTold
  <2>3. QED
    BY <1>9, <2>2
<1>11. row # NoRow
  BY <1>9, NoRowFits
<1>12. SeenAt(k) = PlacesSeen(counted, k)
  BY DEF SeenAt, PlacesSeen
<1>13. PlacesSeen(h, k) \subseteq SeenAt(k)
  BY <1>1, <1>3, <1>12, SeenBefore
<1>14. ASSUME NEW x \in FindPriorPrediction(k)
       PROVE  (\E y \in SeenAt(k) : y <= x) /\ (\E y \in SeenAt(k) : x <= y)
  <2>1. x = row.sum \div row.count
    BY <1>7, <1>14 DEF FindPriorPrediction
  <2>2. PICK lo, hi \in PlacesSeen(h, k) : lo * row.count <= row.sum /\ row.sum <= hi * row.count
    BY <1>8, <1>9 DEF RowTold, MeanSeen
  <2>3. lo \in Int /\ hi \in Int
    BY <1>4, <2>2, SeenFits, PlacesAreNumbers
  <2>4. lo <= x /\ x <= hi
    <3>1. PICK m \in Nat \ {0}, s \in Int : m = row.count /\ s = row.sum
      BY <1>9
    <3>2. lo * m <= s /\ s <= hi * m
      BY <2>2, <3>1
    <3>3. lo <= s \div m /\ s \div m <= hi
      BY <2>3, <3>2, DivBetween
    <3>4. QED
      BY <2>1, <3>1, <3>3
  <2>5. lo \in SeenAt(k) /\ hi \in SeenAt(k)
    BY <1>13, <2>2
  <2>6. QED
    BY <2>4, <2>5
<1>15. ASSUME NEW x \in PlacesOf, NEW c \in {1, 50, 99}
       PROVE  /\ AdjustConfidenceWithPriors(k, x, c) \in 1..99
              /\ SeenAt(k) = {x} /\ cached[k].count = cached[k].frames => AdjustConfidenceWithPriors(k, x, c) >= c
  <2>1. PICK a : a = Displaced(row, x, Lowered(row, Raised(row, c)))
    OBVIOUS
  <2>2. AdjustConfidenceWithPriors(k, x, c) = IF a < 1 THEN 1 ELSE IF a > 99 THEN 99 ELSE a
    BY <1>7, <1>11, <2>1 DEF AdjustConfidenceWithPriors
  <2>3. a \in Int /\ c \in Int /\ c <= 100 /\ c >= 1 /\ c <= 99
    <3>1. c \in Int /\ c <= 100 /\ c >= 1 /\ c <= 99
      OBVIOUS
    <3>2. a \in Int
      BY <1>8, <1>9, <1>10, <2>1, <3>1, AdjustedWithin
    <3>3. QED
      BY <3>1, <3>2
  <2>4. ASSUME SeenAt(k) = {x}, cached[k].count = cached[k].frames PROVE a >= c
    <3>1. PlacesSeen(h, k) \subseteq {x}
      BY <1>13, <2>4
    <3>2. row.sum = x * row.count /\ row.squares = (x * x) * row.count
      BY <1>8, <3>1 DEF RowTold, Still
    <3>3. x \in Nat
      BY PlacesAreNumbers
    <3>4. Spread(row) = 0
      BY <1>9, <3>2, <3>3, NoSpread
    <3>5. row.count = row.frames
      BY <1>6, <2>4
    <3>6. QED
      BY <1>8, <1>9, <1>10, <2>1, <2>3, <3>4, <3>5, AdjustedKeeps
  <2>5. PICK v : v = AdjustConfidenceWithPriors(k, x, c)
    OBVIOUS
  <2>6. v \in 1..99 /\ (a >= c => v >= c)
    BY <2>2, <2>3, <2>5
  <2>7. QED
    BY <2>4, <2>5, <2>6
<1>16. QED
  BY <1>14, <1>15

\* The table is what the samples counted teach, the cache is the table of some
\* moment but for refused rows, and answers are founded in what was seen.
THEOREM PriorsFoundedHolds == PriorsSpec => []PriorsFounded
<1>1. PriorsInv => PriorsFounded
  BY TableFoundedHolds, AnswersFoundedHolds DEF PriorsFounded
<1>2. QED
  BY <1>1, PriorsInitInv, PriorsStepInv, PTL DEF PriorsSpec

-----------------------------------------------------------------------------
(* Who holds what                                                            *)

CallerStates ==
  [at : {"idle", "load", "weights", "fit", "model", "vocab", "checkpoint", "index", "publish",
         "start", "make", "clear"}, m : Nat, t : 0..Trains]
TrainerStates ==
  [at : {"none", "born", "waiting", "train", "checkpoint", "index", "rollback", "model", "vocab", "ended"},
   done : Nat, waits : Nat, m : Nat, t : 0..Trains, acc : {0, 1}]
SomeVersions == Seq([id : Nat, acc : {0, 1}])
FileStates ==
  [model : Weights \cup {Gone}, vocab : [fit : FitIds] \cup {Gone},
   index : [list : SomeVersions, next : Nat] \cup {Gone}]

EngineTypes ==
  /\ ready \in BOOLEAN /\ mixed \in BOOLEAN /\ shared \in BOOLEAN /\ trainDone \in Nat
  /\ heap \in Seq(Weights) /\ model \in 0..Len(heap) /\ tok \in 0..Trains /\ fits \in 0..Trains
  /\ caller \in [CallerIds -> CallerStates] /\ trainer \in [TrainerIds -> TrainerStates]
  /\ files \in FileStates
  /\ versions \in SomeVersions /\ nextID \in Nat
  /\ \A id \in DOMAIN ckpt : ckpt[id] \in Weights

\* A caller has a model of its own from its fit or load to its publication.
HasModel(c) == caller[c].at \in {"model", "vocab", "checkpoint", "index", "publish"}
Private ==
  /\ ready => model # 0 /\ tok # 0
  /\ \A c \in CallerIds : HasModel(c) => caller[c].m \in DOMAIN heap /\ caller[c].m # model /\ caller[c].t # 0
  /\ \A c, d \in CallerIds : HasModel(c) /\ HasModel(d) /\ c # d => caller[c].m # caller[d].m
  /\ \A g \in TrainerIds : InRound(g) => trainer[g].m \in DOMAIN heap /\ trainer[g].t # 0
  /\ \A c \in CallerIds, g \in TrainerIds : HasModel(c) /\ InRound(g) => caller[c].m # trainer[g].m
  /\ ~shared => \A g, h \in TrainerIds : InRound(g) /\ InRound(h) /\ g # h => trainer[g].m # trainer[h].m

\* Whoever holds mv.mu is between the file and the index.
MutexHeld ==
  /\ \A c \in CallerIds : caller[c].at = "index" <=> mvBusy = {Who(c)}
  /\ \A g \in TrainerIds : trainer[g].at = "index" <=> mvBusy = {Its(g)}

\* The index on disk is the list in memory, its identifiers are below the next one, and
\* the file that is not listed yet is numbered apart.
IndexInStep ==
  /\ nextID = (IF files.index = Gone THEN 0 ELSE files.index.next) + (IF mvBusy = {} THEN 0 ELSE 1)
  /\ files.index = Gone => versions = <<>>
  /\ files.index # Gone => /\ files.index.list = versions
                           /\ \A i \in DOMAIN versions : versions[i].id < files.index.next
FilesHold ==
  /\ \A i \in DOMAIN versions : versions[i].id \in DOMAIN ckpt
  /\ mvBusy # {} => nextID - 1 \in DOMAIN ckpt
\* The accuracy that will be listed is that of the weights in the file.
AccuracyKept ==
  ~shared =>
    /\ \A i \in DOMAIN versions : ckpt[versions[i].id].acc = versions[i].acc
    /\ \A c \in CallerIds : caller[c].at = "index" => ckpt[nextID - 1].acc = heap[caller[c].m].acc
    /\ \A g \in TrainerIds : trainer[g].at = "index" => ckpt[nextID - 1].acc = trainer[g].acc
    /\ \A g \in TrainerIds : trainer[g].at = "checkpoint" => heap[trainer[g].m].acc = trainer[g].acc

\* Everybody's weights are of the vocabulary he has, and so are the files', except between
\* the two writes, when model.gob is of the one about to be written.
FitInMemory ==
  ~mixed =>
    /\ ready => heap[model].fit = tok
    /\ \A c \in CallerIds : HasModel(c) => heap[caller[c].m].fit = caller[c].t
    /\ \A g \in TrainerIds : InRound(g) => heap[trainer[g].m].fit = trainer[g].t
FitOnDisk ==
  ~mixed =>
    /\ \A c \in CallerIds : caller[c].at = "vocab" => files.model # Gone /\ files.model.fit = caller[c].t
    /\ \A g \in TrainerIds : trainer[g].at = "vocab" => files.model # Gone /\ files.model.fit = trainer[g].t
    /\ \A c \in CallerIds : caller[c].at = "weights" =>
         Halfway = {} /\ files.model # Gone /\ files.model.fit = caller[c].t
    /\ Halfway = {} /\ Gone \notin {files.model, files.vocab} => files.model.fit = files.vocab.fit
\* A vocabulary was read before weights are.
VocabRead == \A c \in CallerIds : caller[c].at = "weights" => caller[c].t # 0

\* The goroutines of online training are numbered as they are made.
TrainersCounted ==
  \E n \in 0..MaxTrainers : \A g \in TrainerIds : trainer[g] # Unborn <=> g <= n

EngineInv ==
  /\ EngineTypes /\ Private /\ MutexHeld /\ IndexInStep /\ FilesHold /\ AccuracyKept
  /\ FitInMemory /\ FitOnDisk /\ VocabRead /\ TrainersCounted

USE MLBounds DEF MLBounds

-----------------------------------------------------------------------------
(* Records and models                                                        *)

\* What a step makes of the caller or the goroutine it is of.
CallerIs(c, at, m, t) ==
  /\ caller' \in [CallerIds -> CallerStates]
  /\ \A d \in CallerIds : d # c => caller'[d] = caller[d]
  /\ caller'[c].at = at /\ caller'[c].m = m /\ caller'[c].t = t
TrainerIs(g, at, m, t, acc) ==
  /\ trainer' \in [TrainerIds -> TrainerStates]
  /\ \A h \in TrainerIds : h # g => trainer'[h] = trainer[h]
  /\ trainer'[g].at = at /\ trainer'[g].m = m /\ trainer'[g].t = t /\ trainer'[g].acc = acc

CallerStages == {"idle", "load", "weights", "fit", "model", "vocab", "checkpoint", "index", "publish",
                 "start", "make", "clear"}
TrainerStages == {"none", "born", "waiting", "train", "checkpoint", "index", "rollback", "model", "vocab", "ended"}

LEMMA CallerGoes ==
  ASSUME EngineTypes, NEW c \in CallerIds, NEW s \in CallerStages, GoCaller(c, s)
  PROVE  CallerIs(c, s, caller[c].m, caller[c].t)
<1>1. caller[c] \in CallerStates
  BY DEF EngineTypes
<1>2. caller' \in [CallerIds -> CallerStates]
  BY <1>1 DEF GoCaller, EngineTypes, CallerStates, CallerStages
<1>3. QED
  BY <1>1, <1>2 DEF GoCaller, CallerIs, EngineTypes, CallerStates
LEMMA TrainerGoes ==
  ASSUME EngineTypes, NEW g \in TrainerIds, NEW s \in TrainerStages, GoTrainer(g, s)
  PROVE  TrainerIs(g, s, trainer[g].m, trainer[g].t, trainer[g].acc)
<1>1. trainer[g] \in TrainerStates
  BY DEF EngineTypes
<1>2. trainer' \in [TrainerIds -> TrainerStates]
  BY <1>1 DEF GoTrainer, EngineTypes, TrainerStates, TrainerStages
<1>3. QED
  BY <1>1, <1>2 DEF GoTrainer, TrainerIs, EngineTypes, TrainerStates

LEMMA Fields ==
  ASSUME EngineTypes
  PROVE  /\ \A c \in CallerIds : caller[c].m \in Nat /\ caller[c].t \in 0..Trains /\ caller[c].at \in CallerStages
         /\ \A g \in TrainerIds : /\ trainer[g].m \in Nat /\ trainer[g].t \in 0..Trains
                                 /\ trainer[g].acc \in {0, 1} /\ trainer[g].at \in TrainerStages
BY DEF EngineTypes, CallerStates, TrainerStates, CallerStages, TrainerStages

LEMMA FileFields ==
  ASSUME NEW f \in FileStates
  PROVE  /\ f.model # Gone => f.model \in Weights
         /\ f.vocab # Gone => f.vocab.fit \in FitIds
         /\ f.index # Gone => f.index.list \in SomeVersions /\ f.index.next \in Nat
BY DEF FileStates
LEMMA FilesWith ==
  ASSUME NEW f \in FileStates, NEW w \in Weights, NEW t \in FitIds,
         NEW list \in SomeVersions, NEW next \in Nat
  PROVE  /\ [f EXCEPT !.model = w] \in FileStates
         /\ [f EXCEPT !.model = w].model = w /\ [f EXCEPT !.model = w].vocab = f.vocab
         /\ [f EXCEPT !.model = w].index = f.index
         /\ [f EXCEPT !.vocab = [fit |-> t]] \in FileStates
         /\ [f EXCEPT !.vocab = [fit |-> t]].model = f.model
         /\ [f EXCEPT !.vocab = [fit |-> t]].vocab = [fit |-> t]
         /\ [f EXCEPT !.vocab = [fit |-> t]].index = f.index
         /\ [f EXCEPT !.index = [list |-> list, next |-> next]] \in FileStates
         /\ [f EXCEPT !.index = [list |-> list, next |-> next]].model = f.model
         /\ [f EXCEPT !.index = [list |-> list, next |-> next]].vocab = f.vocab
         /\ [f EXCEPT !.index = [list |-> list, next |-> next]].index = [list |-> list, next |-> next]
BY DEF FileStates
LEMMA GoneIsNone ==
  /\ Gone \notin Weights
  /\ \A t : [fit |-> t] # Gone
  /\ \A list, next : [list |-> list, next |-> next] # Gone
BY DEF Gone, Weights
LEMMA VersionFields ==
  ASSUME NEW list \in SomeVersions, NEW i \in DOMAIN list
  PROVE  list[i] \in [id : Nat, acc : {0, 1}] /\ list[i].id \in Nat /\ list[i].acc \in {0, 1}
<1> DEFINE V == [id : Nat, acc : {0, 1}]
<1>1. list \in Seq(V)
  BY DEF SomeVersions
<1>2. list[i] \in V
  <2> HIDE DEF V
  <2>1. QED
    BY <1>1
<1>3. QED
  BY <1>2
LEMMA WeightFields == \A w \in Weights : w.fit \in FitIds /\ w.acc \in {0, 1}
BY DEF Weights
LEMMA Retrained ==
  ASSUME NEW w \in Weights, NEW acc \in {0, 1}
  PROVE  /\ [w EXCEPT !.acc = acc] \in Weights
         /\ [w EXCEPT !.acc = acc].fit = w.fit /\ [w EXCEPT !.acc = acc].acc = acc
BY DEF Weights

\* A model allocated is the last, and one changed is the only one changed.
LEMMA Allocated ==
  ASSUME heap \in Seq(Weights), NEW w \in Weights, heap' = Append(heap, w)
  PROVE  /\ heap' \in Seq(Weights) /\ Len(heap') = Len(heap) + 1
         /\ \A i \in DOMAIN heap : i \in DOMAIN heap' /\ heap'[i] = heap[i] /\ i # Len(heap')
         /\ Len(heap') \in DOMAIN heap' /\ heap'[Len(heap')] = w /\ Len(heap') \in Nat
         /\ Len(heap) \in Nat /\ DOMAIN heap = 1..Len(heap)
OBVIOUS
LEMMA Changed ==
  ASSUME heap \in Seq(Weights), NEW w \in Weights, NEW m \in DOMAIN heap, heap' = [heap EXCEPT ![m] = w]
  PROVE  /\ heap' \in Seq(Weights) /\ Len(heap') = Len(heap) /\ DOMAIN heap' = DOMAIN heap
         /\ heap'[m] = w /\ \A i \in DOMAIN heap : i # m => heap'[i] = heap[i]
BY ExceptSeq

LEMMA WhoIsWho ==
  /\ \A c, d \in CallerIds : Who(c) = Who(d) => c = d
  /\ \A g, h \in TrainerIds : Its(g) = Its(h) => g = h
  /\ \A c \in CallerIds, g \in TrainerIds : Who(c) # Its(g)
BY DEF Who, Its

LEMMA HalfwayIs ==
  /\ Halfway = {} <=> /\ \A c \in CallerIds : caller[c].at # "vocab"
                      /\ \A g \in TrainerIds : trainer[g].at # "vocab"
  /\ \A c \in CallerIds : Halfway \ {Who(c)} = {} =>
       /\ \A d \in CallerIds : d # c => caller[d].at # "vocab"
       /\ \A g \in TrainerIds : trainer[g].at # "vocab"
  /\ \A g \in TrainerIds : Halfway \ {Its(g)} = {} =>
       /\ \A c \in CallerIds : caller[c].at # "vocab"
       /\ \A h \in TrainerIds : h # g => trainer[h].at # "vocab"
<1>1. /\ \A c \in CallerIds : caller[c].at = "vocab" => Who(c) \in Halfway
      /\ \A g \in TrainerIds : trainer[g].at = "vocab" => Its(g) \in Halfway
  BY DEF Halfway
<1>2. Halfway # {} => \/ \E c \in CallerIds : caller[c].at = "vocab"
                      \/ \E g \in TrainerIds : trainer[g].at = "vocab"
  BY DEF Halfway
<1>3. ASSUME NEW c \in CallerIds, Halfway \ {Who(c)} = {}
      PROVE  /\ \A d \in CallerIds : d # c => caller[d].at # "vocab"
             /\ \A g \in TrainerIds : trainer[g].at # "vocab"
  BY <1>1, <1>3, WhoIsWho
<1>4. ASSUME NEW g \in TrainerIds, Halfway \ {Its(g)} = {}
      PROVE  /\ \A c \in CallerIds : caller[c].at # "vocab"
             /\ \A h \in TrainerIds : h # g => trainer[h].at # "vocab"
  BY <1>1, <1>4, WhoIsWho
<1>5. Halfway = {} <=> /\ \A c \in CallerIds : caller[c].at # "vocab"
                       /\ \A g \in TrainerIds : trainer[g].at # "vocab"
  BY <1>1, <1>2
<1>6. QED
  BY <1>3, <1>4, <1>5

-----------------------------------------------------------------------------
(* What a step leaves as it was                                              *)

\* Nobody takes or gives back mv.mu, and the index stays.
LEMMA IndexAside ==
  ASSUME EngineInv, UNCHANGED ckptVars, files'.index = files.index,
         \A c \in CallerIds : caller'[c].at = "index" <=> caller[c].at = "index",
         \A g \in TrainerIds : trainer'[g].at = "index" <=> trainer[g].at = "index"
  PROVE  MutexHeld' /\ IndexInStep' /\ FilesHold'
<1>1. MutexHeld'
  BY DEF EngineInv, MutexHeld, ckptVars
<1>2. IndexInStep'
  BY DEF EngineInv, IndexInStep, ckptVars
<1>3. FilesHold'
  BY DEF EngineInv, FilesHold, ckptVars
<1>4. QED
  BY <1>1, <1>2, <1>3

\* No goroutine is made or forgotten.
LEMMA CountAside ==
  ASSUME EngineInv, \A g \in TrainerIds : trainer'[g] # Unborn <=> trainer[g] # Unborn
  PROVE  TrainersCounted'
BY DEF EngineInv, TrainersCounted
LEMMA BornOnce == \A s : s.at # "none" => s # Unborn
BY DEF Unborn

\* A caller moves between stages that write nothing; what it comes to hold is a model that
\* nobody had, of its own vocabulary.
CallerSteps(c, at, m, t) ==
  /\ CallerIs(c, at, m, t)
  /\ caller[c].at \notin {"index", "vocab"} /\ at \notin {"index", "vocab", "weights"}
  /\ at \in {"model", "checkpoint", "publish"} =>
       m \in DOMAIN heap' \ DOMAIN heap /\ t # 0 /\ (~mixed' => heap'[m].fit = t)
  /\ heap' \in Seq(Weights) /\ \A i \in DOMAIN heap : i \in DOMAIN heap' /\ heap'[i] = heap[i]
  /\ fits' \in 0..Trains /\ trainDone' \in Nat /\ mixed' \in BOOLEAN /\ (mixed => mixed')
  /\ UNCHANGED <<model, tok, ready, trainer, files, ckptVars, shared>>

LEMMA CallerStepsHold ==
  ASSUME EngineInv, NEW c \in CallerIds, NEW at, NEW m, NEW t, CallerSteps(c, at, m, t)
  PROVE  EngineInv'
<1> USE DEF CallerSteps, CallerIs
<1>1. heap \in Seq(Weights) /\ model \in 0..Len(heap) /\ Len(heap) \in Nat
  BY DEF EngineInv, EngineTypes
<1>2. Len(heap) <= Len(heap')
  <2>1. Len(heap) # 0 => Len(heap) \in DOMAIN heap'
    BY <1>1
  <2>2. QED
    BY <1>1, <2>1
<1>3. model # 0 => model \in DOMAIN heap
  BY <1>1
<1>4. EngineTypes'
  <2>1. model \in 0..Len(heap')
    BY <1>1, <1>2
  <2>2. QED
    BY <2>1 DEF EngineInv, EngineTypes, ckptVars
<1>5. \A d \in CallerIds : HasModel(d)' => d = c \/ (HasModel(d) /\ caller'[d] = caller[d])
  BY DEF HasModel
<1>6. HasModel(c)' => /\ caller'[c].m \in DOMAIN heap' \ DOMAIN heap /\ caller'[c].t # 0
                      /\ (~mixed' => heap'[caller'[c].m].fit = caller'[c].t)
  BY DEF HasModel
<1>7. Private'
  BY SMTT(40), <1>3, <1>5, <1>6, 0 \notin DOMAIN heap' DEF EngineInv, Private, InRound
<1>8. MutexHeld' /\ IndexInStep' /\ FilesHold'
  BY IndexAside
<1>9. AccuracyKept'
  BY DEF EngineInv, AccuracyKept, ckptVars, Private, HasModel, InRound
<1>10. FitInMemory'
  BY <1>3, <1>5, <1>6 DEF EngineInv, FitInMemory, Private, InRound
<1>11. (Halfway = {})' <=> Halfway = {}
  BY ZenonT(40), HalfwayIs DEF Halfway
<1>12. FitOnDisk'
  BY <1>11 DEF EngineInv, FitOnDisk
<1>13. VocabRead' /\ TrainersCounted'
  BY CountAside DEF EngineInv, VocabRead
<1>14. QED
  BY <1>4, <1>7, <1>8, <1>9, <1>10, <1>12, <1>13 DEF EngineInv

\* So does a goroutine that is in no round.
TrainerSteps(g, at) ==
  /\ TrainerIs(g, at, trainer[g].m, trainer[g].t, trainer[g].acc)
  /\ trainer[g].at \in {"born", "waiting"} /\ at \in {"waiting", "ended"} /\ trainDone' \in Nat
  /\ UNCHANGED <<heap, model, tok, ready, caller, files, ckptVars, fits, mixed, shared>>

LEMMA TrainerStepsHold ==
  ASSUME EngineInv, NEW g \in TrainerIds, NEW at, TrainerSteps(g, at)
  PROVE  EngineInv'
<1> USE DEF TrainerSteps, TrainerIs
<1>1. EngineTypes'
  BY DEF EngineInv, EngineTypes, ckptVars
<1>2. \A h \in TrainerIds : InRound(h)' => InRound(h) /\ trainer'[h] = trainer[h]
  BY DEF InRound
<1>3. Private'
  BY <1>2 DEF EngineInv, Private, HasModel
<1>4. MutexHeld' /\ IndexInStep' /\ FilesHold'
  BY IndexAside
<1>5. AccuracyKept'
  BY DEF EngineInv, AccuracyKept, ckptVars
<1>6. FitInMemory'
  BY <1>2 DEF EngineInv, FitInMemory, HasModel
<1>7. (Halfway = {})' <=> Halfway = {}
  BY HalfwayIs DEF Halfway
<1>8. FitOnDisk'
  BY <1>7 DEF EngineInv, FitOnDisk
<1>9. VocabRead'
  BY DEF EngineInv, VocabRead
<1>10. TrainersCounted'
  BY CountAside, BornOnce
<1>11. QED
  BY <1>1, <1>3, <1>4, <1>5, <1>6, <1>8, <1>9, <1>10 DEF EngineInv

-----------------------------------------------------------------------------
(* The two files                                                             *)

\* Nothing but files, the stage of the one that writes them, and mixed.
OnlyFiles ==
  /\ files' \in FileStates /\ files'.index = files.index /\ mixed' \in BOOLEAN
  /\ UNCHANGED <<heap, model, tok, ready, trainDone, ckptVars, fits, shared>>
LEMMA SameModels ==
  ASSUME EngineInv, OnlyFiles,
         \A c \in CallerIds : /\ caller'[c].at = "index" <=> caller[c].at = "index"
                              /\ caller'[c].m = caller[c].m /\ caller'[c].t = caller[c].t
                              /\ (HasModel(c)' => HasModel(c))
                              /\ (caller'[c].at = "weights" => caller[c].at = "weights"),
         \A g \in TrainerIds : /\ trainer'[g].at = "index" <=> trainer[g].at = "index"
                               /\ trainer'[g].at = "checkpoint" => trainer[g].at = "checkpoint"
                               /\ trainer'[g].m = trainer[g].m /\ trainer'[g].t = trainer[g].t
                               /\ trainer'[g].acc = trainer[g].acc
                               /\ (InRound(g)' => InRound(g))
                               /\ (trainer'[g] # Unborn <=> trainer[g] # Unborn),
         caller' \in [CallerIds -> CallerStates], trainer' \in [TrainerIds -> TrainerStates],
         mixed => mixed'
  PROVE  /\ EngineTypes' /\ Private' /\ MutexHeld' /\ IndexInStep' /\ FilesHold' /\ AccuracyKept'
         /\ FitInMemory' /\ VocabRead' /\ TrainersCounted'
<1> USE DEF OnlyFiles
<1>1. EngineTypes'
  BY DEF EngineInv, EngineTypes, ckptVars
<1>2. Private'
  BY DEF EngineInv, Private
<1>3. MutexHeld' /\ IndexInStep' /\ FilesHold'
  BY IndexAside
<1>4. AccuracyKept'
  BY DEF EngineInv, AccuracyKept, ckptVars
<1>5. FitInMemory'
  BY DEF EngineInv, FitInMemory
<1>6. VocabRead' /\ TrainersCounted'
  BY CountAside DEF EngineInv, VocabRead
<1>7. QED
  BY <1>1, <1>2, <1>3, <1>4, <1>5, <1>6

LEMMA SaveModelHolds ==
  ASSUME EngineInv, NEW c \in CallerIds, SaveModel(c)
  PROVE  EngineInv'
<1>0. EngineTypes /\ files \in FileStates /\ caller[c].at = "model" /\ HasModel(c)
  BY DEF EngineInv, EngineTypes, SaveModel, HasModel
<1>1. CallerIs(c, "vocab", caller[c].m, caller[c].t)
  BY <1>0, CallerGoes DEF SaveModel, CallerStages
<1>2. heap[caller[c].m] \in Weights /\ caller[c].m \in DOMAIN heap
  BY <1>0 DEF EngineInv, EngineTypes, Private
<1>3. files' \in FileStates /\ files'.index = files.index /\ files'.model = heap[caller[c].m]
      /\ files'.model # Gone
  <2>1. files.index = files.index
    OBVIOUS
  <2>2. [files EXCEPT !.model = heap[caller[c].m]] \in FileStates
    BY <1>0, <1>2 DEF FileStates
  <2>3. QED
    BY <1>0, <1>2, <2>2, GoneIsNone DEF SaveModel, FileStates
<1>4. UNCHANGED trainer /\ OnlyFiles /\ (mixed => mixed')
  BY <1>0, <1>3 DEF SaveModel, OnlyFiles, memVarsML, EngineTypes
<1>5. /\ EngineTypes' /\ Private' /\ MutexHeld' /\ IndexInStep' /\ FilesHold' /\ AccuracyKept'
      /\ FitInMemory' /\ VocabRead' /\ TrainersCounted'
  <2>1. trainer' \in [TrainerIds -> TrainerStates]
    BY <1>0, <1>4 DEF EngineTypes
  <2>2. \A d \in CallerIds : HasModel(d)' => HasModel(d)
    BY <1>0, <1>1 DEF HasModel, CallerIs
  <2>3. QED
    BY <1>0, <1>1, <1>4, <2>1, <2>2, SameModels DEF CallerIs, InRound
<1>6. FitOnDisk'
  <2>1. SUFFICES ASSUME ~mixed' PROVE FitOnDisk!2'
    BY DEF FitOnDisk
  <2>2. ~mixed /\ Halfway \ {Who(c)} = {} /\ ~Loading
    BY <2>1, <1>4 DEF SaveModel
  <2>3. /\ \A d \in CallerIds : d # c => caller[d].at # "vocab"
        /\ \A g \in TrainerIds : trainer[g].at # "vocab"
        /\ \A d \in CallerIds : caller[d].at # "weights"
    BY <2>2, HalfwayIs DEF Loading
  <2>4. heap[caller[c].m].fit = caller[c].t
    BY <1>0, <2>2 DEF EngineInv, FitInMemory
  <2>5. Halfway' # {}
    BY <1>1 DEF Halfway, CallerIs
  <2>6. QED
    BY <1>1, <1>3, <1>4, <2>3, <2>4, <2>5 DEF CallerIs
<1>7. QED
  BY <1>5, <1>6 DEF EngineInv

LEMMA SaveVocabHolds ==
  ASSUME EngineInv, NEW c \in CallerIds, SaveVocab(c)
  PROVE  EngineInv'
<1>0. EngineTypes /\ files \in FileStates /\ caller[c].at = "vocab" /\ HasModel(c)
  BY DEF EngineInv, EngineTypes, SaveVocab, HasModel
<1>1. CallerIs(c, "checkpoint", caller[c].m, caller[c].t)
  BY <1>0, CallerGoes DEF SaveVocab, CallerStages
<1>2. caller[c].t \in FitIds
  BY <1>0, Fields DEF EngineInv, Private, FitIds
<1>3. files' \in FileStates /\ files'.index = files.index /\ files'.model = files.model
      /\ files'.vocab = [fit |-> caller[c].t]
  BY <1>0, <1>2 DEF SaveVocab, FileStates
<1>4. UNCHANGED trainer /\ OnlyFiles /\ (mixed => mixed')
  BY <1>0, <1>3 DEF SaveVocab, OnlyFiles, memVarsML, EngineTypes
<1>5. /\ EngineTypes' /\ Private' /\ MutexHeld' /\ IndexInStep' /\ FilesHold' /\ AccuracyKept'
      /\ FitInMemory' /\ VocabRead' /\ TrainersCounted'
  <2>1. trainer' \in [TrainerIds -> TrainerStates]
    BY <1>0, <1>4 DEF EngineTypes
  <2>2. \A d \in CallerIds : HasModel(d)' => HasModel(d)
    BY <1>0, <1>1 DEF HasModel, CallerIs
  <2>3. QED
    BY <1>0, <1>1, <1>4, <2>1, <2>2, SameModels DEF CallerIs, InRound
<1>6. FitOnDisk'
  <2>1. SUFFICES ASSUME ~mixed' PROVE FitOnDisk!2'
    BY DEF FitOnDisk
  <2>2. ~mixed /\ Halfway \ {Who(c)} = {} /\ ~Loading
    BY <2>1, <1>4 DEF SaveVocab
  <2>3. /\ \A d \in CallerIds : d # c => caller[d].at # "vocab"
        /\ \A g \in TrainerIds : trainer[g].at # "vocab"
        /\ \A d \in CallerIds : caller[d].at # "weights"
    BY <2>2, HalfwayIs DEF Loading
  <2>4. files.model.fit = caller[c].t
    BY <1>0, <2>2 DEF EngineInv, FitOnDisk
  <2>5. files'.vocab.fit = caller[c].t
    BY <1>3
  <2>6. QED
    BY <1>1, <1>3, <1>4, <2>3, <2>4, <2>5 DEF CallerIs
<1>7. QED
  BY <1>5, <1>6 DEF EngineInv

LEMMA RoundSaveModelHolds ==
  ASSUME EngineInv, NEW g \in TrainerIds, RoundSaveModel(g)
  PROVE  EngineInv'
<1>0. EngineTypes /\ files \in FileStates /\ trainer[g].at = "model" /\ InRound(g)
  BY DEF EngineInv, EngineTypes, RoundSaveModel, InRound
<1>1. TrainerIs(g, "vocab", trainer[g].m, trainer[g].t, trainer[g].acc)
  BY <1>0, TrainerGoes DEF RoundSaveModel, TrainerStages
<1>2. heap[trainer[g].m] \in Weights /\ trainer[g].m \in DOMAIN heap
  BY <1>0 DEF EngineInv, EngineTypes, Private
<1>3. files' \in FileStates /\ files'.index = files.index /\ files'.model = heap[trainer[g].m]
      /\ files'.model # Gone
  <2>1. [files EXCEPT !.model = heap[trainer[g].m]] \in FileStates
    BY <1>0, <1>2 DEF FileStates
  <2>2. QED
    BY <1>0, <1>2, <2>1, GoneIsNone DEF RoundSaveModel, FileStates
<1>4. UNCHANGED caller /\ OnlyFiles /\ (mixed => mixed')
  BY <1>0, <1>3 DEF RoundSaveModel, OnlyFiles, memVarsML, EngineTypes
<1>5. /\ EngineTypes' /\ Private' /\ MutexHeld' /\ IndexInStep' /\ FilesHold' /\ AccuracyKept'
      /\ FitInMemory' /\ VocabRead' /\ TrainersCounted'
  <2>1. caller' \in [CallerIds -> CallerStates]
    BY <1>0, <1>4 DEF EngineTypes
  <2>2. \A h \in TrainerIds : InRound(h)' => InRound(h)
    BY <1>0, <1>1 DEF InRound, TrainerIs
  <2>3. QED
    BY <1>0, <1>1, <1>4, <2>1, <2>2, SameModels, BornOnce DEF TrainerIs, HasModel
<1>6. FitOnDisk'
  <2>1. SUFFICES ASSUME ~mixed' PROVE FitOnDisk!2'
    BY DEF FitOnDisk
  <2>2. ~mixed /\ Halfway \ {Its(g)} = {} /\ ~Loading
    BY <2>1, <1>4 DEF RoundSaveModel
  <2>3. /\ \A h \in TrainerIds : h # g => trainer[h].at # "vocab"
        /\ \A c \in CallerIds : caller[c].at # "vocab" /\ caller[c].at # "weights"
    BY <2>2, HalfwayIs DEF Loading
  <2>4. heap[trainer[g].m].fit = trainer[g].t
    BY <1>0, <2>2 DEF EngineInv, FitInMemory
  <2>5. Halfway' # {}
    BY <1>1 DEF Halfway, TrainerIs
  <2>6. QED
    BY <1>1, <1>3, <1>4, <2>3, <2>4, <2>5 DEF TrainerIs
<1>7. QED
  BY <1>5, <1>6 DEF EngineInv

LEMMA RoundSaveVocabHolds ==
  ASSUME EngineInv, NEW g \in TrainerIds, RoundSaveVocab(g)
  PROVE  EngineInv'
<1>0. EngineTypes /\ files \in FileStates /\ trainer[g].at = "vocab" /\ InRound(g)
  BY DEF EngineInv, EngineTypes, RoundSaveVocab, InRound
<1>1. TrainerIs(g, "waiting", trainer[g].m, trainer[g].t, trainer[g].acc)
  <2>1. trainer[g] \in TrainerStates /\ trainDone \in Nat
    BY <1>0 DEF EngineTypes
  <2>2. trainer' \in [TrainerIds -> TrainerStates]
    BY <1>0, <2>1 DEF RoundSaveVocab, EngineTypes, TrainerStates
  <2>3. QED
    BY <1>0, <2>1, <2>2 DEF RoundSaveVocab, TrainerIs, EngineTypes, TrainerStates
<1>2. trainer[g].t \in FitIds
  BY <1>0, Fields DEF EngineInv, Private, FitIds
<1>3. files' \in FileStates /\ files'.index = files.index /\ files'.model = files.model
      /\ files'.vocab = [fit |-> trainer[g].t]
  BY <1>0, <1>2 DEF RoundSaveVocab, FileStates
<1>4. UNCHANGED caller /\ OnlyFiles /\ (mixed => mixed')
  BY <1>0, <1>3 DEF RoundSaveVocab, OnlyFiles, memVarsML, EngineTypes
<1>5. /\ EngineTypes' /\ Private' /\ MutexHeld' /\ IndexInStep' /\ FilesHold' /\ AccuracyKept'
      /\ FitInMemory' /\ VocabRead' /\ TrainersCounted'
  <2>1. caller' \in [CallerIds -> CallerStates]
    BY <1>0, <1>4 DEF EngineTypes
  <2>2. \A h \in TrainerIds : InRound(h)' => InRound(h)
    BY <1>0, <1>1 DEF InRound, TrainerIs
  <2>3. QED
    BY <1>0, <1>1, <1>4, <2>1, <2>2, SameModels, BornOnce DEF TrainerIs, HasModel
<1>6. FitOnDisk'
  <2>1. SUFFICES ASSUME ~mixed' PROVE FitOnDisk!2'
    BY DEF FitOnDisk
  <2>2. ~mixed /\ Halfway \ {Its(g)} = {} /\ ~Loading
    BY <2>1, <1>4 DEF RoundSaveVocab
  <2>3. /\ \A h \in TrainerIds : h # g => trainer[h].at # "vocab"
        /\ \A c \in CallerIds : caller[c].at # "vocab" /\ caller[c].at # "weights"
    BY <2>2, HalfwayIs DEF Loading
  <2>4. files.model.fit = trainer[g].t
    BY <1>0, <2>2 DEF EngineInv, FitOnDisk
  <2>5. files'.vocab.fit = trainer[g].t
    BY <1>3
  <2>6. QED
    BY <1>1, <1>3, <1>4, <2>3, <2>4, <2>5 DEF TrainerIs
<1>7. QED
  BY <1>5, <1>6 DEF EngineInv

-----------------------------------------------------------------------------
(* A checkpoint and the index                                                *)

\* The new file is under a number no listed version has.
LEMMA FileIsNew ==
  ASSUME EngineInv, NEW who, NEW w \in Weights, CheckpointFile(who, w)
  PROVE  /\ mvBusy = {} /\ mvBusy' = {who} /\ nextID' = nextID + 1 /\ nextID' - 1 = nextID
         /\ nextID' \in Nat /\ versions' = versions
         /\ \A id \in DOMAIN ckpt' : ckpt'[id] \in Weights
         /\ nextID \in DOMAIN ckpt' /\ ckpt'[nextID] = w
         /\ \A i \in DOMAIN versions : /\ versions[i].id \in DOMAIN ckpt'
                                       /\ ckpt'[versions[i].id] = ckpt[versions[i].id]
<1>1. nextID \in Nat /\ \A id \in DOMAIN ckpt : ckpt[id] \in Weights
  BY DEF EngineInv, EngineTypes
<1>2. \A i \in DOMAIN versions : versions[i].id # nextID
  <2>1. CASE files.index = Gone
    BY <2>1 DEF EngineInv, IndexInStep
  <2>2. CASE files.index # Gone
    <3>1. mvBusy = {} /\ nextID = files.index.next
      BY <2>2, FileFields DEF EngineInv, IndexInStep, EngineTypes, CheckpointFile
    <3>2. QED
      BY <1>1, <2>2, <3>1 DEF EngineInv, IndexInStep, EngineTypes, SomeVersions
  <2>3. QED
    BY <2>1, <2>2
<1>3. DOMAIN ckpt' = DOMAIN ckpt \cup {nextID} /\ ckpt'[nextID] = w
  BY DEF CheckpointFile
<1>4. \A id \in DOMAIN ckpt : id # nextID => ckpt'[id] = ckpt[id]
  BY DEF CheckpointFile
<1>5. QED
  BY <1>1, <1>2, <1>3, <1>4 DEF CheckpointFile, EngineInv, FilesHold

LEMMA NobodyIndexes ==
  ASSUME EngineInv, mvBusy = {}
  PROVE  /\ \A c \in CallerIds : caller[c].at # "index"
         /\ \A g \in TrainerIds : trainer[g].at # "index"
BY DEF EngineInv, MutexHeld

LEMMA FileWritten ==
  ASSUME EngineInv, NEW who, NEW w \in Weights, CheckpointFile(who, w), files' = files
  PROVE  IndexInStep' /\ FilesHold'
<1>1. nextID' = (IF files'.index = Gone THEN 0 ELSE files'.index.next) + (IF mvBusy' = {} THEN 0 ELSE 1)
  <2>1. mvBusy = {} /\ mvBusy' # {} /\ nextID' = nextID + 1
    BY FileIsNew
  <2>2. files \in FileStates /\ (files.index # Gone => files.index.next \in Nat)
    BY FileFields DEF EngineInv, EngineTypes
  <2>3. nextID = IF files.index = Gone THEN 0 ELSE files.index.next
    BY <2>1, <2>2 DEF EngineInv, IndexInStep
  <2>4. QED
    BY <2>1, <2>2, <2>3
<1>2. IndexInStep'
  BY <1>1, FileIsNew DEF EngineInv, IndexInStep
<1>3. FilesHold'
  BY FileIsNew DEF FilesHold
<1>4. QED
  BY <1>2, <1>3

LEMMA TrainCheckpointHolds ==
  ASSUME EngineInv, NEW c \in CallerIds, TrainCheckpoint(c)
  PROVE  EngineInv'
<1>0. EngineTypes /\ caller[c].at = "checkpoint" /\ HasModel(c)
  BY DEF EngineInv, TrainCheckpoint, HasModel
<1>1. CallerIs(c, "index", caller[c].m, caller[c].t)
  BY <1>0, CallerGoes DEF TrainCheckpoint, CallerStages
<1>2. heap[caller[c].m] \in Weights /\ caller[c].m \in DOMAIN heap
  BY <1>0 DEF EngineInv, EngineTypes, Private
<1>3. CheckpointFile(Who(c), heap[caller[c].m])
  BY DEF TrainCheckpoint
<1>4. UNCHANGED <<heap, model, tok, ready, trainDone, trainer, files, fits, mixed, shared>>
  BY DEF TrainCheckpoint, memVarsML
<1>5. EngineTypes'
  BY <1>1, <1>2, <1>3, <1>4, FileIsNew DEF EngineInv, EngineTypes, CallerIs
<1>6. \A d \in CallerIds : /\ caller'[d].m = caller[d].m /\ caller'[d].t = caller[d].t
                           /\ HasModel(d)' <=> HasModel(d)
                           /\ caller'[d].at = "vocab" <=> caller[d].at = "vocab"
                           /\ caller'[d].at = "weights" <=> caller[d].at = "weights"
  BY <1>0, <1>1 DEF HasModel, CallerIs
<1>7. Private'
  BY <1>4, <1>6 DEF EngineInv, Private, InRound
<1>8. MutexHeld'
  BY <1>1, <1>2, <1>3, <1>4, FileIsNew, NobodyIndexes, WhoIsWho DEF MutexHeld, CallerIs
<1>9. IndexInStep' /\ FilesHold'
  BY <1>2, <1>3, <1>4, FileWritten
<1>10. AccuracyKept'
  <2>1. /\ \A d \in CallerIds : d # c => caller'[d].at # "index"
        /\ \A g \in TrainerIds : trainer'[g].at # "index"
    BY <1>1, <1>2, <1>3, <1>4, FileIsNew, NobodyIndexes DEF CallerIs
  <2>2. ckpt'[nextID' - 1] = heap'[caller'[c].m]
    BY <1>1, <1>2, <1>3, <1>4, FileIsNew DEF CallerIs
  <2>3. ~shared' => \A i \in DOMAIN versions' : ckpt'[versions'[i].id].acc = versions'[i].acc
    BY <1>2, <1>3, <1>4, FileIsNew DEF EngineInv, AccuracyKept
  <2>4. ~shared' => \A g \in TrainerIds : trainer'[g].at = "checkpoint" => heap'[trainer'[g].m].acc = trainer'[g].acc
    BY <1>4 DEF EngineInv, AccuracyKept
  <2>5. QED
    BY <2>1, <2>2, <2>3, <2>4 DEF AccuracyKept
<1>11. FitInMemory'
  BY <1>4, <1>6 DEF EngineInv, FitInMemory, InRound
<1>12. (Halfway = {})' <=> Halfway = {}
  BY <1>4, <1>6, HalfwayIs DEF Halfway
<1>13. FitOnDisk'
  BY <1>4, <1>6, <1>12 DEF EngineInv, FitOnDisk
<1>14. VocabRead' /\ TrainersCounted'
  BY <1>4, <1>6, CountAside DEF EngineInv, VocabRead
<1>15. QED
  BY <1>5, <1>7, <1>8, <1>9, <1>10, <1>11, <1>13, <1>14 DEF EngineInv

LEMMA RoundCheckpointHolds ==
  ASSUME EngineInv, NEW g \in TrainerIds, RoundCheckpoint(g)
  PROVE  EngineInv'
<1>0. EngineTypes /\ trainer[g].at = "checkpoint" /\ InRound(g)
  BY DEF EngineInv, RoundCheckpoint, InRound
<1>1. TrainerIs(g, "index", trainer[g].m, trainer[g].t, trainer[g].acc)
  BY <1>0, TrainerGoes DEF RoundCheckpoint, TrainerStages
<1>2. heap[trainer[g].m] \in Weights /\ trainer[g].m \in DOMAIN heap
  BY <1>0 DEF EngineInv, EngineTypes, Private
<1>3. CheckpointFile(Its(g), heap[trainer[g].m])
  BY DEF RoundCheckpoint
<1>4. UNCHANGED <<heap, model, tok, ready, trainDone, caller, files, fits, mixed, shared>>
  BY DEF RoundCheckpoint, memVarsML
<1>5. EngineTypes'
  BY <1>1, <1>2, <1>3, <1>4, FileIsNew DEF EngineInv, EngineTypes, TrainerIs
<1>6. \A h \in TrainerIds : /\ trainer'[h].m = trainer[h].m /\ trainer'[h].t = trainer[h].t
                            /\ trainer'[h].acc = trainer[h].acc
                            /\ InRound(h)' <=> InRound(h)
                            /\ trainer'[h].at = "vocab" <=> trainer[h].at = "vocab"
                            /\ trainer'[h].at = "checkpoint" => trainer[h].at = "checkpoint"
                            /\ trainer'[h] # Unborn <=> trainer[h] # Unborn
  BY <1>0, <1>1, BornOnce DEF InRound, TrainerIs
<1>7. Private'
  BY <1>4, <1>6 DEF EngineInv, Private, HasModel
<1>8. MutexHeld'
  BY <1>1, <1>2, <1>3, <1>4, FileIsNew, NobodyIndexes, WhoIsWho DEF MutexHeld, TrainerIs
<1>9. IndexInStep' /\ FilesHold'
  BY <1>2, <1>3, <1>4, FileWritten
<1>10. AccuracyKept'
  <2>1. /\ \A c \in CallerIds : caller'[c].at # "index"
        /\ \A h \in TrainerIds : h # g => trainer'[h].at # "index"
    BY <1>1, <1>2, <1>3, <1>4, FileIsNew, NobodyIndexes DEF TrainerIs
  <2>2. ckpt'[nextID' - 1] = heap[trainer[g].m]
    BY <1>1, <1>2, <1>3, <1>4, FileIsNew
  <2>3. ~shared' => \A i \in DOMAIN versions' : ckpt'[versions'[i].id].acc = versions'[i].acc
    BY <1>2, <1>3, <1>4, FileIsNew DEF EngineInv, AccuracyKept
  <2>4. ~shared' => \A h \in TrainerIds : trainer'[h].at = "checkpoint" => heap'[trainer'[h].m].acc = trainer'[h].acc
    BY <1>4, <1>6 DEF EngineInv, AccuracyKept
  <2>5. ~shared' => heap[trainer[g].m].acc = trainer'[g].acc
    BY <1>0, <1>1, <1>4 DEF EngineInv, AccuracyKept, TrainerIs
  <2>6. QED
    BY <2>1, <2>2, <2>3, <2>4, <2>5 DEF AccuracyKept
<1>11. FitInMemory'
  BY <1>4, <1>6 DEF EngineInv, FitInMemory, HasModel
<1>12. (Halfway = {})' <=> Halfway = {}
  BY <1>4, <1>6, HalfwayIs DEF Halfway
<1>13. FitOnDisk'
  BY <1>4, <1>6, <1>12 DEF EngineInv, FitOnDisk
<1>14. VocabRead' /\ TrainersCounted'
  BY <1>4, <1>6, CountAside DEF EngineInv, VocabRead
<1>15. QED
  BY <1>5, <1>7, <1>8, <1>9, <1>10, <1>11, <1>13, <1>14 DEF EngineInv

\* The list gains the file that was written, and the index is the list.
LEMMA ListIsLonger ==
  ASSUME EngineInv, NEW who, NEW acc \in {0, 1}, CheckpointIndex(who, acc)
  PROVE  /\ mvBusy = {who} /\ mvBusy' = {} /\ nextID \in Nat \ {0} /\ nextID' = nextID /\ ckpt' = ckpt
         /\ versions' \in SomeVersions
         /\ \A i \in DOMAIN versions' : \/ i \in DOMAIN versions /\ versions'[i] = versions[i]
                                        \/ versions'[i].id = nextID - 1 /\ versions'[i].acc = acc
         /\ files' \in FileStates /\ files'.model = files.model /\ files'.vocab = files.vocab
         /\ files'.index # Gone /\ files'.index.list = versions' /\ files'.index.next = nextID
<1>1. files \in FileStates /\ versions \in SomeVersions /\ nextID \in Nat /\ mvBusy = {who}
  BY DEF EngineInv, EngineTypes, CheckpointIndex
<1>2. nextID # 0
  <2>1. files.index # Gone => files.index.next \in Nat
    BY <1>1, FileFields
  <2>2. mvBusy # {}
    BY <1>1
  <2>3. QED
    BY <2>1, <2>2 DEF EngineInv, IndexInStep
<1>3. DEFINE v == [id |-> nextID - 1, acc |-> acc]
<1>4. v \in [id : Nat, acc : {0, 1}] /\ v.id = nextID - 1 /\ v.acc = acc
  BY <1>1, <1>2
<1>5. versions' = Append(versions, v)
  BY DEF CheckpointIndex
<1>6. /\ versions' \in SomeVersions
      /\ \A i \in DOMAIN versions' : (i \in DOMAIN versions /\ versions'[i] = versions[i]) \/ versions'[i] = v
  <2> HIDE DEF v
  <2>1. QED
    BY <1>1, <1>4, <1>5 DEF SomeVersions
<1>7. /\ files' \in FileStates /\ files'.model = files.model /\ files'.vocab = files.vocab
      /\ files'.index = [list |-> versions', next |-> nextID]
  BY <1>1, <1>6 DEF CheckpointIndex, FileStates
<1>8. QED
  BY <1>1, <1>2, <1>4, <1>6, <1>7, GoneIsNone DEF CheckpointIndex

LEMMA IndexWritten ==
  ASSUME EngineInv, NEW who, NEW acc \in {0, 1}, CheckpointIndex(who, acc)
  PROVE  IndexInStep' /\ FilesHold'
<1>1. nextID' = (IF files'.index = Gone THEN 0 ELSE files'.index.next) + (IF mvBusy' = {} THEN 0 ELSE 1)
  BY ListIsLonger
<1>2. files.index # Gone => files.index.next \in Nat /\ nextID = files.index.next + 1
  <2>1. files \in FileStates /\ mvBusy # {}
    BY ListIsLonger DEF EngineInv, EngineTypes
  <2>2. QED
    BY <2>1, FileFields DEF EngineInv, IndexInStep
<1>3. \A i \in DOMAIN versions : versions[i].id < nextID
  <2>1. SUFFICES ASSUME NEW i \in DOMAIN versions PROVE versions[i].id < nextID
    OBVIOUS
  <2>2. files.index # Gone
    BY <2>1 DEF EngineInv, IndexInStep
  <2>3. versions[i].id \in Nat
    BY <2>1, VersionFields DEF EngineInv, EngineTypes
  <2>4. QED
    BY <1>2, <2>1, <2>2, <2>3 DEF EngineInv, IndexInStep
<1>4. \A i \in DOMAIN versions' : versions'[i].id < nextID
  BY <1>3, ListIsLonger
<1>5. IndexInStep'
  BY <1>1, <1>4, ListIsLonger DEF IndexInStep
<1>6. FilesHold'
  BY ListIsLonger DEF EngineInv, FilesHold
<1>7. QED
  BY <1>5, <1>6

\* Besides, the files that are combined stay.
LEMMA FilesAside ==
  ASSUME EngineInv, files'.model = files.model, files'.vocab = files.vocab, mixed => mixed',
         \A c \in CallerIds : /\ caller'[c].at = "vocab" <=> caller[c].at = "vocab"
                              /\ caller'[c].at = "weights" => caller[c].at = "weights"
                              /\ caller'[c].t = caller[c].t,
         \A g \in TrainerIds : /\ trainer'[g].at = "vocab" <=> trainer[g].at = "vocab"
                               /\ (trainer'[g].at = "vocab" => trainer'[g].t = trainer[g].t)
  PROVE  FitOnDisk' /\ VocabRead'
<1>1. (Halfway = {})' <=> Halfway = {}
  BY HalfwayIs DEF Halfway
<1>2. FitOnDisk'
  BY <1>1 DEF EngineInv, FitOnDisk
<1>3. VocabRead'
  BY DEF EngineInv, VocabRead
<1>4. QED
  BY <1>2, <1>3

LEMMA TrainIndexHolds ==
  ASSUME EngineInv, NEW c \in CallerIds, TrainIndex(c)
  PROVE  EngineInv'
<1>0. EngineTypes /\ caller[c].at = "index" /\ HasModel(c)
  BY DEF EngineInv, TrainIndex, HasModel
<1>1. CallerIs(c, "publish", caller[c].m, caller[c].t)
  BY <1>0, CallerGoes DEF TrainIndex, CallerStages
<1>2. heap[caller[c].m] \in Weights /\ heap[caller[c].m].acc \in {0, 1}
  <2>1. caller[c].m \in DOMAIN heap /\ heap \in Seq(Weights)
    BY <1>0 DEF EngineInv, EngineTypes, Private
  <2>2. QED
    BY <2>1, WeightFields
<1>3. CheckpointIndex(Who(c), heap[caller[c].m].acc)
  BY DEF TrainIndex
<1>4. UNCHANGED <<heap, model, tok, ready, trainDone, trainer, fits, mixed, shared>>
  BY DEF TrainIndex, memVarsML
<1>5. EngineTypes'
  BY <1>1, <1>2, <1>3, <1>4, ListIsLonger DEF EngineInv, EngineTypes, CallerIs
<1>6. \A d \in CallerIds : /\ caller'[d].m = caller[d].m /\ caller'[d].t = caller[d].t
                           /\ HasModel(d)' <=> HasModel(d)
                           /\ caller'[d].at = "vocab" <=> caller[d].at = "vocab"
                           /\ caller'[d].at = "weights" <=> caller[d].at = "weights"
  BY <1>0, <1>1 DEF HasModel, CallerIs
<1>7. Private'
  BY <1>4, <1>6 DEF EngineInv, Private, InRound
<1>8. /\ \A d \in CallerIds : caller'[d].at # "index"
      /\ \A g \in TrainerIds : trainer'[g].at # "index"
  BY <1>1, <1>2, <1>3, <1>4, ListIsLonger, WhoIsWho DEF EngineInv, MutexHeld, CallerIs
<1>9. MutexHeld'
  BY <1>2, <1>3, <1>8, ListIsLonger DEF MutexHeld
<1>10. IndexInStep' /\ FilesHold'
  BY <1>2, <1>3, IndexWritten
<1>11. AccuracyKept'
  <2>1. ~shared => ckpt[nextID - 1].acc = heap[caller[c].m].acc
    BY <1>0 DEF EngineInv, AccuracyKept
  <2>2. ~shared => \A i \in DOMAIN versions' : ckpt'[versions'[i].id].acc = versions'[i].acc
    BY <1>2, <1>3, <2>1, ListIsLonger DEF EngineInv, AccuracyKept
  <2>3. ~shared => \A g \in TrainerIds : trainer'[g].at = "checkpoint" => heap'[trainer'[g].m].acc = trainer'[g].acc
    BY <1>4 DEF EngineInv, AccuracyKept
  <2>4. QED
    BY <1>4, <1>8, <2>2, <2>3 DEF AccuracyKept
<1>12. FitInMemory'
  BY <1>4, <1>6 DEF EngineInv, FitInMemory, InRound
<1>13. FitOnDisk' /\ VocabRead'
  BY <1>2, <1>3, <1>4, <1>6, ListIsLonger, FilesAside
<1>14. TrainersCounted'
  BY <1>4, CountAside
<1>15. QED
  BY <1>5, <1>7, <1>9, <1>10, <1>11, <1>12, <1>13, <1>14 DEF EngineInv

LEMMA RoundIndexHolds ==
  ASSUME EngineInv, NEW g \in TrainerIds, RoundIndex(g)
  PROVE  EngineInv'
<1>0. EngineTypes /\ trainer[g].at = "index" /\ InRound(g)
  BY DEF EngineInv, RoundIndex, InRound
<1>1. TrainerIs(g, "rollback", trainer[g].m, trainer[g].t, trainer[g].acc)
  BY <1>0, TrainerGoes DEF RoundIndex, TrainerStages
<1>2. trainer[g].acc \in {0, 1}
  BY <1>0, Fields
<1>3. CheckpointIndex(Its(g), trainer[g].acc)
  BY DEF RoundIndex
<1>4. UNCHANGED <<heap, model, tok, ready, trainDone, caller, fits, mixed, shared>>
  BY DEF RoundIndex, memVarsML
<1>5. EngineTypes'
  BY <1>1, <1>2, <1>3, <1>4, ListIsLonger DEF EngineInv, EngineTypes, TrainerIs
<1>6. \A h \in TrainerIds : /\ trainer'[h].m = trainer[h].m /\ trainer'[h].t = trainer[h].t
                            /\ trainer'[h].acc = trainer[h].acc
                            /\ InRound(h)' <=> InRound(h)
                            /\ trainer'[h].at = "vocab" <=> trainer[h].at = "vocab"
                            /\ trainer'[h].at = "checkpoint" => trainer[h].at = "checkpoint"
                            /\ trainer'[h] # Unborn <=> trainer[h] # Unborn
  BY <1>0, <1>1, BornOnce DEF InRound, TrainerIs
<1>7. Private'
  BY <1>4, <1>6 DEF EngineInv, Private, HasModel
<1>8. /\ \A c \in CallerIds : caller'[c].at # "index"
      /\ \A h \in TrainerIds : trainer'[h].at # "index"
  BY <1>1, <1>2, <1>3, <1>4, ListIsLonger, WhoIsWho DEF EngineInv, MutexHeld, TrainerIs
<1>9. MutexHeld'
  BY <1>2, <1>3, <1>8, ListIsLonger DEF MutexHeld
<1>10. IndexInStep' /\ FilesHold'
  BY <1>2, <1>3, IndexWritten
<1>11. AccuracyKept'
  <2>1. ~shared => ckpt[nextID - 1].acc = trainer[g].acc
    BY <1>0 DEF EngineInv, AccuracyKept
  <2>2. ~shared => \A i \in DOMAIN versions' : ckpt'[versions'[i].id].acc = versions'[i].acc
    BY <1>2, <1>3, <2>1, ListIsLonger DEF EngineInv, AccuracyKept
  <2>3. ~shared => \A h \in TrainerIds : trainer'[h].at = "checkpoint" => heap'[trainer'[h].m].acc = trainer'[h].acc
    BY <1>4, <1>6 DEF EngineInv, AccuracyKept
  <2>4. QED
    BY <1>4, <1>8, <2>2, <2>3 DEF AccuracyKept
<1>12. FitInMemory'
  BY <1>4, <1>6 DEF EngineInv, FitInMemory, HasModel
<1>13. FitOnDisk' /\ VocabRead'
  BY <1>2, <1>3, <1>4, <1>6, ListIsLonger, FilesAside
<1>14. TrainersCounted'
  BY <1>6, CountAside
<1>15. QED
  BY <1>5, <1>7, <1>9, <1>10, <1>11, <1>12, <1>13, <1>14 DEF EngineInv

-----------------------------------------------------------------------------
(* The rollback                                                              *)

\* A set of numbers that is not empty has a least one.
LEMMA LeastOf ==
  ASSUME NEW T, T \subseteq Nat, T # {}
  PROVE  \E i \in T : \A j \in T : i <= j
<1> DEFINE R == OpToRel(<, Nat)
<1>1. \A i, j \in Nat : <<j, i>> \in R <=> j < i
  BY DEF OpToRel
<1>2. IsWellFoundedOn(R, Nat)
  BY NatLessThanWellFounded
<1> HIDE DEF R
<1>3. PICK i \in T : \A j \in T : ~ (<<j, i>> \in R)
  BY <1>2, WFMin
<1>4. ASSUME NEW j \in T PROVE i <= j
  <2>1. i \in Nat /\ j \in Nat
    OBVIOUS
  <2>2. ~ (<<j, i>> \in R)
    BY <1>3
  <2>3. ~ (j < i)
    BY <1>1, <2>1, <2>2
  <2>4. QED
    BY <2>1, <2>3
<1>5. QED
  BY <1>4

\* Of accuracies one is best and earliest.
LEMMA EarliestBest ==
  ASSUME NEW list \in SomeVersions, list # <<>>
  PROVE  \E i \in DOMAIN list : /\ \A j \in DOMAIN list : list[j].acc <= list[i].acc
                                /\ \A j \in 1..(i - 1) : list[j].acc < list[i].acc
<1>1. DOMAIN list = 1..Len(list) /\ Len(list) \in Nat \ {0} /\ \A j \in DOMAIN list : list[j].acc \in {0, 1}
  BY VersionFields DEF SomeVersions
<1>2. CASE \A j \in DOMAIN list : list[j].acc = 0
  BY <1>1, <1>2, 1 \in DOMAIN list
<1>3. CASE \E j \in DOMAIN list : list[j].acc = 1
  <2> DEFINE T == {j \in DOMAIN list : list[j].acc = 1}
  <2>1. T \subseteq Nat /\ T # {}
    BY <1>1, <1>3
  <2>2. PICK i \in T : \A j \in T : i <= j
    <3> HIDE DEF T
    <3>1. QED
      BY <2>1, LeastOf
  <2>3. i \in DOMAIN list /\ list[i].acc = 1 /\ i \in 1..Len(list)
    BY <1>1, <2>2
  <2>4. ASSUME NEW j \in 1..(i - 1) PROVE list[j].acc < list[i].acc
    <3>1. j \in DOMAIN list /\ ~ (i <= j)
      BY <1>1, <2>3, <2>4
    <3>2. list[j].acc # 1
      BY <2>2, <3>1
    <3>3. QED
      BY <1>1, <2>3, <3>1, <3>2
  <2>5. \A j \in DOMAIN list : list[j].acc <= list[i].acc
    BY <1>1, <2>3
  <2>6. QED
    BY <2>3, <2>4, <2>5
<1>4. QED
  BY <1>1, <1>2, <1>3

\* A rollback is to a version of the list.
LEMMA RollbackIsListed ==
  ASSUME EngineTypes, NEW acc, NEW v \in RollbackTo(acc)
  PROVE  \E i \in DOMAIN versions : v = versions[i]
<1> DEFINE V == [id : Nat, acc : {0, 1}]
           a == IF Len(versions) > Recent THEN Len(versions) - Recent + 1 ELSE 1
<1>1. versions \in Seq(V) /\ v = BestRecent /\ Len(versions) >= 2
  BY DEF EngineTypes, SomeVersions, RollbackTo
<1> HIDE DEF V
<1>2. a \in 1..Len(versions) /\ Len(versions) \in Nat
  BY <1>1
<1>3. LastFew = SubSeq(versions, a, Len(versions))
  BY DEF LastFew
<1> HIDE DEF a
<1>4. /\ LastFew \in Seq(V) /\ Len(LastFew) = Len(versions) - a + 1
      /\ \A j \in 1..Len(LastFew) : LastFew[j] = versions[a + j - 1] /\ a + j - 1 \in DOMAIN versions
  <2>1. \A j \in a..Len(versions) : versions[j] \in V
    BY <1>1, <1>2
  <2>2. QED
    BY <1>1, <1>2, <1>3, <2>1, SubSeqProperties
<1>5. LastFew \in SomeVersions /\ LastFew # <<>>
  BY <1>2, <1>4 DEF SomeVersions, V
<1>6. \E i \in DOMAIN LastFew : /\ \A j \in DOMAIN LastFew : LastFew[j].acc <= LastFew[i].acc
                                /\ \A j \in 1..(i - 1) : LastFew[j].acc < LastFew[i].acc
  BY <1>5, EarliestBest
<1>7. \E i \in DOMAIN LastFew : BestRecent = LastFew[i]
  BY <1>6 DEF BestRecent
<1>8. QED
  BY <1>1, <1>4, <1>7

-----------------------------------------------------------------------------
(* A round of online training                                                *)

\* The goroutine has the model to itself, but for what is published.
LEMMA RoundChanges ==
  ASSUME EngineInv, NEW g \in TrainerIds, InRound(g), trainer[g].at \notin {"index", "vocab"},
         NEW at \in {"checkpoint", "model"}, NEW acc \in {0, 1}, NEW w \in Weights,
         TrainerIs(g, at, trainer[g].m, trainer[g].t, acc),
         heap' = [heap EXCEPT ![trainer[g].m] = w],
         at = "checkpoint" => w.acc = acc,
         mixed' \in BOOLEAN, mixed => mixed', ~mixed' => w.fit = heap[trainer[g].m].fit,
         UNCHANGED <<model, tok, ready, trainDone, caller, files, ckptVars, fits, shared>>
  PROVE  EngineInv'
<1>0. EngineTypes /\ trainer[g].m \in DOMAIN heap /\ heap \in Seq(Weights)
  BY DEF EngineInv, EngineTypes, Private
<1>1. /\ heap' \in Seq(Weights) /\ Len(heap') = Len(heap) /\ DOMAIN heap' = DOMAIN heap
      /\ heap'[trainer[g].m] = w /\ \A i \in DOMAIN heap : i # trainer[g].m => heap'[i] = heap[i]
  BY <1>0, Changed
<1>2. EngineTypes'
  BY <1>0, <1>1 DEF EngineTypes, ckptVars, TrainerIs
<1>3. \A h \in TrainerIds : /\ trainer'[h].m = trainer[h].m /\ trainer'[h].t = trainer[h].t
                            /\ InRound(h)' <=> InRound(h)
                            /\ trainer'[h].at = "vocab" <=> trainer[h].at = "vocab"
                            /\ trainer'[h].at = "index" <=> trainer[h].at = "index"
                            /\ trainer'[h] # Unborn <=> trainer[h] # Unborn
  BY BornOnce DEF InRound, TrainerIs
<1>4. Private'
  BY <1>1, <1>3 DEF EngineInv, Private, HasModel
<1>5. MutexHeld' /\ IndexInStep' /\ FilesHold'
  BY <1>3, IndexAside
<1>6. AccuracyKept'
  <2>1. SUFFICES ASSUME ~shared PROVE AccuracyKept!2'
    BY DEF AccuracyKept
  <2>2. \A c \in CallerIds : caller[c].at = "index" => heap'[caller[c].m] = heap[caller[c].m]
    BY <1>1 DEF EngineInv, Private, HasModel
  <2>3. \A h \in TrainerIds : h # g /\ trainer[h].at \in {"checkpoint", "index"} =>
                                heap'[trainer[h].m] = heap[trainer[h].m] /\ trainer'[h] = trainer[h]
    BY <1>1, <2>1 DEF EngineInv, Private, InRound, TrainerIs
  <2>4. trainer'[g].at = "checkpoint" => heap'[trainer'[g].m].acc = trainer'[g].acc
    BY <1>1 DEF TrainerIs
  <2>5. trainer'[g].at # "index"
    BY DEF TrainerIs
  <2>6. /\ \A i \in DOMAIN versions : ckpt[versions[i].id].acc = versions[i].acc
        /\ \A c \in CallerIds : caller[c].at = "index" => ckpt[nextID - 1].acc = heap[caller[c].m].acc
        /\ \A h \in TrainerIds : trainer[h].at = "index" => ckpt[nextID - 1].acc = trainer[h].acc
        /\ \A h \in TrainerIds : trainer[h].at = "checkpoint" => heap[trainer[h].m].acc = trainer[h].acc
    BY <2>1 DEF EngineInv, AccuracyKept
  <2>7. \A h \in TrainerIds : h # g => trainer'[h] = trainer[h]
    BY DEF TrainerIs
  <2>8. UNCHANGED <<caller, ckpt, versions, nextID>>
    BY DEF ckptVars
  <2>9. QED
    BY <2>2, <2>3, <2>4, <2>5, <2>6, <2>7, <2>8
<1>7. FitInMemory'
  <2>1. SUFFICES ASSUME ~mixed' PROVE FitInMemory!2'
    BY DEF FitInMemory
  <2>2. \A i \in DOMAIN heap : heap'[i].fit = heap[i].fit
    BY <1>1, <2>1
  <2>3. model # 0 => model \in DOMAIN heap
    BY <1>0 DEF EngineTypes
  <2>4. /\ ready => model # 0 /\ heap[model].fit = tok
        /\ \A c \in CallerIds : HasModel(c) => caller[c].m \in DOMAIN heap /\ heap[caller[c].m].fit = caller[c].t
        /\ \A h \in TrainerIds : InRound(h) => trainer[h].m \in DOMAIN heap /\ heap[trainer[h].m].fit = trainer[h].t
    BY <2>1 DEF EngineInv, FitInMemory, Private
  <2>5. ready' => heap'[model'].fit = tok'
    BY <2>2, <2>3, <2>4
  <2>6. \A c \in CallerIds : HasModel(c)' => heap'[caller'[c].m].fit = caller'[c].t
    BY <2>2, <2>4 DEF HasModel
  <2>7. \A h \in TrainerIds : InRound(h)' => heap'[trainer'[h].m].fit = trainer'[h].t
    BY <1>3, <2>2, <2>4
  <2>8. QED
    BY <2>5, <2>6, <2>7
<1>8. FitOnDisk' /\ VocabRead'
  BY <1>3, FilesAside
<1>9. TrainersCounted'
  BY <1>3, CountAside
<1>10. QED
  BY <1>2, <1>4, <1>5, <1>6, <1>7, <1>8, <1>9 DEF EngineInv

LEMMA TrainModelHolds ==
  ASSUME EngineInv, NEW g \in TrainerIds, TrainModel(g)
  PROVE  EngineInv'
<1>0. trainer[g].at = "train" /\ InRound(g) /\ trainer[g].m \in DOMAIN heap /\ heap \in Seq(Weights)
  BY DEF EngineInv, EngineTypes, TrainModel, InRound, Private
<1>1. PICK acc \in {0, 1} :
        /\ heap' = [heap EXCEPT ![trainer[g].m].acc = acc]
        /\ trainer' = [trainer EXCEPT ![g].at = "checkpoint", ![g].acc = acc]
  BY DEF TrainModel
<1> DEFINE w == [heap[trainer[g].m] EXCEPT !.acc = acc]
<1>2. heap[trainer[g].m] \in Weights
  BY <1>0
<1>3. w \in Weights /\ w.fit = heap[trainer[g].m].fit /\ w.acc = acc
  BY <1>2, Retrained
<1>4. heap' = [heap EXCEPT ![trainer[g].m] = w]
  BY <1>1
<1>5. TrainerIs(g, "checkpoint", trainer[g].m, trainer[g].t, acc)
  <2>1. trainer[g] \in TrainerStates /\ trainer \in [TrainerIds -> TrainerStates]
    BY DEF EngineInv, EngineTypes
  <2>2. trainer' \in [TrainerIds -> TrainerStates]
    BY <1>1, <2>1 DEF TrainerStates
  <2>3. QED
    BY <1>1, <2>1, <2>2 DEF TrainerIs, TrainerStates
<1>6. UNCHANGED <<model, tok, ready, trainDone, caller, files, ckptVars, fits, mixed, shared>>
  BY DEF TrainModel, memVarsML
<1>7. mixed' \in BOOLEAN /\ (mixed => mixed')
  BY <1>6 DEF EngineInv, EngineTypes
<1> HIDE DEF w
<1>8. QED
  BY <1>0, <1>3, <1>4, <1>5, <1>6, <1>7, RoundChanges

LEMMA RoundRollbackHolds ==
  ASSUME EngineInv, NEW g \in TrainerIds, RoundRollback(g)
  PROVE  EngineInv'
<1>0. EngineTypes /\ trainer[g].at = "rollback" /\ InRound(g) /\ trainer[g].m \in DOMAIN heap /\ heap \in Seq(Weights)
  BY DEF EngineInv, EngineTypes, RoundRollback, InRound, Private
<1>1. TrainerIs(g, "model", trainer[g].m, trainer[g].t, trainer[g].acc) /\ trainer[g].acc \in {0, 1}
  BY <1>0, TrainerGoes, Fields DEF RoundRollback, TrainerStages
<1>2. UNCHANGED <<model, tok, ready, trainDone, caller, files, ckptVars, fits, shared>>
  BY DEF RoundRollback, memVarsML
<1>3. CASE /\ \A v \in RollbackTo(trainer[g].acc) : ckpt[v.id].fit # heap[trainer[g].m].fit
           /\ UNCHANGED <<heap, mixed>>
  <2>1. heap' = [heap EXCEPT ![trainer[g].m] = heap[trainer[g].m]] /\ heap[trainer[g].m] \in Weights
    BY <1>0, <1>3
  <2>2. mixed' \in BOOLEAN /\ (mixed => mixed')
    BY <1>0, <1>3 DEF EngineTypes
  <2>3. QED
    BY <1>0, <1>1, <1>2, <2>1, <2>2, RoundChanges
<1>4. CASE \E v \in RollbackTo(trainer[g].acc) :
             /\ heap' = [heap EXCEPT ![trainer[g].m] = ckpt[v.id]]
             /\ mixed' = (mixed \/ ckpt[v.id].fit # heap[trainer[g].m].fit)
  <2>1. PICK v \in RollbackTo(trainer[g].acc) :
             /\ heap' = [heap EXCEPT ![trainer[g].m] = ckpt[v.id]]
             /\ mixed' = (mixed \/ ckpt[v.id].fit # heap[trainer[g].m].fit)
    BY <1>4
  <2>2. v.id \in DOMAIN ckpt
    BY <1>0, RollbackIsListed DEF EngineInv, FilesHold
  <2>3. ckpt[v.id] \in Weights
    BY <1>0, <2>2 DEF EngineTypes
  <2>4. mixed' \in BOOLEAN /\ (mixed => mixed') /\ (~mixed' => ckpt[v.id].fit = heap[trainer[g].m].fit)
    BY <1>0, <2>1 DEF EngineTypes
  <2>5. QED
    BY <1>0, <1>1, <1>2, <2>1, <2>3, <2>4, RoundChanges
<1>5. QED
  BY <1>3, <1>4 DEF RoundRollback

LEMMA RoundBeginsHolds ==
  ASSUME EngineInv, NEW g \in TrainerIds, RoundBegins(g)
  PROVE  EngineInv'
<1>0. /\ EngineTypes /\ trainer[g].at = "waiting" /\ ~InRound(g) /\ ready /\ model # 0 /\ tok # 0
      /\ trainer[g] \in TrainerStates /\ trainer \in [TrainerIds -> TrainerStates]
      /\ model \in Nat /\ tok \in 0..Trains /\ model \in DOMAIN heap
  BY DEF EngineInv, EngineTypes, RoundBegins, InRound
<1>1. TrainerIs(g, "train", model, tok, trainer[g].acc)
  <2>1. trainer' \in [TrainerIds -> TrainerStates]
    BY <1>0 DEF RoundBegins, TrainerStates
  <2>2. QED
    BY <1>0, <2>1 DEF RoundBegins, TrainerIs, TrainerStates
<1>2. UNCHANGED <<heap, model, tok, ready, trainDone, caller, files, ckptVars, fits, mixed>>
  BY DEF RoundBegins, memVarsML
<1>3. shared' = (shared \/ \E h \in TrainerIds \ {g} : InRound(h) /\ trainer[h].m = model)
  BY DEF RoundBegins
<1>4. EngineTypes'
  BY <1>0, <1>1, <1>2, <1>3 DEF EngineTypes, ckptVars, TrainerIs
<1>5. \A h \in TrainerIds : /\ InRound(h)' => h = g \/ (InRound(h) /\ trainer'[h] = trainer[h])
                            /\ trainer'[h].at = "vocab" <=> trainer[h].at = "vocab"
                            /\ trainer'[h].at = "vocab" => trainer'[h].t = trainer[h].t
                            /\ trainer'[h].at = "index" <=> trainer[h].at = "index"
                            /\ trainer'[h] # Unborn <=> trainer[h] # Unborn
  BY <1>0, <1>1, BornOnce DEF InRound, TrainerIs
<1>6. Private'
  <2>1. \A c \in CallerIds : HasModel(c) => caller[c].m # model
    BY DEF EngineInv, Private
  <2>2. ~shared' => /\ ~shared
                    /\ \A h \in TrainerIds : h # g /\ InRound(h) => trainer[h].m # model
    BY <1>3
  <2>3. trainer'[g].m = model /\ trainer'[g].t = tok
    BY <1>1 DEF TrainerIs
  <2>4. QED
    BY <1>0, <1>2, <1>5, <2>1, <2>2, <2>3 DEF EngineInv, Private, HasModel
<1>7. MutexHeld' /\ IndexInStep' /\ FilesHold'
  BY <1>2, <1>5, IndexAside
<1>8. AccuracyKept'
  <2>1. \A h \in TrainerIds : trainer'[h].at \in {"index", "checkpoint"} => trainer'[h] = trainer[h]
    BY <1>1 DEF TrainerIs
  <2>2. ~shared' => ~shared
    BY <1>3
  <2>3. QED
    BY <1>2, <2>1, <2>2 DEF EngineInv, AccuracyKept, ckptVars
<1>9. FitInMemory'
  <2>1. trainer'[g].m = model /\ trainer'[g].t = tok
    BY <1>1 DEF TrainerIs
  <2>2. QED
    BY <1>0, <1>2, <1>5, <2>1 DEF EngineInv, FitInMemory, HasModel
<1>10. FitOnDisk' /\ VocabRead'
  BY <1>2, <1>5, FilesAside
<1>11. TrainersCounted'
  BY <1>5, CountAside
<1>12. QED
  BY <1>4, <1>6, <1>7, <1>8, <1>9, <1>10, <1>11 DEF EngineInv

LEMMA TrainerBeginsHolds ==
  ASSUME EngineInv, NEW g \in TrainerIds, TrainerBegins(g)
  PROVE  EngineInv'
<1>0. trainer[g] \in TrainerStates /\ trainer \in [TrainerIds -> TrainerStates] /\ trainDone \in Nat
  BY DEF EngineInv, EngineTypes
<1>1. trainer' \in [TrainerIds -> TrainerStates]
  BY <1>0 DEF TrainerBegins, TrainerStates
<1>2. TrainerSteps(g, "waiting")
  BY <1>0, <1>1 DEF TrainerBegins, TrainerSteps, TrainerIs, TrainerStates, memVarsML
<1>3. QED
  BY <1>2, TrainerStepsHold
LEMMA TrainerEndsHolds ==
  ASSUME EngineInv, NEW g \in TrainerIds, TrainerEnds(g)
  PROVE  EngineInv'
<1>1. TrainerIs(g, "ended", trainer[g].m, trainer[g].t, trainer[g].acc)
  BY TrainerGoes DEF EngineInv, TrainerEnds, TrainerStages
<1>2. trainDone \in Nat
  BY DEF EngineInv, EngineTypes
<1>3. TrainerSteps(g, "ended")
  BY <1>1, <1>2 DEF TrainerEnds, TrainerSteps
<1>4. QED
  BY <1>3, TrainerStepsHold

-----------------------------------------------------------------------------
(* The load, the fit and the tools                                           *)

\* A step that allocates nothing and changes no model.
LEMMA CallerGoesOn ==
  ASSUME EngineInv, NEW c \in CallerIds, NEW s \in {"idle", "fit", "start", "make", "clear"}, GoCaller(c, s),
         caller[c].at \notin {"index", "vocab"}, trainDone' \in Nat, mixed' \in BOOLEAN, mixed => mixed',
         UNCHANGED <<heap, model, tok, ready, trainer, files, ckptVars, fits, shared>>
  PROVE  EngineInv'
<1>1. CallerIs(c, s, caller[c].m, caller[c].t)
  BY CallerGoes DEF EngineInv, CallerStages
<1>2. heap \in Seq(Weights) /\ fits \in 0..Trains
  BY DEF EngineInv, EngineTypes
<1>3. CallerSteps(c, s, caller[c].m, caller[c].t)
  BY <1>1, <1>2 DEF CallerSteps
<1>4. QED
  BY <1>3, CallerStepsHold

LEMMA LoadVocabHolds ==
  ASSUME EngineInv, NEW c \in CallerIds, LoadVocab(c)
  PROVE  EngineInv'
<1>0. /\ EngineTypes /\ caller[c].at = "load" /\ ~HasModel(c) /\ files \in FileStates
      /\ caller[c] \in CallerStates /\ caller \in [CallerIds -> CallerStates]
  BY DEF EngineInv, EngineTypes, LoadVocab, HasModel
<1>1. /\ UNCHANGED <<heap, model, tok, ready, trainDone, trainer, files, ckptVars, fits, shared>>
      /\ mixed' = (mixed \/ Halfway # {})
  BY DEF LoadVocab, memVarsML
<1>2. mixed' \in BOOLEAN /\ (mixed => mixed') /\ trainDone' \in Nat
  BY <1>0, <1>1 DEF EngineTypes
<1>3. CASE Gone \in {files.model, files.vocab}
  <2>1. GoCaller(c, "fit")
    BY <1>3 DEF LoadVocab, GoCaller
  <2>2. QED
    BY <1>0, <1>1, <1>2, <2>1, CallerGoesOn
<1>4. CASE Gone \notin {files.model, files.vocab}
  <2>1. files.vocab.fit \in FitIds
    BY <1>0, <1>4, FileFields
  <2>2. caller' = [caller EXCEPT ![c].at = "weights", ![c].t = files.vocab.fit]
    BY <1>4 DEF LoadVocab
  <2>3. CallerIs(c, "weights", caller[c].m, files.vocab.fit)
    <3>1. caller' \in [CallerIds -> CallerStates]
      <4>1. files.vocab.fit \in 0..Trains
        BY <2>1 DEF FitIds
      <4>2. QED
        BY <1>0, <2>2, <4>1 DEF CallerStates
    <3>2. QED
      BY <1>0, <2>2, <3>1 DEF CallerIs, CallerStates
  <2>4. EngineTypes'
    BY <1>0, <1>1, <1>2, <2>3 DEF EngineTypes, ckptVars, CallerIs
  <2>5. \A d \in CallerIds : /\ HasModel(d)' => HasModel(d) /\ d # c
                             /\ d # c => caller'[d] = caller[d]
                             /\ caller'[d].at = "index" <=> caller[d].at = "index"
                             /\ caller'[d].at = "vocab" <=> caller[d].at = "vocab"
    BY <1>0, <2>3 DEF HasModel, CallerIs
  <2>6. Private'
    BY <1>1, <2>5 DEF EngineInv, Private, InRound
  <2>7. MutexHeld' /\ IndexInStep' /\ FilesHold'
    BY <1>1, <2>5, IndexAside
  <2>8. AccuracyKept'
    BY <1>0, <1>1, <2>3 DEF EngineInv, AccuracyKept, ckptVars, CallerIs
  <2>9. FitInMemory'
    BY <1>1, <2>5 DEF EngineInv, FitInMemory, InRound
  <2>10. FitOnDisk'
    <3>1. SUFFICES ASSUME ~mixed' PROVE FitOnDisk!2'
      BY DEF FitOnDisk
    <3>2. ~mixed /\ Halfway = {}
      BY <1>1, <3>1
    <3>3. (Halfway = {})' <=> Halfway = {}
      BY <1>1, <2>5, HalfwayIs DEF Halfway
    <3>4. files.model.fit = files.vocab.fit
      BY <1>4, <3>2 DEF EngineInv, FitOnDisk
    <3>5. \A d \in CallerIds : caller'[d].at = "weights" =>
             Halfway' = {} /\ files'.model # Gone /\ files'.model.fit = caller'[d].t
      BY <1>1, <1>4, <2>3, <2>5, <3>2, <3>3, <3>4 DEF EngineInv, FitOnDisk, CallerIs
    <3>6. /\ \A d \in CallerIds : caller'[d].at # "vocab"
          /\ \A g \in TrainerIds : trainer'[g].at # "vocab"
      BY <1>1, <2>5, <3>2, HalfwayIs
    <3>7. QED
      BY <1>1, <3>4, <3>5, <3>6
  <2>11. VocabRead'
    BY <2>1, <2>3, <2>5 DEF EngineInv, VocabRead, CallerIs, FitIds
  <2>12. TrainersCounted'
    BY <1>1, CountAside
  <2>13. QED
    BY <2>4, <2>6, <2>7, <2>8, <2>9, <2>10, <2>11, <2>12 DEF EngineInv
<1>5. QED
  BY <1>3, <1>4

\* A model is allocated for a caller that had none.
LEMMA CallerAllocates ==
  ASSUME EngineInv, NEW c \in CallerIds, NEW at \in {"model", "publish"}, NEW t \in FitIds, NEW w \in Weights,
         caller[c].at \in {"weights", "fit"}, heap' = Append(heap, w), CallerIs(c, at, Len(heap'), t),
         ~mixed => w.fit = t, fits' \in 0..Trains,
         UNCHANGED <<model, tok, ready, trainDone, trainer, files, ckptVars, mixed, shared>>
  PROVE  EngineInv'
<1>1. heap \in Seq(Weights) /\ trainDone \in Nat /\ mixed \in BOOLEAN
  BY DEF EngineInv, EngineTypes
<1>2. CallerSteps(c, at, Len(heap'), t)
  BY <1>1, Allocated DEF CallerSteps, FitIds
<1>3. QED
  BY <1>2, CallerStepsHold

LEMMA LoadWeightsHolds ==
  ASSUME EngineInv, NEW c \in CallerIds, LoadWeights(c)
  PROVE  EngineInv'
<1>0. /\ EngineTypes /\ caller[c].at = "weights" /\ caller[c] \in CallerStates /\ files \in FileStates
      /\ caller \in [CallerIds -> CallerStates] /\ heap \in Seq(Weights)
  BY DEF EngineInv, EngineTypes, LoadWeights
<1>1. UNCHANGED <<model, tok, ready, trainDone, trainer, files, ckptVars, fits, mixed, shared>>
  BY DEF LoadWeights, memVarsML
<1>2. trainDone' \in Nat /\ mixed' \in BOOLEAN /\ fits' \in 0..Trains
  BY <1>0, <1>1 DEF EngineTypes
<1>3. CASE GoCaller(c, "fit") /\ UNCHANGED heap
  BY <1>0, <1>1, <1>2, <1>3, CallerGoesOn
<1>4. CASE /\ files.model # Gone
           /\ heap' = Append(heap, files.model)
           /\ caller' = [caller EXCEPT ![c].at = "publish", ![c].m = Len(heap')]
  <2>1. files.model \in Weights
    BY <1>0, <1>4, FileFields
  <2>2. caller[c].t \in FitIds
    BY <1>0, Fields DEF EngineInv, VocabRead, FitIds
  <2>3. ~mixed => files.model.fit = caller[c].t
    BY <1>0 DEF EngineInv, FitOnDisk
  <2>4. Len(heap') \in Nat
    BY <1>0, <1>4, <2>1, Allocated
  <2>5. CallerIs(c, "publish", Len(heap'), caller[c].t)
    <3>1. caller' \in [CallerIds -> CallerStates]
      BY <1>0, <1>4, <2>4 DEF CallerStates
    <3>2. QED
      BY <1>0, <1>4, <2>4, <3>1 DEF CallerIs, CallerStates
  <2>6. QED
    BY <1>0, <1>1, <1>2, <1>4, <2>1, <2>2, <2>3, <2>5, CallerAllocates
<1>5. QED
  BY <1>3, <1>4 DEF LoadWeights

LEMMA FitHolds ==
  ASSUME EngineInv, NEW c \in CallerIds, Fit(c)
  PROVE  EngineInv'
<1>0. /\ EngineTypes /\ caller[c].at = "fit" /\ heap \in Seq(Weights)
      /\ caller \in [CallerIds -> CallerStates]
  BY DEF EngineInv, EngineTypes, Fit
<1>1. UNCHANGED <<model, tok, ready, trainDone, trainer, files, ckptVars, mixed, shared>>
  BY DEF Fit, memVarsML
<1>2. trainDone' \in Nat /\ mixed' \in BOOLEAN /\ fits \in 0..Trains
  BY <1>0, <1>1 DEF EngineTypes
<1>3. CASE GoCaller(c, "idle") /\ UNCHANGED <<fits, heap>>
  BY <1>0, <1>1, <1>2, <1>3, CallerGoesOn
<1>4. CASE /\ fits < Trains
           /\ fits' = fits + 1
           /\ \E acc \in {0, 1} : heap' = Append(heap, [fit |-> fits', acc |-> acc])
           /\ caller' = [caller EXCEPT ![c] = [at |-> "model", m |-> Len(heap'), t |-> fits']]
  <2>1. fits' \in FitIds /\ fits' \in 0..Trains
    BY <1>2, <1>4 DEF FitIds
  <2>2. PICK acc \in {0, 1} : heap' = Append(heap, [fit |-> fits', acc |-> acc])
    BY <1>4
  <2> DEFINE w == [fit |-> fits', acc |-> acc]
             new == [at |-> "model", m |-> Len(heap'), t |-> fits']
  <2>3. w \in Weights /\ w.fit = fits'
    BY <2>1 DEF Weights
  <2>4. heap' = Append(heap, w)
    BY <2>2
  <2> HIDE DEF w
  <2>5. Len(heap') \in Nat
    BY <1>0, <2>3, <2>4, Allocated
  <2>6. new \in CallerStates /\ new.at = "model" /\ new.m = Len(heap') /\ new.t = fits'
    BY <2>1, <2>5 DEF CallerStates
  <2>7. caller' = [caller EXCEPT ![c] = new]
    BY <1>4
  <2>8. CallerIs(c, "model", Len(heap'), fits')
    <3> HIDE DEF new
    <3>1. QED
      BY <1>0, <2>6, <2>7 DEF CallerIs
  <2>9. QED
    BY <1>0, <1>1, <2>1, <2>3, <2>4, <2>8, CallerAllocates
<1>5. QED
  BY <1>3, <1>4 DEF Fit

LEMMA StartCheckHolds ==
  ASSUME EngineInv, NEW c \in CallerIds, StartCheck(c)
  PROVE  EngineInv'
<1>1. trainDone \in Nat /\ mixed \in BOOLEAN
  BY DEF EngineInv, EngineTypes
<1>2. PICK s \in {"idle", "make"} : GoCaller(c, s)
  BY DEF StartCheck
<1>3. QED
  BY <1>1, <1>2, CallerGoesOn DEF StartCheck, memVarsML
LEMMA AgentTrainHolds ==
  ASSUME EngineInv, AgentTrain
  PROVE  EngineInv'
<1>1. trainDone \in Nat /\ mixed \in BOOLEAN /\ "train" \in CallerIds
  BY DEF EngineInv, EngineTypes, CallerIds
<1>2. QED
  BY <1>1, CallerGoesOn DEF AgentTrain, memVarsML

LEMMA PublishHolds ==
  ASSUME EngineInv, NEW c \in CallerIds, Publish(c)
  PROVE  EngineInv'
<1>0. /\ EngineTypes /\ caller[c].at = "publish" /\ HasModel(c)
      /\ caller[c].m \in DOMAIN heap /\ caller[c].t # 0 /\ caller[c].t \in 0..Trains /\ heap \in Seq(Weights)
  BY Fields DEF EngineInv, EngineTypes, Publish, HasModel, Private
<1>1. CallerIs(c, "start", caller[c].m, caller[c].t)
  BY <1>0, CallerGoes DEF Publish, CallerStages
<1>2. /\ model' = caller[c].m /\ tok' = caller[c].t /\ ready' = TRUE
      /\ UNCHANGED <<heap, trainDone, trainer, files, ckptVars, fits, mixed, shared>>
  BY DEF Publish
<1>3. EngineTypes'
  BY <1>0, <1>1, <1>2 DEF EngineTypes, ckptVars, CallerIs
<1>4. \A d \in CallerIds : /\ HasModel(d)' => HasModel(d) /\ d # c
                           /\ d # c => caller'[d] = caller[d]
                           /\ caller'[d].at = "index" <=> caller[d].at = "index"
                           /\ caller'[d].at = "vocab" <=> caller[d].at = "vocab"
                           /\ caller'[d].at = "weights" => caller[d].at = "weights"
                           /\ caller'[d].t = caller[d].t
  BY <1>0, <1>1 DEF HasModel, CallerIs
<1>5. Private'
  BY <1>0, <1>2, <1>4 DEF EngineInv, Private, InRound
<1>6. MutexHeld' /\ IndexInStep' /\ FilesHold'
  BY <1>2, <1>4, IndexAside
<1>7. AccuracyKept'
  BY <1>0, <1>1, <1>2 DEF EngineInv, AccuracyKept, ckptVars, CallerIs
<1>8. FitInMemory'
  BY <1>0, <1>2, <1>4 DEF EngineInv, FitInMemory, InRound
<1>9. FitOnDisk' /\ VocabRead'
  BY <1>2, <1>4, FilesAside
<1>10. TrainersCounted'
  BY <1>2, CountAside
<1>11. QED
  BY <1>3, <1>5, <1>6, <1>7, <1>8, <1>9, <1>10 DEF EngineInv

\* The goroutine made is the next one.
LEMMA StartedIsNext ==
  ASSUME EngineInv
  PROVE  Started0 \in Nat /\ \A g \in TrainerIds : trainer[g] # Unborn <=> g <= Started0
<1>1. PICK n \in 0..MaxTrainers : \A g \in TrainerIds : trainer[g] # Unborn <=> g <= n
  BY DEF EngineInv, TrainersCounted
<1>2. {g \in TrainerIds : trainer[g] # Unborn} = 1..n
  BY <1>1 DEF TrainerIds
<1>3. Cardinality(1..n) = n
  BY FS_Interval
<1>4. Started0 = n
  BY <1>2, <1>3 DEF Started0
<1>5. QED
  BY <1>1, <1>4

LEMMA StartMakeHolds ==
  ASSUME EngineInv, NEW c \in CallerIds, StartMake(c)
  PROVE  EngineInv'
<1>1. PICK new \in TrainerIds : new = Started0 + 1
  BY StartedIsNext DEF StartMake, TrainerIds
<1>2. /\ EngineTypes /\ caller[c].at = "make" /\ trainer \in [TrainerIds -> TrainerStates]
      /\ trainer[new] = Unborn /\ trainer[new] \in TrainerStates
  BY <1>1, StartedIsNext DEF EngineInv, EngineTypes, StartMake
<1>3. trainer' = [trainer EXCEPT ![new].at = "born"]
  BY <1>1 DEF StartMake
<1>4. /\ trainer' \in [TrainerIds -> TrainerStates] /\ trainer'[new].at = "born"
      /\ \A g \in TrainerIds : g # new => trainer'[g] = trainer[g]
  <2>1. trainer' \in [TrainerIds -> TrainerStates]
    BY <1>2, <1>3 DEF TrainerStates
  <2>2. QED
    BY <1>2, <1>3, <2>1 DEF TrainerStates
<1>5. CallerIs(c, "idle", caller[c].m, caller[c].t)
  BY <1>2, CallerGoes DEF StartMake, CallerStages
<1>6. /\ trainDone' = trainDone + 1
      /\ UNCHANGED <<heap, model, tok, ready, files, ckptVars, fits, mixed, shared>>
  BY DEF StartMake
<1>7. EngineTypes'
  BY <1>2, <1>4, <1>5, <1>6 DEF EngineTypes, ckptVars, CallerIs
<1>8. \A d \in CallerIds : /\ HasModel(d)' => HasModel(d)
                           /\ d # c => caller'[d] = caller[d]
                           /\ caller'[d].at = "index" <=> caller[d].at = "index"
                           /\ caller'[d].at = "vocab" <=> caller[d].at = "vocab"
                           /\ caller'[d].at = "weights" => caller[d].at = "weights"
                           /\ caller'[d].m = caller[d].m /\ caller'[d].t = caller[d].t
  BY <1>2, <1>5 DEF HasModel, CallerIs
<1>9. \A g \in TrainerIds : /\ InRound(g)' => InRound(g) /\ trainer'[g] = trainer[g]
                            /\ trainer'[g].at \in {"index", "checkpoint"} => trainer'[g] = trainer[g]
                            /\ trainer'[g].at = "index" <=> trainer[g].at = "index"
                            /\ trainer'[g].at = "vocab" <=> trainer[g].at = "vocab"
                            /\ trainer'[g].at = "vocab" => trainer'[g].t = trainer[g].t
  BY <1>2, <1>4 DEF InRound, Unborn
<1>10. Private'
  BY <1>6, <1>8, <1>9 DEF EngineInv, Private
<1>11. MutexHeld' /\ IndexInStep' /\ FilesHold'
  BY <1>6, <1>8, <1>9, IndexAside
<1>12. AccuracyKept'
  BY <1>6, <1>8, <1>9 DEF EngineInv, AccuracyKept, ckptVars
<1>13. FitInMemory'
  BY <1>6, <1>8, <1>9 DEF EngineInv, FitInMemory
<1>14. FitOnDisk' /\ VocabRead'
  BY <1>6, <1>8, <1>9, FilesAside
<1>15. TrainersCounted'
  <2>1. \A g \in TrainerIds : trainer'[g] # Unborn <=> g <= new
    <3>1. trainer'[new] # Unborn
      BY <1>4, BornOnce
    <3>2. \A g \in TrainerIds : g # new => (g <= new <=> g <= Started0)
      BY <1>1, StartedIsNext DEF TrainerIds
    <3>3. QED
      BY <1>4, <3>1, <3>2, StartedIsNext DEF TrainerIds
  <2>2. new \in 0..MaxTrainers
    BY DEF TrainerIds
  <2>3. QED
    BY <2>1, <2>2 DEF TrainersCounted
<1>16. QED
  BY <1>7, <1>10, <1>11, <1>12, <1>13, <1>14, <1>15 DEF EngineInv

LEMMA ResetStopHolds ==
  ASSUME EngineInv, ResetStop
  PROVE  EngineInv'
<1>1. /\ trainDone \in Nat /\ mixed \in BOOLEAN /\ "reset" \in CallerIds
      /\ caller \in [CallerIds -> CallerStates]
  BY DEF EngineInv, EngineTypes, CallerIds
<1>2. caller["reset"].at = "idle"
  BY DEF ResetStop
<1>3. UNCHANGED <<heap, model, tok, ready, trainDone, trainer, files, ckptVars, fits, mixed, shared>>
  BY DEF ResetStop
<1>4. PICK s \in {"idle", "clear"} : GoCaller("reset", s)
  <2>1. CASE trainDone \in closedDone
    <3>1. caller' = caller
      BY <2>1 DEF ResetStop
    <3>2. GoCaller("reset", "idle")
      BY <1>1, <1>2, <3>1 DEF GoCaller, CallerStates
    <3>3. QED
      BY <3>2
  <2>2. CASE trainDone \notin closedDone
    BY <2>2 DEF ResetStop
  <2>3. QED
    BY <2>1, <2>2
<1>5. QED
  BY <1>1, <1>2, <1>3, <1>4, CallerGoesOn

LEMMA ResetClearHolds ==
  ASSUME EngineInv, ResetClear
  PROVE  EngineInv'
<1>0. EngineTypes /\ "reset" \in CallerIds /\ caller["reset"].at = "clear"
  BY DEF EngineInv, ResetClear, CallerIds
<1>1. CallerIs("reset", "idle", caller["reset"].m, caller["reset"].t)
  BY <1>0, CallerGoes DEF ResetClear, CallerStages
<1>2. /\ model' = 0 /\ ready' = FALSE
      /\ UNCHANGED <<heap, tok, trainDone, trainer, files, ckptVars, fits, mixed, shared>>
  BY DEF ResetClear
<1>3. EngineTypes'
  <2>1. Len(heap) \in Nat /\ heap' = heap
    BY <1>0, <1>2 DEF EngineTypes
  <2>2. ready' \in BOOLEAN
    BY <1>2, Zenon
  <2>3. model' \in 0..Len(heap')
    BY <1>2, <2>1
  <2>4. QED
    BY <1>0, <1>1, <1>2, <2>2, <2>3 DEF EngineTypes, ckptVars, CallerIs
<1>4. \A d \in CallerIds : /\ HasModel(d)' => HasModel(d)
                           /\ caller'[d].at = "index" <=> caller[d].at = "index"
                           /\ caller'[d].at = "vocab" <=> caller[d].at = "vocab"
                           /\ caller'[d].at = "weights" => caller[d].at = "weights"
                           /\ caller'[d].m = caller[d].m /\ caller'[d].t = caller[d].t
  BY <1>0, <1>1 DEF HasModel, CallerIs
<1>5. Private'
  <2>1. 0 \notin DOMAIN heap
    BY <1>0 DEF EngineTypes
  <2>2. QED
    BY <1>2, <1>4, <2>1 DEF EngineInv, Private, InRound
<1>6. MutexHeld' /\ IndexInStep' /\ FilesHold'
  BY <1>2, <1>4, IndexAside
<1>7. AccuracyKept'
  BY <1>2, <1>4 DEF EngineInv, AccuracyKept, ckptVars
<1>8. FitInMemory'
  BY <1>2, <1>4 DEF EngineInv, FitInMemory, InRound
<1>9. FitOnDisk' /\ VocabRead'
  BY <1>2, <1>4, FilesAside
<1>10. TrainersCounted'
  BY <1>2, CountAside
<1>11. QED
  BY <1>3, <1>5, <1>6, <1>7, <1>8, <1>9, <1>10 DEF EngineInv

-----------------------------------------------------------------------------
(* The end of the process, and the next one                                  *)

\* What it finds on disk: the files as they were, but one that was being written may be gone.
LEMMA RestartFinds ==
  ASSUME EngineInv, Restart
  PROVE  /\ files' \in FileStates /\ files'.model = files.model
         /\ files'.index \in {files.index, Gone}
         /\ files'.vocab \in {files.vocab, Gone} /\ (Halfway = {} => files'.vocab = files.vocab)
<1>1. files \in FileStates
  BY DEF EngineInv, EngineTypes
<1>2. PICK tornVocab \in BOOLEAN, tornIndex \in BOOLEAN :
        /\ tornVocab => Halfway # {}
        /\ files' = [files EXCEPT !.vocab = IF tornVocab THEN Gone ELSE @,
                                  !.index = IF tornIndex THEN Gone ELSE @]
  BY DEF Restart
<1> DEFINE v == IF tornVocab THEN Gone ELSE files.vocab
           x == IF tornIndex THEN Gone ELSE files.index
<1>3. files' = [files EXCEPT !.vocab = v, !.index = x]
  BY <1>2
<1>4. /\ v \in {files.vocab, Gone} /\ v \in [fit : FitIds] \cup {Gone}
      /\ x \in {files.index, Gone} /\ x \in [list : SomeVersions, next : Nat] \cup {Gone}
      /\ (Halfway = {} => v = files.vocab)
  BY <1>1, <1>2 DEF FileStates
<1> HIDE DEF v, x
<1>5. files' \in FileStates /\ files'.model = files.model /\ files'.vocab = v /\ files'.index = x
  BY <1>1, <1>3, <1>4 DEF FileStates
<1>6. QED
  BY <1>4, <1>5

LEMMA RestartHolds ==
  ASSUME EngineInv, Restart
  PROVE  EngineInv'
<1>1. /\ heap' = <<>> /\ model' = 0 /\ tok' = 0 /\ ready' = FALSE /\ trainDone' = trainDone + 1 /\ mvBusy' = {}
      /\ mixed' = (mixed \/ Halfway # {})
      /\ UNCHANGED <<ckpt, fits, shared>>
  BY DEF Restart
<1>2. /\ trainer' = [g \in TrainerIds |-> IF trainer[g] = Unborn THEN Unborn ELSE [Unborn EXCEPT !.at = "ended"]]
      /\ caller' = [c \in CallerIds |-> IF c = "startup" THEN [IdleCaller EXCEPT !.at = "load"] ELSE IdleCaller]
  BY DEF Restart
<1>3. /\ Unborn \in TrainerStates /\ [Unborn EXCEPT !.at = "ended"] \in TrainerStates
      /\ Unborn.at = "none" /\ [Unborn EXCEPT !.at = "ended"].at = "ended"
      /\ IdleCaller \in CallerStates /\ [IdleCaller EXCEPT !.at = "load"] \in CallerStates
      /\ IdleCaller.at = "idle" /\ [IdleCaller EXCEPT !.at = "load"].at = "load"
  BY DEF Unborn, IdleCaller, TrainerStates, CallerStates
<1>4. /\ \A g \in TrainerIds : /\ trainer'[g].at \in {"none", "ended"}
                               /\ trainer'[g] # Unborn <=> trainer[g] # Unborn
      /\ trainer' \in [TrainerIds -> TrainerStates]
  BY <1>2, <1>3
<1>5. /\ \A c \in CallerIds : caller'[c].at \in {"idle", "load"}
      /\ caller' \in [CallerIds -> CallerStates]
  BY <1>2, <1>3
<1>6. versions' = versions \/ versions' = <<>>
  <2>1. versions' = IF files'.index = Gone THEN <<>> ELSE files'.index.list
    BY DEF Restart
  <2>2. files.index # Gone => files.index.list = versions
    BY DEF EngineInv, IndexInStep
  <2>3. QED
    BY <2>1, <2>2, RestartFinds
<1>7. /\ files'.index = Gone => versions' = <<>> /\ nextID' = 0
      /\ files'.index # Gone => /\ files'.index = files.index /\ files'.index.list = versions'
                                /\ versions' = versions /\ nextID' = files'.index.next /\ nextID' \in Nat
  <2>1. /\ versions' = IF files'.index = Gone THEN <<>> ELSE files'.index.list
        /\ nextID' = IF files'.index = Gone THEN 0 ELSE files'.index.next
    BY DEF Restart
  <2>2. files.index # Gone => files.index.list = versions
    BY DEF EngineInv, IndexInStep
  <2>3. files'.index # Gone => files'.index.next \in Nat
    BY RestartFinds, FileFields
  <2>4. QED
    BY <2>1, <2>2, <2>3, RestartFinds
<1>8. EngineTypes'
  <2>1. ready' \in BOOLEAN
    BY <1>1, Zenon
  <2>2. mixed' \in BOOLEAN
    BY <1>1 DEF EngineInv, EngineTypes
  <2>3. versions' \in SomeVersions
    <3>1. <<>> \in SomeVersions
      BY DEF SomeVersions
    <3>2. versions \in SomeVersions
      BY DEF EngineInv, EngineTypes
    <3>3. QED
      BY <1>6, <3>1, <3>2
  <2>4. heap' \in Seq(Weights) /\ Len(heap') = 0
    BY <1>1
  <2>5. model' \in 0..Len(heap') /\ nextID' \in Nat
    BY <1>1, <1>7, <2>4
  <2>6. tok' \in 0..Trains
    BY <1>1
  <2>7. QED
    BY <1>1, <1>4, <1>5, <2>1, <2>2, <2>3, <2>4, <2>5, <2>6, RestartFinds DEF EngineInv, EngineTypes
<1>9. Private'
  BY <1>1, <1>4, <1>5 DEF Private, HasModel, InRound
<1>10. MutexHeld'
  BY <1>1, <1>4, <1>5 DEF MutexHeld
<1>11. IndexInStep'
  BY <1>1, <1>7 DEF EngineInv, IndexInStep
<1>12. FilesHold'
  BY <1>1, <1>6 DEF EngineInv, FilesHold
<1>13. AccuracyKept'
  BY <1>1, <1>4, <1>5, <1>6 DEF EngineInv, AccuracyKept
<1>14. FitInMemory'
  BY <1>1, <1>4, <1>5 DEF FitInMemory, HasModel, InRound
<1>15. FitOnDisk'
  <2>1. SUFFICES ASSUME ~mixed' PROVE FitOnDisk!2'
    BY DEF FitOnDisk
  <2>2. ~mixed /\ Halfway = {}
    BY <1>1, <2>1
  <2>3. files'.vocab = files.vocab /\ files'.model = files.model
    BY <2>2, RestartFinds
  <2>4. Gone \notin {files.model, files.vocab} => files.model.fit = files.vocab.fit
    BY <2>2 DEF EngineInv, FitOnDisk
  <2>5. QED
    BY <1>4, <1>5, <2>3, <2>4
<1>16. VocabRead' /\ TrainersCounted'
  BY <1>4, <1>5, CountAside DEF VocabRead
<1>17. QED
  BY <1>8, <1>9, <1>10, <1>11, <1>12, <1>13, <1>14, <1>15, <1>16 DEF EngineInv

-----------------------------------------------------------------------------
(* The engine                                                                *)

LEMMA EngineInit == MLInit => EngineInv
<1>1. SUFFICES ASSUME MLInit PROVE EngineInv
  OBVIOUS
<1>2. /\ heap = <<>> /\ model = 0 /\ tok = 0 /\ ready = FALSE /\ trainDone = 0 /\ mvBusy = {}
      /\ versions = <<>> /\ nextID = 0 /\ ckpt = <<>> /\ fits = 0 /\ mixed = FALSE /\ shared = FALSE
      /\ files = [model |-> Gone, vocab |-> Gone, index |-> Gone]
      /\ trainer = [g \in TrainerIds |-> Unborn]
      /\ caller = [c \in CallerIds |-> IF c = "startup" THEN [IdleCaller EXCEPT !.at = "load"] ELSE IdleCaller]
  BY <1>1 DEF MLInit
<1>3. /\ Unborn \in TrainerStates /\ Unborn.at = "none"
      /\ IdleCaller \in CallerStates /\ [IdleCaller EXCEPT !.at = "load"] \in CallerStates
      /\ IdleCaller.at = "idle" /\ [IdleCaller EXCEPT !.at = "load"].at = "load"
  BY DEF Unborn, IdleCaller, TrainerStates, CallerStates
<1>4. /\ \A g \in TrainerIds : trainer[g].at = "none" /\ trainer[g] = Unborn
      /\ trainer \in [TrainerIds -> TrainerStates]
  BY <1>2, <1>3
<1>5. /\ \A c \in CallerIds : caller[c].at \in {"idle", "load"}
      /\ caller \in [CallerIds -> CallerStates]
  BY <1>2, <1>3
<1>6. EngineTypes
  <2>1. ready \in BOOLEAN /\ mixed \in BOOLEAN /\ shared \in BOOLEAN
    BY <1>2, Zenon
  <2>2. heap \in Seq(Weights) /\ Len(heap) = 0 /\ versions \in SomeVersions /\ DOMAIN ckpt = {}
    BY <1>2 DEF SomeVersions
  <2>3. files \in FileStates
    BY <1>2 DEF FileStates
  <2>4. QED
    BY <1>2, <1>4, <1>5, <2>1, <2>2, <2>3 DEF EngineTypes
<1>7. Private /\ MutexHeld /\ VocabRead
  BY <1>2, <1>4, <1>5 DEF Private, MutexHeld, VocabRead, HasModel, InRound
<1>8. IndexInStep /\ FilesHold /\ AccuracyKept
  BY <1>2, <1>4, <1>5 DEF IndexInStep, FilesHold, AccuracyKept
<1>9. FitInMemory /\ FitOnDisk
  BY <1>2, <1>4, <1>5 DEF FitInMemory, FitOnDisk, HasModel, InRound
<1>10. TrainersCounted
  BY <1>4, 0 \in 0..MaxTrainers DEF TrainersCounted, TrainerIds
<1>11. QED
  BY <1>6, <1>7, <1>8, <1>9, <1>10 DEF EngineInv

LEMMA EngineStutters == EngineInv /\ UNCHANGED mlVars => EngineInv'
<1>1. SUFFICES ASSUME EngineInv, UNCHANGED mlVars PROVE EngineInv'
  OBVIOUS
<1>2. MutexHeld' /\ IndexInStep' /\ FilesHold' /\ TrainersCounted' /\ FitOnDisk' /\ VocabRead'
  BY <1>1, IndexAside, CountAside, FilesAside DEF mlVars, ckptVars
<1>3. EngineTypes' /\ Private' /\ AccuracyKept' /\ FitInMemory'
  BY <1>1 DEF mlVars, EngineInv, EngineTypes, Private, AccuracyKept, FitInMemory, HasModel, InRound
<1>4. QED
  BY <1>2, <1>3 DEF EngineInv

LEMMA EngineSteps == EngineInv /\ [MLNext]_mlVars => EngineInv'
<1>1. SUFFICES ASSUME EngineInv, [MLNext]_mlVars PROVE EngineInv'
  OBVIOUS
<1>2. ASSUME NEW c \in CallerIds, CallerStep(c) PROVE EngineInv'
  BY <1>1, <1>2, LoadVocabHolds, LoadWeightsHolds, FitHolds, SaveModelHolds, SaveVocabHolds,
     TrainCheckpointHolds, TrainIndexHolds, PublishHolds, StartCheckHolds, StartMakeHolds DEF CallerStep
<1>3. ASSUME NEW g \in TrainerIds, TrainerStep(g) PROVE EngineInv'
  BY <1>1, <1>3, TrainerBeginsHolds, TrainerEndsHolds, RoundBeginsHolds, TrainModelHolds,
     RoundCheckpointHolds, RoundIndexHolds, RoundRollbackHolds, RoundSaveModelHolds, RoundSaveVocabHolds
     DEF TrainerStep
<1>4. CASE AgentTrain \/ ResetStop \/ ResetClear
  BY <1>1, <1>4, AgentTrainHolds, ResetStopHolds, ResetClearHolds
<1>5. CASE Restart
  BY <1>1, <1>5, RestartHolds
<1>6. CASE UNCHANGED mlVars
  BY <1>1, <1>6, EngineStutters
<1>7. QED
  BY <1>1, <1>2, <1>3, <1>4, <1>5, <1>6 DEF MLNext

LEMMA EngineFits == EngineInv => EngineFilesFit
<1>1. SUFFICES ASSUME EngineInv PROVE EngineFilesFit
  OBVIOUS
<1>2. ASSUME NEW v \in Listed PROVE \E i \in DOMAIN versions : v = versions[i]
  <2>1. files.index # Gone => files.index.list = versions
    BY <1>1 DEF EngineInv, IndexInStep
  <2>2. QED
    BY <1>2, <2>1 DEF Listed
<1>3. CheckpointsHold
  BY <1>1, <1>2 DEF CheckpointsHold, EngineInv, FilesHold, AccuracyKept
<1>4. OneFit
  BY <1>1 DEF OneFit, EngineInv, FitInMemory, FitOnDisk
<1>5. QED
  BY <1>3, <1>4 DEF EngineFilesFit

(* Whatever the order of start-up, agent_train, reset_state, rounds of online *)
(* training and crashes, every checkpoint listed has its file, as accurate as *)
(* the list says, and the weights and the vocabulary in force, and those on   *)
(* disk, are of one fit unless one of the noted ways parted them (Train,      *)
(* trainFromBuffer and SaveModel of ml_bridge.go, ml/versioning).             *)
THEOREM EngineFilesFitHold == MLSpec => []EngineFilesFit
<1>1. MLInit => EngineInv
  BY EngineInit
<1>2. EngineInv /\ [MLNext]_mlVars => EngineInv'
  BY EngineSteps
<1>3. EngineInv => EngineFilesFit
  BY EngineFits
<1>4. QED
  BY <1>1, <1>2, <1>3, PTL DEF MLSpec

-----------------------------------------------------------------------------
(* The training samples                                                      *)

USE RetentionAssumption, StoreBounds DEF RetentionAssumption, StoreBounds

SampleStates ==
  [file : {"none", "there", "removed"}, row : {"none", "there", "deleted"}, born : 0..MaxDay, signal : 0..2]
PrunerStates == [at : {"idle", "files", "scan"}, look : SUBSET Ids, rows : SUBSET Ids]

\* What may be pruned: it shows nothing, or some retention is over.
MayGo(s) == sample[s].signal = 0 \/ \E days \in Retentions \ {0} : day - sample[s].born > days

SamplesCounted ==
  \E n \in 0..MaxSamples : \A s \in Ids : sample[s] # NoSample <=> s <= n
SamplesKept ==
  /\ \A s \in Ids : /\ sample[s].file = "removed" \/ sample[s].row = "deleted" => MayGo(s)
                    /\ sample[s].row # "none" => sample[s].file # "none"
  /\ saving # 0 => sample[saving].file # "none"
\* A pruner looks at rows that were written, and takes those that may go.
PrunersSure ==
  \A p \in Pruners :
    /\ \A s \in pruner[p].look \cup pruner[p].rows : sample[s].row # "none"
    /\ \A s \in pruner[p].rows : MayGo(s)
    /\ pruner[p].at = "files" => \A s \in pruner[p].look : MayGo(s)
TrainInv == TrainTypeOK /\ SamplesCounted /\ SamplesKept /\ PrunersSure

LEMMA MayStillGo ==
  ASSUME TrainTypeOK, NEW s \in Ids, MayGo(s), day' \in {day, day + 1},
         sample'[s].born = sample[s].born, sample'[s].signal = sample[s].signal
  PROVE  MayGo(s)'
<1>1. sample[s].born \in Nat /\ day \in Nat /\ day' \in Nat /\ day <= day'
  BY DEF TrainTypeOK
<1>2. CASE sample[s].signal = 0
  BY <1>2 DEF MayGo
<1>3. ASSUME NEW days \in Retentions \ {0}, day - sample[s].born > days
      PROVE  MayGo(s)'
  <2>1. days \in Nat
    BY <1>3
  <2>2. day' - sample[s].born > days
    BY <1>1, <1>3, <2>1
  <2>3. QED
    BY <1>3, <2>2 DEF MayGo
<1>4. QED
  BY <1>2, <1>3 DEF MayGo

\* The identifier of a new sample is not in use.
LEMMA NextIsFree ==
  ASSUME TrainInv, UsedIds # Ids
  PROVE  /\ Cardinality(UsedIds) + 1 \in Ids /\ Cardinality(UsedIds) \in Nat
         /\ \A s \in Ids : sample[s] # NoSample <=> s <= Cardinality(UsedIds)
<1>1. PICK n \in 0..MaxSamples : \A s \in Ids : sample[s] # NoSample <=> s <= n
  BY DEF TrainInv, SamplesCounted
<1>2. UsedIds = 1..n
  BY <1>1 DEF UsedIds, Ids
<1>3. Cardinality(1..n) = n
  <2>1. 1 \in Int /\ n \in Int /\ n \in Nat
    OBVIOUS
  <2>2. Cardinality(1..n) = IF 1 > n THEN 0 ELSE n - 1 + 1
    BY <2>1, FS_Interval, Zenon
  <2>3. QED
    BY <2>1, <2>2
<1>4. Cardinality(UsedIds) = n
  BY <1>2, <1>3
<1>5. n # MaxSamples
  BY <1>2 DEF Ids
<1>6. QED
  BY <1>1, <1>4, <1>5 DEF Ids

LEMMA SampleFields ==
  ASSUME TrainTypeOK
  PROVE  /\ sample \in [Ids -> SampleStates] /\ pruner \in [Pruners -> PrunerStates]
         /\ \A s \in Ids : sample[s] \in SampleStates
         /\ \A p \in Pruners : pruner[p].look \subseteq Ids /\ pruner[p].rows \subseteq Ids
BY DEF TrainTypeOK, SampleStates, PrunerStates

\* The samples stay, and the rows looked at are of those.
LEMMA PrunersMove ==
  ASSUME TrainInv, TrainTypeOK', UNCHANGED <<sample, saving>>, day' \in {day, day + 1},
         PrunersSure' \/ UNCHANGED pruner
  PROVE  TrainInv'
<1>1. \A s \in Ids : MayGo(s) => MayGo(s)'
  BY MayStillGo DEF TrainInv
<1>2. SamplesKept' /\ SamplesCounted'
  BY <1>1 DEF TrainInv, SamplesKept, SamplesCounted
<1>3. PrunersSure'
  BY <1>1, SampleFields DEF TrainInv, PrunersSure
<1>4. QED
  BY <1>2, <1>3 DEF TrainInv

LEMMA SaveImageKeeps ==
  ASSUME TrainInv, NEW found \in BOOLEAN, NEW labelled \in Labels, SaveImage(found, labelled)
  PROVE  TrainInv'
<1> DEFINE new == [file |-> "there", row |-> "none", born |-> day, signal |-> SignalLevel(found, labelled)]
<1>1. PICK id \in Ids : id = Cardinality(UsedIds) + 1
  BY NextIsFree DEF SaveImage
<1>2. /\ saving' = id /\ sample' = [sample EXCEPT ![id] = new]
      /\ UNCHANGED <<pruner, retention, ticking, day, boots, faults>>
  BY <1>1 DEF SaveImage
<1>3. new \in SampleStates /\ new.file = "there" /\ new.row = "none" /\ new # NoSample
  BY DEF SampleStates, SignalLevel, TrainInv, TrainTypeOK, NoSample
<1> HIDE DEF new
<1>4. sample[id] = NoSample /\ \A s \in Ids : sample[s] # NoSample <=> s <= id - 1
  <2>1. /\ Cardinality(UsedIds) \in Nat
        /\ \A s \in Ids : sample[s] # NoSample <=> s <= Cardinality(UsedIds)
    BY NextIsFree DEF SaveImage
  <2>2. Cardinality(UsedIds) = id - 1
    BY <1>1, <2>1 DEF Ids
  <2>3. ~ (id <= id - 1)
    BY DEF Ids
  <2>4. QED
    BY <2>1, <2>2, <2>3
<1>5. sample' \in [Ids -> SampleStates] /\ sample'[id] = new /\ \A s \in Ids : s # id => sample'[s] = sample[s]
  BY <1>2, <1>3, SampleFields DEF TrainInv
<1>6. TrainTypeOK'
  BY <1>2, <1>5 DEF TrainInv, TrainTypeOK, SampleStates
<1>7. \A s \in Ids : s # id => (MayGo(s) <=> MayGo(s)')
  BY <1>2, <1>5 DEF MayGo
<1>8. SamplesKept'
  BY <1>2, <1>3, <1>5, <1>7 DEF TrainInv, SamplesKept
<1>9. PrunersSure'
  <2>1. \A p \in Pruners : \A s \in pruner[p].look \cup pruner[p].rows : s # id
    BY <1>4 DEF TrainInv, PrunersSure, NoSample
  <2>2. QED
    BY <1>2, <1>5, <1>7, <2>1, SampleFields DEF TrainInv, PrunersSure
<1>10. SamplesCounted'
  <2>1. id \in 0..MaxSamples
    BY DEF Ids
  <2>2. \A s \in Ids : sample'[s] # NoSample <=> s <= id
    BY <1>3, <1>4, <1>5 DEF Ids
  <2>3. QED
    BY <2>1, <2>2 DEF SamplesCounted
<1>11. QED
  BY <1>6, <1>8, <1>9, <1>10 DEF TrainInv

\* One sample's file or row changes.
LEMMA SampleChanges ==
  ASSUME TrainInv, NEW s \in Ids, TrainTypeOK', day' = day,
         \A t \in Ids : t # s => sample'[t] = sample[t],
         sample[s] # NoSample => sample'[s] # NoSample, sample[s].file # "none", sample'[s].file # "none",
         sample'[s].born = sample[s].born, sample'[s].signal = sample[s].signal,
         sample[s].row # "none" => sample'[s].row # "none",
         sample'[s].file = "removed" \/ sample'[s].row = "deleted" => MayGo(s),
         saving' \in {saving, 0},
         \A p \in Pruners : /\ pruner'[p].look \subseteq pruner[p].look /\ pruner'[p].rows \subseteq pruner[p].rows
                            /\ pruner'[p].at = pruner[p].at
  PROVE  TrainInv'
<1>1. \A t \in Ids : MayGo(t) <=> MayGo(t)'
  BY DEF MayGo
<1>2. SamplesKept'
  BY SMTT(40), <1>1 DEF TrainInv, SamplesKept, TrainTypeOK
<1>3. PrunersSure'
  BY <1>1, SampleFields DEF TrainInv, PrunersSure
<1>4. SamplesCounted'
  <2>1. sample[s] # NoSample /\ sample'[s] # NoSample
    BY DEF NoSample
  <2>2. \A t \in Ids : sample[t] # NoSample <=> sample'[t] # NoSample
    BY <2>1
  <2>3. QED
    BY <2>2 DEF TrainInv, SamplesCounted
<1>5. QED
  BY <1>2, <1>3, <1>4 DEF TrainInv

LEMMA InsertRowKeeps == TrainInv /\ InsertRow => TrainInv'
<1>1. SUFFICES ASSUME TrainInv, InsertRow PROVE TrainInv'
  OBVIOUS
<1>2. PICK id \in Ids : id = saving
  BY <1>1 DEF InsertRow, TrainInv, TrainTypeOK
<1>3. /\ sample' = [sample EXCEPT ![id].row = "there"] /\ saving' = 0
      /\ UNCHANGED <<pruner, retention, ticking, day, boots, faults>>
  BY <1>1, <1>2 DEF InsertRow
<1>4. sample \in [Ids -> SampleStates] /\ sample[id] \in SampleStates
  BY <1>1, SampleFields DEF TrainInv
<1>5. sample' \in [Ids -> SampleStates]
  BY <1>3, <1>4 DEF SampleStates
<1>6. /\ sample'[id].file = sample[id].file /\ sample'[id].row = "there"
      /\ sample'[id].born = sample[id].born /\ sample'[id].signal = sample[id].signal
      /\ \A t \in Ids : t # id => sample'[t] = sample[t]
  BY <1>3, <1>4 DEF SampleStates
<1>7. TrainTypeOK'
  BY <1>1, <1>3, <1>5 DEF TrainInv, TrainTypeOK, SampleStates
<1>8. sample[id].file # "none" /\ (sample[id].file = "removed" => MayGo(id))
  BY <1>1, <1>2 DEF TrainInv, SamplesKept, InsertRow
<1>9. sample[id] # NoSample => sample'[id] # NoSample
  BY <1>6 DEF NoSample
<1>10. QED
  BY <1>1, <1>3, <1>6, <1>7, <1>8, <1>9, SampleChanges

LEMMA InsertFailsKeeps == TrainInv /\ InsertFails => TrainInv'
<1>1. SUFFICES ASSUME TrainInv, InsertFails PROVE TrainInv'
  OBVIOUS
<1>2. TrainTypeOK'
  BY <1>1 DEF InsertFails, TrainInv, TrainTypeOK
<1>3. \A s \in Ids : MayGo(s) <=> MayGo(s)'
  BY <1>1 DEF InsertFails, MayGo
<1>4. SamplesKept' /\ SamplesCounted'
  BY <1>1, <1>3 DEF InsertFails, TrainInv, SamplesKept, SamplesCounted
<1>5. PrunersSure'
  BY <1>1, <1>3, SampleFields DEF InsertFails, TrainInv, PrunersSure
<1>6. QED
  BY <1>2, <1>4, <1>5 DEF TrainInv

\* A pruner begins, or begins again, with rows that are there.
LEMMA RoundPicks ==
  ASSUME TrainInv, NEW p \in Pruners, NEW at \in {"idle", "files", "scan"}, NEW look \in SUBSET Rows, NEW rows \in SUBSET look,
         Begins(p, at, look, rows), UNCHANGED <<sample, saving, retention, ticking, day, boots, faults>>,
         at = "files" => \A s \in look : MayGo(s),
         at # "files" => rows = {}
  PROVE  TrainInv'
<1>1. Rows \subseteq Ids /\ \A s \in Rows : sample[s].row # "none"
  BY DEF Rows
<1> DEFINE new == [at |-> at, look |-> look, rows |-> rows]
<1>2. new \in PrunerStates /\ new.at = at /\ new.look = look /\ new.rows = rows
  BY <1>1 DEF PrunerStates
<1>3. pruner' = [pruner EXCEPT ![p] = new]
  BY DEF Begins
<1> HIDE DEF new
<1>4. pruner' \in [Pruners -> PrunerStates] /\ pruner'[p] = new /\ \A q \in Pruners : q # p => pruner'[q] = pruner[q]
  BY <1>2, <1>3, SampleFields DEF TrainInv
<1>5. TrainTypeOK'
  BY <1>4 DEF TrainInv, TrainTypeOK, PrunerStates
<1>6. \A s \in Ids : MayGo(s) <=> MayGo(s)'
  BY DEF MayGo
<1>7. PrunersSure'
  BY <1>1, <1>2, <1>4, <1>6, SampleFields DEF TrainInv, PrunersSure
<1>8. day \in Nat
  BY DEF TrainInv, TrainTypeOK
<1>9. QED
  BY <1>5, <1>7, <1>8, PrunersMove

LEMMA TickPruneKeeps == TrainInv /\ TickPrune => TrainInv'
<1>1. SUFFICES ASSUME TrainInv, TickPrune PROVE TrainInv'
  OBVIOUS
<1>2. PICK b \in Batches({s \in Rows : TooOld(s)}) : Begins("ticker", "files", b, b)
  BY <1>1 DEF TickPrune
<1>3. b \in SUBSET Rows /\ \A s \in b : TooOld(s)
  BY <1>2 DEF Batches
<1>4. retention \in Retentions \ {0}
  BY <1>1 DEF TickPrune, TrainInv, TrainTypeOK
<1>5. \A s \in b : MayGo(s)
  BY <1>3, <1>4 DEF TooOld, MayGo
<1>6. "ticker" \in Pruners
  BY DEF Pruners
<1>7. QED
  BY <1>1, <1>2, <1>3, <1>5, <1>6, RoundPicks DEF TickPrune

LEMMA CleanupNoiseKeeps == TrainInv /\ CleanupNoise => TrainInv'
<1>1. SUFFICES ASSUME TrainInv, CleanupNoise PROVE TrainInv'
  OBVIOUS
<1>2. PICK b \in Batches({s \in Rows : sample[s].signal = 0}) : Begins("noise", "files", b, b)
  BY <1>1 DEF CleanupNoise
<1>3. b \in SUBSET Rows /\ \A s \in b : MayGo(s)
  BY <1>2 DEF Batches, MayGo
<1>4. "noise" \in Pruners
  BY DEF Pruners
<1>5. QED
  BY <1>1, <1>2, <1>3, <1>4, RoundPicks DEF CleanupNoise

LEMMA RoundEndsKeep ==
  ASSUME TrainInv, NEW p \in Pruners, RowsDeleted(p) \/ OrphansDeleted(p)
  PROVE  TrainInv'
<1>1. CASE RowsDeleted(p) /\ p = "ticker"
  <2>1. Begins(p, "scan", Rows, {})
    BY <1>1 DEF RowsDeleted
  <2>2. QED
    BY <1>1, <2>1, RoundPicks DEF RowsDeleted
<1>2. CASE OrphansDeleted(p) \/ (RowsDeleted(p) /\ p # "ticker")
  <2>1. Begins(p, "idle", {}, {})
    BY <1>2 DEF RowsDeleted, OrphansDeleted
  <2>2. QED
    BY <1>2, <2>1, RoundPicks DEF RowsDeleted, OrphansDeleted
<1>3. QED
  BY <1>1, <1>2

LEMMA RemoveFileKeeps ==
  ASSUME TrainInv, NEW p \in Pruners, RemoveFile(p)
  PROVE  TrainInv'
<1>1. PICK s \in pruner[p].look :
        /\ sample' = [sample EXCEPT ![s].file = "removed"]
        /\ pruner' = [pruner EXCEPT ![p].look = @ \ {s}]
  BY DEF RemoveFile
<1>2. /\ s \in Ids /\ sample \in [Ids -> SampleStates] /\ sample[s] \in SampleStates
      /\ pruner \in [Pruners -> PrunerStates] /\ pruner[p] \in PrunerStates
  BY SampleFields DEF TrainInv
<1>3. MayGo(s) /\ sample[s].row # "none" /\ sample[s].file # "none"
  BY <1>2 DEF RemoveFile, TrainInv, PrunersSure, SamplesKept
<1>4. sample' \in [Ids -> SampleStates]
  BY <1>1, <1>2 DEF SampleStates
<1>5. pruner' \in [Pruners -> PrunerStates]
  BY <1>1, <1>2 DEF PrunerStates
<1>6. /\ sample'[s].file = "removed" /\ sample'[s].row = sample[s].row
      /\ sample'[s].born = sample[s].born /\ sample'[s].signal = sample[s].signal
      /\ \A t \in Ids : t # s => sample'[t] = sample[t]
  BY <1>1, <1>2 DEF SampleStates
<1>7. \A q \in Pruners : /\ pruner'[q].look \subseteq pruner[q].look /\ pruner'[q].rows \subseteq pruner[q].rows
                         /\ pruner'[q].at = pruner[q].at
  BY <1>1, <1>2 DEF PrunerStates
<1>8. TrainTypeOK'
  BY <1>4, <1>5 DEF RemoveFile, TrainInv, TrainTypeOK, SampleStates, PrunerStates
<1>9. sample'[s] # NoSample
  BY <1>6 DEF NoSample
<1>10. QED
  BY <1>2, <1>3, <1>6, <1>7, <1>8, <1>9, SampleChanges DEF RemoveFile

LEMMA DeleteRowKeeps ==
  ASSUME TrainInv, NEW p \in Pruners, DeleteRow(p)
  PROVE  TrainInv'
<1>1. PICK s \in pruner[p].rows :
        /\ pruner' = [pruner EXCEPT ![p].rows = @ \ {s}]
        /\ \/ sample' = [sample EXCEPT ![s].row = "deleted"] /\ UNCHANGED faults
           \/ faults < MaxFaults /\ faults' = faults + 1 /\ UNCHANGED sample
  BY DEF DeleteRow
<1>2. /\ s \in Ids /\ sample \in [Ids -> SampleStates] /\ sample[s] \in SampleStates
      /\ pruner \in [Pruners -> PrunerStates] /\ pruner[p] \in PrunerStates
  BY SampleFields DEF TrainInv
<1>3. MayGo(s) /\ sample[s].row # "none" /\ sample[s].file # "none"
  BY <1>2 DEF TrainInv, PrunersSure, SamplesKept
<1>4. pruner' \in [Pruners -> PrunerStates]
  BY <1>1, <1>2 DEF PrunerStates
<1>5. /\ sample' \in [Ids -> SampleStates] /\ faults' \in 0..MaxFaults
      /\ sample'[s].file = sample[s].file /\ sample'[s].row # "none"
      /\ sample'[s].born = sample[s].born /\ sample'[s].signal = sample[s].signal
      /\ \A t \in Ids : t # s => sample'[t] = sample[t]
  <2>1. CASE sample' = [sample EXCEPT ![s].row = "deleted"] /\ UNCHANGED faults
    <3>1. sample' \in [Ids -> SampleStates]
      BY <1>2, <2>1 DEF SampleStates
    <3>2. QED
      BY <1>2, <2>1, <3>1 DEF SampleStates, TrainInv, TrainTypeOK
  <2>2. CASE faults < MaxFaults /\ faults' = faults + 1 /\ UNCHANGED sample
    BY <1>2, <1>3, <2>2 DEF TrainInv, TrainTypeOK
  <2>3. QED
    BY <1>1, <2>1, <2>2
<1>6. \A q \in Pruners : /\ pruner'[q].look \subseteq pruner[q].look /\ pruner'[q].rows \subseteq pruner[q].rows
                         /\ pruner'[q].at = pruner[q].at
  BY <1>1, <1>2 DEF PrunerStates
<1>7. TrainTypeOK'
  BY <1>4, <1>5 DEF DeleteRow, TrainInv, TrainTypeOK, SampleStates, PrunerStates
<1>8. sample'[s] # NoSample
  BY <1>5 DEF NoSample
<1>9. QED
  BY <1>2, <1>3, <1>5, <1>6, <1>7, <1>8, SampleChanges DEF DeleteRow

\* A row whose file is missing lost it to a pruner.
LEMMA LookForFileKeeps ==
  ASSUME TrainInv, NEW p \in Pruners, LookForFile(p)
  PROVE  TrainInv'
<1>1. PICK s \in pruner[p].look :
        pruner' = [pruner EXCEPT ![p].look = @ \ {s},
                                 ![p].rows = IF Missing(s) THEN @ \cup {s} ELSE @]
  BY DEF LookForFile
<1>2. /\ s \in Ids /\ sample[s] \in SampleStates
      /\ pruner \in [Pruners -> PrunerStates] /\ pruner[p] \in PrunerStates
  BY SampleFields DEF TrainInv
<1>3. sample[s].row # "none" /\ (Missing(s) => MayGo(s))
  BY <1>2 DEF TrainInv, PrunersSure, SamplesKept, Missing, SampleStates
<1>4. pruner' \in [Pruners -> PrunerStates]
  BY <1>1, <1>2 DEF PrunerStates
<1>5. /\ \A q \in Pruners : q # p => pruner'[q] = pruner[q]
      /\ pruner'[p].at = "scan" /\ pruner'[p].look \subseteq pruner[p].look
      /\ pruner'[p].rows = IF Missing(s) THEN pruner[p].rows \cup {s} ELSE pruner[p].rows
  BY <1>1, <1>2, <1>4 DEF PrunerStates, LookForFile
<1>6. UNCHANGED <<sample, saving, retention, ticking, day, boots, faults>>
  BY DEF LookForFile
<1>7. TrainTypeOK'
  BY <1>4, <1>6 DEF TrainInv, TrainTypeOK, PrunerStates
<1>8. \A t \in Ids : MayGo(t) <=> MayGo(t)'
  BY <1>6 DEF MayGo
<1>9. PrunersSure'
  BY <1>3, <1>5, <1>6, <1>8, SampleFields DEF TrainInv, PrunersSure
<1>10. day \in Nat
  BY DEF TrainInv, TrainTypeOK
<1>11. QED
  BY <1>6, <1>7, <1>9, <1>10, PrunersMove

LEMMA RebootKeeps == TrainInv /\ Reboot => TrainInv'
<1>1. SUFFICES ASSUME TrainInv, Reboot PROVE TrainInv'
  OBVIOUS
<1> DEFINE scan == [at |-> "scan", look |-> Rows, rows |-> {}]
<1>2. /\ scan \in PrunerStates /\ Rest \in PrunerStates /\ Rest.look = {} /\ Rest.rows = {}
      /\ scan.look = Rows /\ scan.rows = {} /\ scan.at = "scan" /\ \A s \in Rows : s \in Ids /\ sample[s].row # "none"
  BY DEF Rows, Rest, PrunerStates
<1>3. pruner' = [p \in Pruners |-> IF p = "startup" THEN scan ELSE Rest]
  BY <1>1 DEF Reboot
<1> HIDE DEF scan
<1>4. pruner' \in [Pruners -> PrunerStates] /\ \A p \in Pruners : pruner'[p] \in {scan, Rest}
  BY <1>2, <1>3
<1>5. ticking' \in BOOLEAN
  BY <1>1 DEF Reboot
<1>6. TrainTypeOK'
  BY <1>1, <1>4, <1>5 DEF Reboot, TrainInv, TrainTypeOK, PrunerStates
<1>7. \A s \in Ids : MayGo(s) <=> MayGo(s)'
  BY <1>1 DEF Reboot, MayGo
<1>8. SamplesKept' /\ SamplesCounted'
  BY <1>1, <1>7 DEF Reboot, TrainInv, SamplesKept, SamplesCounted
<1>9. PrunersSure'
  <2>1. UNCHANGED sample /\ Rest.at = "idle"
    BY <1>1 DEF Reboot, Rest
  <2>2. QED
    BY <1>2, <1>4, <2>1 DEF PrunersSure
<1>10. QED
  BY <1>6, <1>8, <1>9 DEF TrainInv

LEMMA TrainInitInv == TrainInit => TrainInv
<1>1. SUFFICES ASSUME TrainInit PROVE TrainInv
  OBVIOUS
<1>2. NoSample \in SampleStates /\ NoSample.file = "none" /\ NoSample.row = "none"
      /\ Rest \in PrunerStates /\ Rest.look = {} /\ Rest.rows = {}
  BY DEF NoSample, Rest, SampleStates, PrunerStates
<1>3. sample \in [Ids -> SampleStates] /\ \A s \in Ids : sample[s] = NoSample
  BY <1>1, <1>2 DEF TrainInit
<1>4. pruner \in [Pruners -> PrunerStates] /\ \A p \in Pruners : pruner[p] = Rest
  BY <1>1, <1>2 DEF TrainInit
<1>5. TrainTypeOK
  BY <1>1, <1>3, <1>4 DEF TrainInit, TrainTypeOK, SampleStates, PrunerStates
<1>6. SamplesKept /\ PrunersSure
  BY <1>1, <1>2, <1>3, <1>4 DEF TrainInit, SamplesKept, PrunersSure
<1>7. SamplesCounted
  BY <1>3, 0 \in 0..MaxSamples DEF SamplesCounted, Ids
<1>8. QED
  BY <1>5, <1>6, <1>7 DEF TrainInv

LEMMA TrainNextInv == TrainInv /\ [TrainNext]_trainVars => TrainInv'
<1>1. SUFFICES ASSUME TrainInv, [TrainNext]_trainVars PROVE TrainInv'
  OBVIOUS
<1>2. ASSUME NEW p \in Pruners, PruneStep(p) PROVE TrainInv'
  BY <1>1, <1>2, RemoveFileKeeps, DeleteRowKeeps, RoundEndsKeep, LookForFileKeeps DEF PruneStep
<1>3. ASSUME NEW days \in Retentions, SetRetention(days) PROVE TrainInv'
  <2>1. TrainTypeOK' /\ day \in Nat
    BY <1>1, <1>3 DEF SetRetention, TrainInv, TrainTypeOK
  <2>2. QED
    BY <1>1, <1>3, <2>1, PrunersMove DEF SetRetention
<1>4. CASE DayPasses
  <2>1. TrainTypeOK' /\ day \in Nat
    BY <1>1, <1>4 DEF DayPasses, TrainInv, TrainTypeOK
  <2>2. QED
    BY <1>1, <1>4, <2>1, PrunersMove DEF DayPasses
<1>5. CASE UNCHANGED trainVars
  <2>1. TrainTypeOK' /\ day \in Nat
    BY <1>1, <1>5 DEF trainVars, TrainInv, TrainTypeOK
  <2>2. QED
    BY <1>1, <1>5, <2>1, PrunersMove DEF trainVars
<1>6. QED
  BY <1>1, <1>2, <1>3, <1>4, <1>5, SaveImageKeeps, InsertRowKeeps, InsertFailsKeeps, TickPruneKeeps,
     CleanupNoiseKeeps, RebootKeeps DEF TrainNext

(* The samples, their savers and their pruners stay what they are declared to *)
(* be, with any retentions, batches, crashes and failed statements.           *)
THEOREM TrainTypeCorrect == TrainSpec => []TrainTypeOK
<1>1. TrainInv => TrainTypeOK
  BY DEF TrainInv
<1>2. QED
  BY <1>1, TrainInitInv, TrainNextInv, PTL DEF TrainSpec

LEMMA YoungStays == TrainInv => GoodSamplesStay
<1>1. SUFFICES ASSUME TrainInv, NEW s \in Ids, sample[s].row # "none", sample[s].signal > 0, Young(s)
               PROVE  sample[s].row = "there" /\ sample[s].file = "there"
  BY DEF GoodSamplesStay
<1>2. sample[s] \in SampleStates /\ day \in Nat
  BY <1>1, SampleFields DEF TrainInv, TrainTypeOK
<1>3. ~ MayGo(s)
  <2>1. sample[s].signal # 0 /\ sample[s].born \in Nat /\ Retentions \subseteq Nat
    BY <1>1, <1>2 DEF SampleStates
  <2>2. ASSUME NEW days \in Retentions \ {0} PROVE ~ (day - sample[s].born > days)
    <3>1. days \in Nat /\ day - sample[s].born <= days
      BY <1>1, <2>1 DEF Young
    <3>2. day - sample[s].born \in Int
      BY <1>2, <2>1
    <3>3. QED
      BY <3>1, <3>2
  <2>3. QED
    BY <2>1, <2>2 DEF MayGo
<1>4. QED
  BY <1>1, <1>2, <1>3 DEF TrainInv, SamplesKept, SampleStates

(* Whoever prunes while others save, and wherever the server ends and starts  *)
(* again, a sample with a detection that is no older than the shortest        *)
(* retention keeps its row and its file (training.go: PruneOldSamples,        *)
(* PruneOrphanedSamples; priors.go: TrainingCleanupNoise).                    *)
THEOREM GoodSamplesStayHolds == TrainSpec => []GoodSamplesStay
BY YoungStays, TrainInitInv, TrainNextInv, PTL DEF TrainSpec

-----------------------------------------------------------------------------
(* The training pairs of the OCR bridge (DataBridge).  A logged call is told  *)
(* by its number, which is in one place at a time: with the tool that will    *)
(* make it the pending pair or has taken that pair, in the slot, or in a row. *)
USE BridgeBounds

ReadText == [upTo : 0..MaxLogged, at : 0..MaxClock]
BridgeSteps == {"idle", "find", "pend", "capture", "push", "take", "insert"}
BridgeStates == [at : BridgeSteps, act : 0..MaxLogged, id : 0..MaxLogged, again : BOOLEAN,
                before : ReadText \cup {NoText}, after : ReadText \cup {NoText}, took : SUBSET Pending]
PairRows == [id : 1..MaxLogged, act : 0..MaxLogged, again : BOOLEAN, before : ReadText, after : ReadText, span : Int]

(* What a tool has at hand at each step.                                      *)
AtHand(c) ==
  /\ c.at \in {"find", "pend"} => c.id > 0
  /\ c.at = "pend" => c.before \in ReadText
  /\ c.at \in {"push", "take", "insert"} => c.after \in ReadText
  /\ c.at # "insert" => c.took = {}
BridgeKinds ==
  /\ done \in Nat /\ logged \in 0..MaxLogged /\ done <= logged /\ clock \in 0..MaxClock
  /\ agent \in [Agents -> BridgeStates]
  /\ recentOCR \in Seq(ReadText) /\ Len(recentOCR) <= MaxRecent
  /\ pendingCmd \in SUBSET Pending /\ pairs \in Seq(PairRows)
  /\ database \in {"closed", "open", "lost"} /\ nilUsed \in BOOLEAN /\ crossed \in BOOLEAN

InHand(c) == (IF c.at \in {"find", "pend"} THEN {c.id} ELSE {}) \cup {p.id : p \in c.took}
InSlot == {p.id : p \in pendingCmd}
InRows == {pairs[i].id : i \in DOMAIN pairs}
InOnePlace ==
  /\ \A a \in Agents : \A x \in InHand(agent[a]) : x <= logged /\ x \notin InSlot /\ x \notin InRows
  /\ \A a, b \in Agents : \A x \in InHand(agent[a]) : x \in InHand(agent[b]) => a = b
  /\ \A x \in InSlot : x <= logged /\ x \notin InRows
  /\ \A x \in InRows : x <= logged
  /\ \A i, j \in DOMAIN pairs : pairs[i].id = pairs[j].id => i = j
OneSlot == \A p, q \in pendingCmd : p = q

(* While no two tools have run at once.                                       *)
Before(p) == p.act <= done /\ (~ p.again => p.before.upTo < p.act)
TextsSoFar(s, n) == \A i \in DOMAIN s : s[i].upTo <= n
InTurn(c) ==
  /\ c.at = "find" => c.act = done /\ (~ c.again => TextsSoFar(recentOCR, c.act - 1))
  /\ c.at = "pend" => Before(c)
  /\ c.at \in {"push", "take", "insert"} => c.after.upTo = done
  /\ \A p \in c.took : Before(p)
OneByOne ==
  /\ \A a, b \in Agents : OnTheWay(a) /\ OnTheWay(b) => a = b
  /\ \A a \in Agents : InTurn(agent[a])
  /\ \A p \in pendingCmd : Before(p)
  /\ TextsSoFar(recentOCR, done)
RowFits(p) == p.span <= Window /\ (~ crossed /\ ~ p.again => p.before.upTo < p.act /\ p.act <= p.after.upTo)
BridgeInv ==
  /\ BridgeKinds
  /\ \A a \in Agents : AtHand(agent[a])
  /\ OneSlot /\ InOnePlace
  /\ ~ crossed => OneByOne
  /\ \A i \in DOMAIN pairs : RowFits(pairs[i])

-----------------------------------------------------------------------------
(* Types of what the steps write.                                             *)
LEMMA CallFields ==
  ASSUME NEW c \in BridgeStates
  PROVE  /\ c.at \in BridgeSteps /\ c.act \in 0..MaxLogged /\ c.id \in 0..MaxLogged /\ c.again \in BOOLEAN
         /\ c.before \in ReadText \cup {NoText} /\ c.after \in ReadText \cup {NoText} /\ c.took \in SUBSET Pending
BY DEF BridgeStates

LEMMA CallWith ==
  ASSUME NEW at \in BridgeSteps, NEW act \in 0..MaxLogged, NEW id \in 0..MaxLogged, NEW again \in BOOLEAN,
         NEW before \in ReadText \cup {NoText}, NEW after \in ReadText \cup {NoText}, NEW took \in SUBSET Pending
  PROVE  [at |-> at, act |-> act, id |-> id, again |-> again, before |-> before, after |-> after, took |-> took]
           \in BridgeStates
BY DEF BridgeStates

LEMMA TextFields ==
  ASSUME NEW t \in ReadText
  PROVE  t.upTo \in 0..MaxLogged /\ t.at \in 0..MaxClock
BY DEF ReadText

LEMMA PairFields ==
  ASSUME NEW p \in Pending
  PROVE  /\ p.id \in 1..MaxLogged /\ p.act \in 0..MaxLogged /\ p.again \in BOOLEAN
         /\ p.before \in ReadText /\ p.at \in 0..MaxClock
BY DEF Pending, ReadText

LEMMA FreeCall ==
  Free \in BridgeStates /\ Free.at = "idle" /\ Free.took = {} /\ Free.id = 0
<1>1. /\ "idle" \in BridgeSteps /\ 0 \in 0..MaxLogged /\ FALSE \in BOOLEAN /\ NoText \in ReadText \cup {NoText}
      /\ {} \in SUBSET Pending
  BY DEF BridgeSteps
<1>2. QED
  BY <1>1, CallWith DEF Free

(* A text cut from the ring is one that was there.                            *)
LEMMA RingKeeps ==
  ASSUME NEW T, NEW s \in Seq(T), NEW t \in T, Len(s) <= MaxRecent
  PROVE  /\ CutOldest(Append(s, t)) \in Seq(T) /\ Len(CutOldest(Append(s, t))) <= MaxRecent
         /\ \A i \in DOMAIN CutOldest(Append(s, t)) :
              \/ CutOldest(Append(s, t))[i] = t
              \/ \E j \in DOMAIN s : CutOldest(Append(s, t))[i] = s[j]
<1> DEFINE r == Append(s, t)
<1>1. r \in Seq(T) /\ Len(r) = Len(s) + 1 /\ Len(s) \in Nat /\ DOMAIN s = 1..Len(s) /\ DOMAIN r = 1..Len(r)
  OBVIOUS
<1>2. ASSUME NEW i \in 1..Len(r) PROVE r[i] = t \/ \E j \in DOMAIN s : r[i] = s[j]
  <2>1. CASE i = Len(s) + 1
    BY <2>1, <1>1
  <2>2. CASE i # Len(s) + 1
    <3>1. i \in 1..Len(s)
      BY <2>2, <1>1, <1>2
    <3>2. QED
      BY <3>1, <1>1
  <2>3. QED
    BY <2>1, <2>2
<1> HIDE DEF r
<1>3. CASE Len(r) > MaxRecent
  <2> DEFINE m == Len(r) - MaxRecent + 1
             n == Len(r)
  <2>1. m \in 1..(n + 1) /\ n \in 0..n /\ n \in Nat /\ n - m + 1 = MaxRecent /\ m \in Nat
    BY <1>1, <1>3
  <2>2. \A i \in m..n : r[i] \in T
    BY <2>1, <1>1
  <2>3. SubSeq(r, m, n) \in Seq(T)
    BY <2>1, <2>2, <1>1, SubSeqProperties
  <2>4. Len(SubSeq(r, m, n)) = MaxRecent
    BY <2>1, <1>1, <1>3, SubSeqProperties
  <2>5. ASSUME NEW i \in 1..MaxRecent
        PROVE  SubSeq(r, m, n)[i] = r[m + i - 1] /\ m + i - 1 \in 1..Len(r)
    <3>1. i \in 1..(n - m + 1) /\ m + i - 1 \in 1..Len(r)
      BY <2>1, <2>5, <1>1, <1>3
    <3> HIDE DEF m, n
    <3>2. SubSeq(r, m, n)[i] = r[m + i - 1]
      BY <3>1, <2>1, <2>2, <1>1, SubSeqProperties
    <3>3. QED
      BY <3>1, <3>2
  <2>6. DOMAIN SubSeq(r, m, n) = 1..MaxRecent
    BY <2>3, <2>4
  <2>7. CutOldest(r) = SubSeq(r, m, n)
    BY <1>3 DEF CutOldest
  <2> HIDE DEF m, n
  <2>8. ASSUME NEW i \in 1..MaxRecent
        PROVE  SubSeq(r, m, n)[i] = t \/ \E j \in DOMAIN s : SubSeq(r, m, n)[i] = s[j]
    BY <2>5, <2>8, <1>2
  <2>9. Len(SubSeq(r, m, n)) <= MaxRecent
    BY <2>4
  <2>10. QED
    BY <2>3, <2>6, <2>7, <2>8, <2>9 DEF r
<1>4. CASE ~ (Len(r) > MaxRecent)
  BY <1>4, <1>1, <1>2 DEF CutOldest, r
<1>5. QED
  BY <1>3, <1>4

(* What a step makes of its caller's tool.                                    *)
CallIs(a, at, before, after, took) ==
  /\ agent' \in [Agents -> BridgeStates]
  /\ \A b \in Agents \ {a} : agent'[b] = agent[b]
  /\ agent'[a].at = at /\ agent'[a].before = before /\ agent'[a].after = after /\ agent'[a].took = took
  /\ agent'[a].act = agent[a].act /\ agent'[a].id = agent[a].id /\ agent'[a].again = agent[a].again
CallIsFree(a) ==
  /\ agent' \in [Agents -> BridgeStates]
  /\ \A b \in Agents \ {a} : agent'[b] = agent[b]
  /\ agent'[a] = Free

LEMMA CallGoes ==
  ASSUME agent \in [Agents -> BridgeStates], NEW a \in Agents, NEW s \in BridgeSteps
  PROVE  /\ GoTo(a, s) => CallIs(a, s, agent[a].before, agent[a].after, agent[a].took)
         /\ \A t \in ReadText : agent' = [agent EXCEPT ![a].at = s, ![a].before = t]
            => CallIs(a, s, t, agent[a].after, agent[a].took)
         /\ \A t \in ReadText : agent' = [agent EXCEPT ![a].at = s, ![a].after = t]
            => CallIs(a, s, agent[a].before, t, agent[a].took)
         /\ \A T \in SUBSET Pending : agent' = [agent EXCEPT ![a].at = s, ![a].took = T]
            => CallIs(a, s, agent[a].before, agent[a].after, T)
         /\ agent' = [agent EXCEPT ![a] = Free] => CallIsFree(a)
<1>1. agent[a] \in BridgeStates
  OBVIOUS
<1>2. GoTo(a, s) => CallIs(a, s, agent[a].before, agent[a].after, agent[a].took)
  BY <1>1 DEF GoTo, CallIs, BridgeStates
<1>3. ASSUME NEW t \in ReadText, agent' = [agent EXCEPT ![a].at = s, ![a].before = t]
      PROVE  CallIs(a, s, t, agent[a].after, agent[a].took)
  <2> HIDE DEF ReadText
  <2>1. QED
    BY <1>1, <1>3 DEF CallIs, BridgeStates
<1>4. ASSUME NEW t \in ReadText, agent' = [agent EXCEPT ![a].at = s, ![a].after = t]
      PROVE  CallIs(a, s, agent[a].before, t, agent[a].took)
  BY <1>1, <1>4 DEF CallIs, BridgeStates
<1>5. ASSUME NEW T \in SUBSET Pending, agent' = [agent EXCEPT ![a].at = s, ![a].took = T]
      PROVE  CallIs(a, s, agent[a].before, agent[a].after, T)
  BY <1>1, <1>5 DEF CallIs, BridgeStates
<1>6. agent' = [agent EXCEPT ![a] = Free] => CallIsFree(a)
  BY FreeCall DEF CallIsFree
<1>7. QED
  BY <1>2, <1>3, <1>4, <1>5, <1>6

(* While tools run one by one, a step of the one on its way leaves the others *)
(* where they are: idle, with nothing.                                        *)
LEMMA OthersRest ==
  ASSUME BridgeInv, ~ crossed, NEW a \in Agents, OnTheWay(a), agent' \in [Agents -> BridgeStates],
         \A b \in Agents \ {a} : agent'[b] = agent[b]
  PROVE  /\ \A b \in Agents : agent'[b].at # "idle" => b = a
         /\ \A b \in Agents \ {a} : InTurn(agent[b])'
<1>1. ASSUME NEW b \in Agents \ {a} PROVE agent'[b].at = "idle" /\ agent'[b].took = {}
  BY <1>1 DEF BridgeInv, OneByOne, OnTheWay, AtHand
<1>2. QED
  BY <1>1 DEF InTurn

(* Numbers that go nowhere but out of use.                                    *)
LEMMA NumbersStay ==
  ASSUME BridgeInv, \A b \in Agents : InHand(agent[b])' \subseteq InHand(agent[b]), InSlot' \subseteq InSlot,
         pairs' = pairs, logged' = logged
  PROVE  InOnePlace'
<1>1. InRows' = InRows
  BY DEF InRows
<1>2. ASSUME NEW b \in Agents, NEW x \in InHand(agent[b])' PROVE x <= logged' /\ x \notin InSlot' /\ x \notin InRows'
  BY <1>1, <1>2 DEF BridgeInv, InOnePlace
<1>3. ASSUME NEW b \in Agents, NEW d \in Agents, NEW x \in InHand(agent[b])', x \in InHand(agent[d])' PROVE b = d
  BY <1>3 DEF BridgeInv, InOnePlace
<1>4. \A x \in InSlot' : x <= logged' /\ x \notin InRows'
  BY <1>1 DEF BridgeInv, InOnePlace
<1>5. \A x \in InRows' : x <= logged'
  BY <1>1 DEF BridgeInv, InOnePlace
<1>6. \A i, j \in DOMAIN pairs' : pairs'[i].id = pairs'[j].id => i = j
  BY DEF BridgeInv, InOnePlace
<1> HIDE DEF InHand, InSlot, InRows
<1>7. QED
  BY <1>2, <1>3, <1>4, <1>5, <1>6 DEF InOnePlace

-----------------------------------------------------------------------------
(* The steps that leave the slot, the rows and the clock alone.               *)
LEMMA OwnStepHolds ==
  ASSUME BridgeInv, NEW a \in Agents, OnTheWay(a), agent' \in [Agents -> BridgeStates],
         \A b \in Agents \ {a} : agent'[b] = agent[b],
         AtHand(agent[a])', InHand(agent[a])' \subseteq InHand(agent[a]),
         ~ crossed => InTurn(agent[a])' /\ TextsSoFar(recentOCR, done)',
         recentOCR' \in Seq(ReadText), Len(recentOCR') <= MaxRecent,
         UNCHANGED <<done, pendingCmd, pairs, logged, dbVars, clock, crossed>>
  PROVE  BridgeInv'
<1>1. BridgeKinds' /\ OneSlot'
  BY DEF BridgeInv, BridgeKinds, OneSlot, dbVars
<1>2. \A b \in Agents : AtHand(agent[b])'
  BY DEF BridgeInv, AtHand
<1>3. InOnePlace'
  <2>1. \A b \in Agents : InHand(agent[b])' \subseteq InHand(agent[b])
    BY DEF InHand
  <2>2. QED
    BY <2>1, NumbersStay DEF InSlot
<1>4. ASSUME ~ crossed' PROVE OneByOne'
  <2>1. ~ crossed /\ (\A b \in Agents : agent'[b].at # "idle" => b = a) /\ (\A b \in Agents \ {a} : InTurn(agent[b])')
    BY <1>4, OthersRest
  <2>2. \A p \in pendingCmd' : Before(p)'
    BY <2>1 DEF BridgeInv, OneByOne, Before
  <2>3. QED
    BY <2>1, <2>2 DEF OneByOne, OnTheWay
<1>5. \A i \in DOMAIN pairs' : RowFits(pairs[i])'
  BY DEF BridgeInv, RowFits
<1>6. QED
  BY <1>1, <1>2, <1>3, <1>4, <1>5 DEF BridgeInv

LEMMA FindBeforeHolds ==
  ASSUME BridgeInv, NEW a \in Agents, FindBefore(a)
  PROVE  BridgeInv'
<1> DEFINE c == agent[a]
<1>1. agent \in [Agents -> BridgeStates] /\ recentOCR \in Seq(ReadText) /\ Len(recentOCR) <= MaxRecent
  BY DEF BridgeInv, BridgeKinds
<1>2. c \in BridgeStates /\ c.at = "find" /\ c.id > 0 /\ c.took = {}
  BY <1>1 DEF BridgeInv, AtHand, FindBefore
<1>3. ~ crossed => (~ c.again => TextsSoFar(recentOCR, c.act - 1)) /\ c.act = done /\ TextsSoFar(recentOCR, done)
  BY <1>2 DEF BridgeInv, OneByOne, InTurn
<1>4. CASE GoTo(a, "capture")
  <2>1. CallIs(a, "capture", c.before, c.after, c.took)
    BY <1>1, <1>4, CallGoes DEF BridgeSteps
  <2>2. AtHand(agent[a])' /\ InHand(agent[a])' \subseteq InHand(agent[a]) /\ (~ crossed => InTurn(agent[a])')
    BY <1>2, <2>1 DEF CallIs, AtHand, InHand, InTurn
  <2>3. QED
    BY <1>1, <1>2, <1>3, <2>1, <2>2, OwnStepHolds DEF CallIs, FindBefore, OnTheWay, TextsSoFar
<1>5. ASSUME NEW i \in LastRecent, agent' = [agent EXCEPT ![a].at = "pend", ![a].before = recentOCR[i]]
      PROVE  BridgeInv'
  <2>1. i \in DOMAIN recentOCR /\ recentOCR[i] \in ReadText
    BY <1>1 DEF LastRecent
  <2>2. CallIs(a, "pend", recentOCR[i], c.after, c.took)
    BY <1>1, <1>5, <2>1, CallGoes DEF BridgeSteps
  <2>3. AtHand(agent[a])' /\ InHand(agent[a])' \subseteq InHand(agent[a])
    BY <1>2, <2>1, <2>2 DEF CallIs, AtHand, InHand
  <2>4. ASSUME ~ crossed PROVE InTurn(agent[a])'
    <3>1. done' = done /\ c.act \in Int /\ done \in Int /\ recentOCR[i].upTo \in Int
      <4>1. done' = done /\ done \in Int
        BY DEF FindBefore, BridgeInv, BridgeKinds
      <4>2. c.act \in 0..MaxLogged /\ recentOCR[i].upTo \in 0..MaxLogged
        BY <1>2, <2>1, CallFields, TextFields
      <4>3. QED
        BY <4>1, <4>2
    <3>2. ~ c.again => recentOCR[i].upTo < c.act
      BY <1>3, <2>1, <2>4, <3>1 DEF TextsSoFar
    <3>3. Before(agent[a])'
      BY <1>3, <2>2, <2>4, <3>1, <3>2 DEF Before, CallIs
    <3>4. QED
      BY <1>2, <2>2, <3>3 DEF InTurn, CallIs
  <2>5. QED
    BY <1>1, <1>2, <1>3, <2>2, <2>3, <2>4, OwnStepHolds DEF CallIs, FindBefore, OnTheWay, TextsSoFar
<1>6. QED
  BY <1>4, <1>5 DEF FindBefore

LEMMA CaptureHolds ==
  ASSUME BridgeInv, NEW a \in Agents, Capture(a)
  PROVE  BridgeInv'
<1> DEFINE c == agent[a]
<1>1. /\ agent \in [Agents -> BridgeStates] /\ recentOCR \in Seq(ReadText) /\ Len(recentOCR) <= MaxRecent
      /\ done \in 0..MaxLogged /\ clock \in 0..MaxClock
  BY DEF BridgeInv, BridgeKinds
<1>2. c \in BridgeStates /\ c.at = "capture" /\ c.took = {}
  BY <1>1 DEF BridgeInv, AtHand, Capture
<1>3. ~ crossed => TextsSoFar(recentOCR, done)
  BY DEF BridgeInv, OneByOne
<1>4. CASE agent' = [agent EXCEPT ![a].at = "push", ![a].after = Text(done)]
  <2>1. Text(done) \in ReadText /\ Text(done).upTo = done
    BY <1>1 DEF Text, ReadText
  <2>2. CallIs(a, "push", c.before, Text(done), c.took)
    BY <1>1, <1>4, <2>1, CallGoes DEF BridgeSteps
  <2>3. AtHand(agent[a])' /\ InHand(agent[a])' \subseteq InHand(agent[a])
    BY <1>2, <2>1, <2>2 DEF CallIs, AtHand, InHand
  <2>4. InTurn(agent[a])'
    BY <1>2, <2>1, <2>2 DEF CallIs, InTurn, Capture
  <2>5. QED
    BY <1>1, <1>2, <1>3, <2>2, <2>3, <2>4, OwnStepHolds DEF CallIs, Capture, OnTheWay, TextsSoFar
<1>5. CASE agent' = [agent EXCEPT ![a] = Free]
  <2>1. CallIsFree(a)
    BY <1>1, <1>5, CallGoes DEF BridgeSteps
  <2>2. AtHand(agent[a])' /\ InHand(agent[a])' \subseteq InHand(agent[a]) /\ InTurn(agent[a])'
    BY <2>1, FreeCall DEF CallIsFree, AtHand, InHand, InTurn
  <2>3. QED
    BY <1>1, <1>2, <1>3, <2>1, <2>2, OwnStepHolds DEF CallIsFree, Capture, OnTheWay, TextsSoFar
<1>6. QED
  BY <1>4, <1>5 DEF Capture

LEMMA PushHolds ==
  ASSUME BridgeInv, NEW a \in Agents, PushRecentOCR(a)
  PROVE  BridgeInv'
<1> DEFINE c == agent[a]
           t == Text(c.after.upTo)
<1>1. /\ agent \in [Agents -> BridgeStates] /\ recentOCR \in Seq(ReadText) /\ Len(recentOCR) <= MaxRecent
      /\ clock \in 0..MaxClock
  BY DEF BridgeInv, BridgeKinds
<1>2. c \in BridgeStates /\ c.at = "push" /\ c.took = {} /\ c.after \in ReadText
  BY <1>1 DEF BridgeInv, AtHand, PushRecentOCR
<1>3. ~ crossed => TextsSoFar(recentOCR, done) /\ c.after.upTo = done
  BY <1>2 DEF BridgeInv, OneByOne, InTurn
<1>4. t \in ReadText /\ t.upTo = c.after.upTo
  <2>1. c.after.upTo \in 0..MaxLogged
    BY <1>2, TextFields
  <2>2. QED
    BY <1>1, <2>1 DEF Text, ReadText
<1>5. CallIs(a, "take", c.before, c.after, c.took)
  <2>1. GoTo(a, "take") /\ "take" \in BridgeSteps
    BY DEF PushRecentOCR, BridgeSteps
  <2>2. QED
    BY <1>1, <2>1, CallGoes
<1>6. AtHand(agent[a])' /\ InHand(agent[a])' \subseteq InHand(agent[a])
  BY <1>2, <1>5 DEF CallIs, AtHand, InHand
<1>7. recentOCR' = CutOldest(Append(recentOCR, t))
  BY DEF PushRecentOCR
<1> HIDE DEF t
<1>8. /\ recentOCR' \in Seq(ReadText) /\ Len(recentOCR') <= MaxRecent
      /\ \A i \in DOMAIN recentOCR' : recentOCR'[i] = t \/ \E j \in DOMAIN recentOCR : recentOCR'[i] = recentOCR[j]
  BY <1>1, <1>4, <1>7, RingKeeps
<1>9. ASSUME ~ crossed PROVE InTurn(agent[a])' /\ TextsSoFar(recentOCR, done)'
  <2>1. done' = done /\ done \in Int
    BY DEF PushRecentOCR, BridgeInv, BridgeKinds
  <2>2. InTurn(agent[a])'
    BY <1>2, <1>3, <1>5, <1>9, <2>1 DEF InTurn, CallIs
  <2>3. ASSUME NEW i \in DOMAIN recentOCR' PROVE recentOCR'[i].upTo <= done
    BY <1>3, <1>4, <1>8, <1>9, <2>1, <2>3 DEF TextsSoFar
  <2>4. QED
    BY <2>1, <2>2, <2>3 DEF TextsSoFar
<1>10. QED
  BY <1>1, <1>2, <1>5, <1>6, <1>8, <1>9, OwnStepHolds DEF CallIs, PushRecentOCR, OnTheWay

-----------------------------------------------------------------------------
(* The pending pair: made, taken, logged.                                     *)
LEMMA SetPendingHolds ==
  ASSUME BridgeInv, NEW a \in Agents, SetPending(a)
  PROVE  BridgeInv'
<1> DEFINE c == agent[a]
<1>0. PICK p : p = [id |-> c.id, act |-> c.act, again |-> c.again, before |-> c.before, at |-> clock]
  OBVIOUS
<1>1. /\ agent \in [Agents -> BridgeStates] /\ clock \in 0..MaxClock /\ logged \in 0..MaxLogged
      /\ UNCHANGED <<done, recentOCR, pairs, logged, dbVars, clock, crossed>> /\ pendingCmd' = {p}
  BY <1>0 DEF BridgeInv, BridgeKinds, SetPending
<1>2. c \in BridgeStates /\ c.at = "pend" /\ c.took = {} /\ c.before \in ReadText /\ c.id > 0
  BY <1>1 DEF BridgeInv, AtHand, SetPending
<1>3. CallIs(a, "capture", c.before, c.after, c.took)
  <2>1. GoTo(a, "capture") /\ "capture" \in BridgeSteps
    BY DEF SetPending, BridgeSteps
  <2>2. QED
    BY <1>1, <2>1, CallGoes
<1>4. p \in Pending
  <2>1. c.id \in 1..MaxLogged /\ c.act \in 0..MaxLogged /\ c.again \in BOOLEAN
    BY <1>2, CallFields
  <2>2. QED
    BY <1>0, <1>1, <1>2, <2>1 DEF Pending, ReadText
<1>5. p.id = c.id /\ p.act = c.act /\ p.again = c.again /\ p.before = c.before
  BY <1>0
<1>6. BridgeKinds'
  <2>1. pendingCmd' \in SUBSET Pending
    BY <1>1, <1>4
  <2>2. QED
    BY <1>1, <1>3, <2>1 DEF BridgeInv, BridgeKinds, CallIs, dbVars
<1>7. \A b \in Agents : AtHand(agent[b])'
  BY <1>2, <1>3 DEF BridgeInv, AtHand, CallIs
<1>8. OneSlot'
  BY <1>1 DEF OneSlot
<1>9. InOnePlace'
  <2>1. InSlot' = {c.id} /\ InHand(agent[a])' = {} /\ c.id \in InHand(agent[a]) /\ InRows' = InRows
    BY <1>1, <1>2, <1>3, <1>5 DEF InSlot, InHand, CallIs, InRows
  <2>2. \A b \in Agents \ {a} : InHand(agent[b])' = InHand(agent[b])
    BY <1>3 DEF CallIs, InHand
  <2>3. logged' = logged /\ pairs' = pairs
    BY <1>1
  <2> HIDE DEF InHand, InSlot, InRows
  <2>4. ASSUME NEW b \in Agents, NEW x \in InHand(agent[b])'
        PROVE  x <= logged' /\ x \notin InSlot' /\ x \notin InRows'
    <3>1. b # a /\ x \in InHand(agent[b])
      BY <2>1, <2>2, <2>4
    <3>2. x # c.id
      BY <2>1, <3>1 DEF BridgeInv, InOnePlace
    <3>3. QED
      BY <2>1, <2>3, <3>1, <3>2 DEF BridgeInv, InOnePlace
  <2>5. ASSUME NEW b \in Agents, NEW d \in Agents, NEW x \in InHand(agent[b])', x \in InHand(agent[d])' PROVE b = d
    BY <2>1, <2>2, <2>5 DEF BridgeInv, InOnePlace
  <2>6. \A x \in InSlot' : x <= logged' /\ x \notin InRows'
    BY <2>1, <2>3 DEF BridgeInv, InOnePlace
  <2>7. \A x \in InRows' : x <= logged'
    BY <2>1, <2>3 DEF BridgeInv, InOnePlace
  <2>8. \A i, j \in DOMAIN pairs' : pairs'[i].id = pairs'[j].id => i = j
    BY <2>3 DEF BridgeInv, InOnePlace
  <2>9. QED
    BY <2>4, <2>5, <2>6, <2>7, <2>8 DEF InOnePlace
<1>10. ASSUME ~ crossed' PROVE OneByOne'
  <2>1. /\ ~ crossed /\ \A b \in Agents : agent'[b].at # "idle" => b = a
        /\ \A b \in Agents \ {a} : InTurn(agent[b])'
    BY <1>1, <1>2, <1>3, <1>10, OthersRest DEF CallIs, OnTheWay
  <2>2. InTurn(agent[a])' /\ Before(p)' /\ TextsSoFar(recentOCR, done)'
    <3>1. Before(c) /\ TextsSoFar(recentOCR, done)
      BY <1>2, <2>1 DEF BridgeInv, OneByOne, InTurn
    <3>2. Before(p)' /\ TextsSoFar(recentOCR, done)'
      BY <1>1, <1>5, <3>1 DEF Before, TextsSoFar
    <3>3. QED
      BY <1>2, <1>3, <3>2 DEF InTurn, CallIs
  <2>3. QED
    BY <1>1, <2>1, <2>2 DEF OneByOne, OnTheWay
<1>11. \A i \in DOMAIN pairs' : RowFits(pairs[i])'
  BY <1>1 DEF BridgeInv, RowFits
<1>12. QED
  BY <1>6, <1>7, <1>8, <1>9, <1>10, <1>11 DEF BridgeInv

LEMMA TakePendingHolds ==
  ASSUME BridgeInv, NEW a \in Agents, TakePending(a)
  PROVE  BridgeInv'
<1> DEFINE c == agent[a]
<1>1. /\ agent \in [Agents -> BridgeStates] /\ pendingCmd \in SUBSET Pending
      /\ UNCHANGED <<done, recentOCR, pairs, logged, dbVars, clock, crossed>> /\ pendingCmd' = {}
  BY DEF BridgeInv, BridgeKinds, TakePending
<1>2. c \in BridgeStates /\ c.at = "take" /\ c.took = {} /\ c.after \in ReadText
  BY <1>1 DEF BridgeInv, AtHand, TakePending
<1>3. /\ agent' \in [Agents -> BridgeStates] /\ \A b \in Agents \ {a} : agent'[b] = agent[b]
      /\ AtHand(agent[a])' /\ InHand(agent[a])' = InSlot
      /\ \/ agent'[a].at = "idle" /\ agent'[a].took = {}
         \/ agent'[a].at = "insert" /\ agent'[a].took = pendingCmd /\ agent'[a].after = c.after
  <2>1. CASE pendingCmd = {}
    <3>1. CallIsFree(a)
      BY <1>1, <2>1, CallGoes DEF BridgeSteps, TakePending
    <3>2. QED
      BY <2>1, <3>1, FreeCall DEF CallIsFree, AtHand, InHand, InSlot
  <2>2. CASE pendingCmd # {}
    <3>1. CallIs(a, "insert", c.before, c.after, pendingCmd)
      <4>1. "insert" \in BridgeSteps /\ agent' = [agent EXCEPT ![a].at = "insert", ![a].took = pendingCmd]
        BY <2>2 DEF BridgeSteps, TakePending
      <4>2. QED
        BY <1>1, <4>1, CallGoes
    <3>2. QED
      BY <1>2, <3>1 DEF CallIs, AtHand, InHand, InSlot
  <2>3. QED
    BY <2>1, <2>2
<1>4. BridgeKinds' /\ OneSlot'
  BY <1>1, <1>3 DEF BridgeInv, BridgeKinds, dbVars, OneSlot
<1>5. \A b \in Agents : AtHand(agent[b])'
  BY <1>3 DEF BridgeInv, AtHand
<1>6. InOnePlace'
  <2>1. InSlot' = {} /\ InRows' = InRows /\ logged' = logged /\ pairs' = pairs
    BY <1>1 DEF InSlot, InRows
  <2>2. \A b \in Agents \ {a} : InHand(agent[b])' = InHand(agent[b])
    BY <1>3 DEF InHand
  <2>3. InHand(agent[a])' = InSlot
    BY <1>3
  <2> HIDE DEF InHand, InSlot, InRows
  <2>4. ASSUME NEW b \in Agents, NEW x \in InHand(agent[b])'
        PROVE  x <= logged' /\ x \notin InSlot' /\ x \notin InRows'
    BY <2>1, <2>2, <2>3, <2>4 DEF BridgeInv, InOnePlace
  <2>5. ASSUME NEW b \in Agents, NEW d \in Agents, NEW x \in InHand(agent[b])', x \in InHand(agent[d])' PROVE b = d
    BY <2>2, <2>3, <2>5 DEF BridgeInv, InOnePlace
  <2>6. \A x \in InRows' : x <= logged'
    BY <2>1 DEF BridgeInv, InOnePlace
  <2>7. \A i, j \in DOMAIN pairs' : pairs'[i].id = pairs'[j].id => i = j
    BY <2>1 DEF BridgeInv, InOnePlace
  <2>8. QED
    BY <2>1, <2>4, <2>5, <2>6, <2>7 DEF InOnePlace
<1>7. ASSUME ~ crossed' PROVE OneByOne'
  <2>1. /\ ~ crossed /\ \A b \in Agents : agent'[b].at # "idle" => b = a
        /\ \A b \in Agents \ {a} : InTurn(agent[b])'
    BY <1>1, <1>2, <1>3, <1>7, OthersRest DEF OnTheWay
  <2>2. c.after.upTo = done /\ (\A p \in pendingCmd : Before(p)) /\ TextsSoFar(recentOCR, done)
    BY <1>2, <2>1 DEF BridgeInv, OneByOne, InTurn
  <2>3. InTurn(agent[a])'
    BY <1>1, <1>3, <2>2 DEF InTurn, Before
  <2>4. QED
    BY <1>1, <2>1, <2>2, <2>3 DEF OneByOne, OnTheWay, TextsSoFar
<1>8. \A i \in DOMAIN pairs' : RowFits(pairs[i])'
  BY <1>1 DEF BridgeInv, RowFits
<1>9. QED
  BY <1>4, <1>5, <1>6, <1>7, <1>8 DEF BridgeInv

(* A row, if one is written, for the pair the tool took.                      *)
RowAt(a, p) ==
  [id |-> p.id, act |-> p.act, again |-> p.again, before |-> p.before, after |-> agent[a].after, span |-> clock - p.at]

LEMMA LogTrainingPairHolds ==
  ASSUME BridgeInv, NEW a \in Agents, LogTrainingPair(a)
  PROVE  BridgeInv'
<1> DEFINE c == agent[a]
<1>1. /\ agent \in [Agents -> BridgeStates] /\ pairs \in Seq(PairRows) /\ clock \in 0..MaxClock
      /\ UNCHANGED <<done, recentOCR, pendingCmd, logged, clock, crossed>>
  BY DEF BridgeInv, BridgeKinds, LogTrainingPair
<1>2. c \in BridgeStates /\ c.at = "insert" /\ c.after \in ReadText /\ c.took \in SUBSET Pending
  <2>1. c \in BridgeStates /\ c.at = "insert" /\ c.after \in ReadText
    BY <1>1 DEF BridgeInv, AtHand, LogTrainingPair
  <2>2. QED
    BY <2>1, CallFields
<1>3. CallIsFree(a)
  BY <1>1, CallGoes DEF BridgeSteps, LogTrainingPair
<1>4. /\ database' \in {"closed", "open", "lost"} /\ nilUsed' \in BOOLEAN
      /\ \/ pairs' = pairs
         \/ \E p \in c.took : clock - p.at <= Window /\ pairs' = Append(pairs, RowAt(a, p))
  <2>1. database \in {"closed", "open", "lost"} /\ nilUsed \in BOOLEAN
    BY DEF BridgeInv, BridgeKinds
  <2>2. PICK p \in c.took, ok \in BOOLEAN :
          IF clock - p.at <= Window
          THEN OpenOrUse(ok) /\ pairs' = IF ok THEN Append(pairs, RowAt(a, p)) ELSE pairs
          ELSE UNCHANGED <<pairs, dbVars>>
    BY DEF LogTrainingPair, RowAt
  <2>3. database' \in {"closed", "open", "lost"} /\ nilUsed' \in BOOLEAN
    BY <2>1, <2>2 DEF OpenOrUse, dbVars
  <2>4. QED
    BY <2>2, <2>3
<1>5. \A b \in Agents : AtHand(agent[b])'
  BY <1>3, FreeCall DEF BridgeInv, AtHand, CallIsFree
<1>6. OneSlot' /\ InSlot' = InSlot /\ logged' = logged
  BY <1>1 DEF BridgeInv, OneSlot, InSlot
<1>7. ASSUME ~ crossed' PROVE OneByOne'
  <2>1. /\ ~ crossed /\ \A b \in Agents : agent'[b].at # "idle" => b = a
        /\ \A b \in Agents \ {a} : InTurn(agent[b])'
    BY <1>1, <1>2, <1>3, <1>7, OthersRest DEF OnTheWay, CallIsFree
  <2>2. InTurn(agent[a])'
    BY <1>3, FreeCall DEF InTurn, CallIsFree
  <2>3. (\A p \in pendingCmd' : Before(p)') /\ TextsSoFar(recentOCR, done)'
    BY <1>1, <2>1 DEF BridgeInv, OneByOne, Before, TextsSoFar
  <2>4. QED
    BY <2>1, <2>2, <2>3 DEF OneByOne, OnTheWay
<1>8. InHand(agent[a])' = {} /\ \A b \in Agents \ {a} : InHand(agent[b])' = InHand(agent[b])
  BY <1>3, FreeCall DEF CallIsFree, InHand
<1>9. CASE pairs' = pairs
  <2>1. BridgeKinds'
    BY <1>1, <1>3, <1>4, <1>9 DEF BridgeInv, BridgeKinds, CallIsFree
  <2>2. \A b \in Agents : InHand(agent[b])' \subseteq InHand(agent[b])
    BY <1>8
  <2>3. InOnePlace'
    BY <1>6, <1>9, <2>2, NumbersStay
  <2>4. \A i \in DOMAIN pairs' : RowFits(pairs[i])'
    BY <1>1, <1>9 DEF BridgeInv, RowFits
  <2>5. QED
    BY <1>5, <1>6, <1>7, <2>1, <2>3, <2>4 DEF BridgeInv
<1>10. ASSUME NEW p \in c.took, clock - p.at <= Window, pairs' = Append(pairs, RowAt(a, p)) PROVE BridgeInv'
  <2>1. p \in Pending /\ p.id \in 1..MaxLogged
    <3>1. p \in Pending
      BY <1>2, <1>10
    <3>2. QED
      BY <3>1, PairFields
  <2>2. PICK row : row = RowAt(a, p)
    OBVIOUS
  <2>3. /\ row \in PairRows /\ row.id = p.id /\ row.act = p.act /\ row.again = p.again /\ row.before = p.before
        /\ row.after = c.after /\ row.span = clock - p.at
    <3>1. /\ p.act \in 0..MaxLogged /\ p.again \in BOOLEAN /\ p.before \in ReadText /\ clock - p.at \in Int
      BY <1>1, <2>1, PairFields
    <3> HIDE DEF ReadText
    <3>2. QED
      BY <1>2, <2>1, <2>2, <3>1 DEF RowAt, PairRows
  <2>4. /\ pairs' \in Seq(PairRows) /\ DOMAIN pairs' = 1..(Len(pairs) + 1) /\ DOMAIN pairs = 1..Len(pairs)
        /\ Len(pairs) \in Nat /\ pairs'[Len(pairs) + 1] = row /\ \A i \in DOMAIN pairs : pairs'[i] = pairs[i]
    BY <1>1, <1>10, <2>2, <2>3
  <2> DEFINE n == Len(pairs) + 1
  <2>5. n \in DOMAIN pairs' /\ pairs'[n] = row /\ \A i \in DOMAIN pairs' : i = n \/ i \in DOMAIN pairs
    BY <2>4
  <2>6. BridgeKinds'
    BY <1>1, <1>3, <1>4, <2>4 DEF BridgeInv, BridgeKinds, CallIsFree
  <2> HIDE DEF n
  <2>7. p.id \in InHand(agent[a])
    BY <1>10 DEF InHand
  <2>8. InRows' \subseteq InRows \cup {p.id}
    BY <2>3, <2>4, <2>5 DEF InRows
  <2>9. \A i \in DOMAIN pairs : pairs[i].id \in InRows
    BY DEF InRows
  <2>10. InOnePlace'
    <3> HIDE DEF InHand, InSlot, InRows
    <3>1. ASSUME NEW b \in Agents, NEW x \in InHand(agent[b])'
          PROVE  x <= logged' /\ x \notin InSlot' /\ x \notin InRows'
      <4>1. b # a /\ x \in InHand(agent[b])
        BY <1>8, <3>1
      <4>2. x # p.id
        BY <2>7, <4>1 DEF BridgeInv, InOnePlace
      <4>3. QED
        BY <1>6, <2>8, <4>1, <4>2 DEF BridgeInv, InOnePlace
    <3>2. ASSUME NEW b \in Agents, NEW d \in Agents, NEW x \in InHand(agent[b])', x \in InHand(agent[d])' PROVE b = d
      BY <1>8, <3>2 DEF BridgeInv, InOnePlace
    <3>3. p.id <= logged /\ p.id \notin InSlot /\ p.id \notin InRows
      BY <2>7 DEF BridgeInv, InOnePlace
    <3>4. \A x \in InSlot' : x <= logged' /\ x \notin InRows'
      BY <1>6, <2>8, <3>3 DEF BridgeInv, InOnePlace
    <3>5. \A x \in InRows' : x <= logged'
      BY <1>6, <2>8, <3>3 DEF BridgeInv, InOnePlace
    <3>6. ASSUME NEW i \in DOMAIN pairs', NEW j \in DOMAIN pairs', pairs'[i].id = pairs'[j].id PROVE i = j
      <4>1. CASE i = n \/ j = n
        BY <2>3, <2>4, <2>5, <2>9, <3>3, <3>6, <4>1
      <4>2. CASE i # n /\ j # n
        BY <2>4, <2>5, <3>6, <4>2 DEF BridgeInv, InOnePlace
      <4>3. QED
        BY <4>1, <4>2
    <3>7. QED
      BY <3>1, <3>2, <3>4, <3>5, <3>6 DEF InOnePlace
  <2>11. RowFits(row)'
    <3>1. row.span <= Window
      BY <1>10, <2>3
    <3>2. ASSUME ~ crossed PROVE ~ row.again => row.before.upTo < row.act /\ row.act <= row.after.upTo
      <4>1. c.after.upTo = done /\ Before(p)
        BY <1>2, <1>10, <3>2 DEF BridgeInv, OneByOne, InTurn
      <4>2. QED
        BY <2>3, <4>1 DEF Before
    <3>3. QED
      BY <1>1, <3>1, <3>2 DEF RowFits
  <2>12. ASSUME NEW i \in DOMAIN pairs' PROVE RowFits(pairs[i])'
    <3>1. CASE i = n
      BY <2>5, <2>11, <3>1 DEF RowFits
    <3>2. CASE i \in DOMAIN pairs
      BY <1>1, <2>4, <3>2 DEF BridgeInv, RowFits
    <3>3. QED
      BY <2>5, <2>12, <3>1, <3>2
  <2>13. QED
    BY <1>5, <1>6, <1>7, <2>6, <2>10, <2>12 DEF BridgeInv
<1>11. QED
  BY <1>4, <1>9, <1>10

(* A tool begins: its number is new, and while tools run one by one nothing   *)
(* else is on its way.                                                        *)
LEMMA BeginHolds ==
  ASSUME BridgeInv, NEW a \in Agents, NEW what \in {"act", "again", "ocr"}, Begin(a, what)
  PROVE  BridgeInv'
<1>1. /\ agent \in [Agents -> BridgeStates] /\ done \in Nat /\ logged \in 0..MaxLogged /\ done <= logged
      /\ agent[a].at = "idle" /\ logged < MaxLogged /\ logged' = logged + 1
      /\ done' = (IF what = "act" THEN done + 1 ELSE done)
      /\ UNCHANGED <<recentOCR, pendingCmd, pairs, dbVars, clock>>
  BY DEF BridgeInv, BridgeKinds, Begin
<1>2. done' \in 0..MaxLogged /\ logged' \in 0..MaxLogged /\ logged' > 0 /\ done' <= logged' /\ done <= done'
  BY <1>1
<1>3. PICK at \in {"capture", "find"}, again \in BOOLEAN, c \in BridgeStates :
        /\ again = (what = "again") /\ at = (IF what = "ocr" THEN "capture" ELSE "find")
        /\ c = [at |-> at, act |-> done', id |-> logged', again |-> again, before |-> NoText, after |-> NoText, took |-> {}]
        /\ agent' = [agent EXCEPT ![a] = c]
  <2> DEFINE at == IF what = "ocr" THEN "capture" ELSE "find"
             again == what = "again"
             c == [at |-> at, act |-> done', id |-> logged', again |-> again, before |-> NoText, after |-> NoText,
                   took |-> {}]
  <2>1. at \in {"capture", "find"} /\ at \in BridgeSteps
    BY DEF BridgeSteps
  <2>2. again \in BOOLEAN
    OBVIOUS
  <2>3. NoText \in ReadText \cup {NoText} /\ {} \in SUBSET Pending
    OBVIOUS
  <2>4. agent' = [agent EXCEPT ![a] = c]
    BY DEF Begin
  <2> HIDE DEF at, again
  <2>5. c \in BridgeStates
    BY <1>2, <2>1, <2>2, <2>3, CallWith
  <2>6. again = (what = "again") /\ at = (IF what = "ocr" THEN "capture" ELSE "find")
    BY Zenon DEF at, again
  <2>7. QED
    BY <2>1, <2>2, <2>4, <2>5, <2>6
<1>4. /\ agent' \in [Agents -> BridgeStates] /\ agent'[a] = c /\ \A b \in Agents \ {a} : agent'[b] = agent[b]
  BY <1>1, <1>3
<1>5. c.at = at /\ c.act = done' /\ c.id = logged' /\ c.again = again /\ c.took = {}
  BY <1>3
<1>6. crossed' = (crossed \/ \E b \in Agents \ {a} : OnTheWay(b)) /\ crossed' \in BOOLEAN
  BY DEF Begin, BridgeInv, BridgeKinds
<1>7. BridgeKinds' /\ OneSlot'
  BY <1>1, <1>2, <1>4, <1>6 DEF BridgeInv, BridgeKinds, dbVars, OneSlot
<1>8. \A b \in Agents : AtHand(agent[b])'
  <2>1. AtHand(agent[a])'
    BY <1>2, <1>4, <1>5 DEF AtHand
  <2>2. QED
    BY <1>4, <2>1 DEF BridgeInv, AtHand
<1>9. InOnePlace'
  <2>1. InSlot' = InSlot /\ InRows' = InRows /\ pairs' = pairs
    BY <1>1 DEF InSlot, InRows
  <2>2. \A b \in Agents \ {a} : InHand(agent[b])' = InHand(agent[b])
    BY <1>4 DEF InHand
  <2>3. InHand(agent[a])' \subseteq {logged + 1}
    BY <1>1, <1>4, <1>5 DEF InHand
  <2>4. \A b \in Agents : \A x \in InHand(agent[b]) : x \in Int
    <3>1. ASSUME NEW b \in Agents PROVE agent[b].id \in Int /\ \A p \in agent[b].took : p.id \in Int
      <4>1. agent[b].id \in 0..MaxLogged /\ agent[b].took \in SUBSET Pending
        BY <1>1, <3>1, CallFields
      <4>2. ASSUME NEW p \in agent[b].took PROVE p.id \in Int
        <5>1. p \in Pending
          BY <4>1, <4>2
        <5>2. p.id \in 1..MaxLogged
          BY <5>1, PairFields
        <5>3. QED
          BY <5>2
      <4>3. QED
        BY <4>1, <4>2
    <3>2. QED
      BY <3>1 DEF InHand
  <2>5. (\A x \in InSlot : x \in Int) /\ (\A x \in InRows : x \in Int)
    <3>1. ASSUME NEW p \in pendingCmd PROVE p.id \in Int
      <4>1. p \in Pending
        BY <3>1 DEF BridgeInv, BridgeKinds
      <4>2. p.id \in 1..MaxLogged
        BY <4>1, PairFields
      <4>3. QED
        BY <4>2
    <3>2. ASSUME NEW i \in DOMAIN pairs PROVE pairs[i].id \in Int
      <4>1. pairs[i] \in PairRows
        BY <3>2 DEF BridgeInv, BridgeKinds
      <4>2. QED
        BY <4>1 DEF PairRows
    <3>3. QED
      BY <3>1, <3>2 DEF InSlot, InRows
  <2> HIDE DEF InHand, InSlot, InRows
  <2>6. ASSUME NEW b \in Agents, NEW x \in InHand(agent[b])'
        PROVE  x <= logged' /\ x \notin InSlot' /\ x \notin InRows'
    <3>1. CASE b = a
      <4>1. x = logged + 1
        BY <2>3, <2>6, <3>1
      <4>2. x \notin InSlot /\ x \notin InRows
        BY <1>1, <4>1 DEF BridgeInv, InOnePlace
      <4>3. QED
        BY <1>1, <2>1, <4>1, <4>2
    <3>2. CASE b # a
      <4>1. x \in InHand(agent[b])
        BY <2>2, <2>6, <3>2
      <4>2. x <= logged /\ x \notin InSlot /\ x \notin InRows /\ x \in Int
        BY <2>4, <4>1 DEF BridgeInv, InOnePlace
      <4>3. QED
        BY <1>1, <2>1, <4>2
    <3>3. QED
      BY <3>1, <3>2
  <2>7. ASSUME NEW b \in Agents \ {a}, NEW x \in InHand(agent[b])' PROVE x # logged + 1 /\ x \in InHand(agent[b])
    <3>1. x \in InHand(agent[b]) /\ x <= logged
      BY <2>2, <2>7 DEF BridgeInv, InOnePlace
    <3>2. QED
      BY <1>1, <3>1
  <2>8. ASSUME NEW b \in Agents, NEW d \in Agents, NEW x \in InHand(agent[b])', x \in InHand(agent[d])' PROVE b = d
    <3>1. CASE b # a /\ d # a
      BY <2>7, <2>8, <3>1 DEF BridgeInv, InOnePlace
    <3>2. CASE b = a /\ d # a
      BY <2>3, <2>7, <2>8, <3>2
    <3>3. CASE b # a /\ d = a
      BY <2>3, <2>7, <2>8, <3>3
    <3>4. QED
      BY <3>1, <3>2, <3>3
  <2>9. ASSUME NEW x \in InSlot \cup InRows PROVE x <= logged'
    <3>1. x <= logged /\ x \in Int
      BY <2>5, <2>9 DEF BridgeInv, InOnePlace
    <3>2. QED
      BY <1>1, <3>1
  <2>10. /\ \A x \in InSlot : x \notin InRows
         /\ \A i, j \in DOMAIN pairs' : pairs'[i].id = pairs'[j].id => i = j
    BY <2>1 DEF BridgeInv, InOnePlace
  <2>11. QED
    BY <2>1, <2>6, <2>8, <2>9, <2>10 DEF InOnePlace
<1>10. ASSUME ~ crossed' PROVE OneByOne'
  <2>1. ~ crossed /\ \A b \in Agents \ {a} : agent'[b].at = "idle" /\ agent'[b].took = {}
    BY <1>4, <1>6, <1>10 DEF BridgeInv, AtHand, OnTheWay
  <2>2. ASSUME NEW b \in Agents \ {a} PROVE InTurn(agent[b])'
    BY <2>1 DEF InTurn
  <2>3. OneByOne
    BY <2>1 DEF BridgeInv
  <2>4. ASSUME NEW p \in Pending, Before(p) PROVE Before(p)'
    <3>1. p.act \in 0..MaxLogged
      BY <2>4, PairFields
    <3>2. QED
      BY <1>1, <2>4, <3>1 DEF Before
  <2>5. \A p \in pendingCmd' : Before(p)'
    BY <1>1, <2>3, <2>4 DEF OneByOne, BridgeInv, BridgeKinds
  <2>6. ASSUME NEW i \in DOMAIN recentOCR PROVE recentOCR[i].upTo \in Int /\ recentOCR[i].upTo <= done
    <3>1. recentOCR[i] \in ReadText
      BY <2>6 DEF BridgeInv, BridgeKinds
    <3>2. recentOCR[i].upTo \in 0..MaxLogged
      BY <3>1, TextFields
    <3>3. QED
      BY <2>3, <2>6, <3>2 DEF OneByOne, TextsSoFar
  <2>7. TextsSoFar(recentOCR, done)'
    BY <1>1, <2>6 DEF TextsSoFar
  <2>8. InTurn(agent[a])'
    <3>1. at = "find" /\ ~ again => TextsSoFar(recentOCR, done' - 1)
      <4>1. ASSUME at = "find", ~ again PROVE done' - 1 = done
        <5>1. what = "act"
          BY <1>3, <4>1
        <5>2. QED
          BY <1>1, <5>1
      <4>2. TextsSoFar(recentOCR, done)
        BY <2>6 DEF TextsSoFar
      <4>3. QED
        BY <4>1, <4>2
    <3>2. TextsSoFar(recentOCR, agent[a].act - 1)' <=> TextsSoFar(recentOCR, done' - 1)
      BY <1>1, <1>4, <1>5 DEF TextsSoFar
    <3>3. QED
      BY <1>3, <1>4, <1>5, <3>1, <3>2 DEF InTurn
  <2>9. QED
    BY <2>1, <2>2, <2>5, <2>7, <2>8 DEF OneByOne, OnTheWay
<1>11. \A i \in DOMAIN pairs' : RowFits(pairs[i])'
  BY <1>1, <1>6 DEF BridgeInv, RowFits
<1>12. QED
  BY <1>7, <1>8, <1>9, <1>10, <1>11 DEF BridgeInv

-----------------------------------------------------------------------------
(* The steps that no tool makes.                                              *)
LEMMA AsideHolds ==
  ASSUME BridgeInv, UNCHANGED <<done, agent, pairs, logged, dbVars, crossed>>, clock' \in 0..MaxClock,
         \/ recentOCR' = <<>> /\ pendingCmd' = {}
         \/ UNCHANGED <<recentOCR, pendingCmd>>
  PROVE  BridgeInv'
<1>1. recentOCR' \in Seq(ReadText) /\ Len(recentOCR') <= MaxRecent
  <2>1. <<>> \in Seq(ReadText) /\ Len(<<>>) <= MaxRecent
    OBVIOUS
  <2>2. recentOCR \in Seq(ReadText) /\ Len(recentOCR) <= MaxRecent
    BY DEF BridgeInv, BridgeKinds
  <2>3. recentOCR' = <<>> \/ recentOCR' = recentOCR
    OBVIOUS
  <2>4. QED
    BY <2>1, <2>2, <2>3
<1>2. BridgeKinds' /\ OneSlot'
  BY <1>1 DEF BridgeInv, BridgeKinds, OneSlot, dbVars
<1>3. \A b \in Agents : AtHand(agent[b])'
  BY DEF BridgeInv, AtHand
<1>4. InOnePlace'
  <2>1. \A b \in Agents : InHand(agent[b])' \subseteq InHand(agent[b])
    BY DEF InHand
  <2>2. InSlot' \subseteq InSlot
    BY DEF InSlot
  <2>3. QED
    BY <2>1, <2>2, NumbersStay
<1>5. ASSUME ~ crossed' PROVE OneByOne'
  <2>1. OneByOne /\ done' = done /\ agent' = agent
    BY <1>5 DEF BridgeInv
  <2>2. \A n : TextsSoFar(recentOCR, n) => TextsSoFar(recentOCR', n)
    BY DEF TextsSoFar
  <2>3. \A b \in Agents : InTurn(agent[b])'
    BY <2>1, <2>2 DEF OneByOne, InTurn, Before
  <2>4. (\A p \in pendingCmd' : Before(p)') /\ TextsSoFar(recentOCR, done)'
    BY <2>1, <2>2 DEF OneByOne, Before
  <2>5. \A a, b \in Agents : OnTheWay(a)' /\ OnTheWay(b)' => a = b
    BY <2>1 DEF OneByOne, OnTheWay
  <2>6. QED
    BY <2>3, <2>4, <2>5 DEF OneByOne
<1>6. \A i \in DOMAIN pairs' : RowFits(pairs[i])'
  BY DEF BridgeInv, RowFits
<1>7. QED
  BY <1>2, <1>3, <1>4, <1>5, <1>6 DEF BridgeInv

LEMMA BridgeStart == BridgeInit => BridgeInv
<1>1. SUFFICES ASSUME BridgeInit PROVE BridgeInv
  OBVIOUS
<1>2. agent = [a \in Agents |-> Free] /\ recentOCR = <<>> /\ pendingCmd = {} /\ pairs = <<>> /\ logged = 0 /\ done = 0
  BY <1>1 DEF BridgeInit
<1>3. <<>> \in Seq(ReadText) /\ <<>> \in Seq(PairRows) /\ {} \in SUBSET Pending /\ Len(<<>>) <= MaxRecent
  OBVIOUS
<1>4. FALSE \in BOOLEAN
  OBVIOUS
<1>5. BridgeKinds
  <2>1. agent \in [Agents -> BridgeStates]
    BY <1>2, FreeCall
  <2>2. clock \in 0..MaxClock /\ logged \in 0..MaxLogged /\ done \in Nat /\ done <= logged
    BY <1>1 DEF BridgeInit
  <2>3. recentOCR \in Seq(ReadText) /\ Len(recentOCR) <= MaxRecent /\ pendingCmd \in SUBSET Pending /\ pairs \in Seq(PairRows)
    BY <1>2, <1>3
  <2>4. database = "closed" /\ nilUsed \in BOOLEAN /\ crossed \in BOOLEAN
    BY <1>1, <1>4 DEF BridgeInit
  <2>5. QED
    BY <2>1, <2>2, <2>3, <2>4 DEF BridgeKinds
<1>6. \A a \in Agents : AtHand(agent[a]) /\ InHand(agent[a]) = {} /\ InTurn(agent[a]) /\ ~ OnTheWay(a)
  BY <1>2, FreeCall DEF AtHand, InHand, InTurn, OnTheWay
<1>7. InSlot = {} /\ InRows = {} /\ OneSlot
  BY <1>2 DEF InSlot, InRows, OneSlot
<1>8. InOnePlace
  BY <1>2, <1>6, <1>7 DEF InOnePlace
<1>9. OneByOne /\ \A i \in DOMAIN pairs : RowFits(pairs[i])
  BY <1>2, <1>6 DEF OneByOne, TextsSoFar
<1>10. QED
  BY <1>5, <1>6, <1>7, <1>8, <1>9 DEF BridgeInv

LEMMA BridgeStep == BridgeInv /\ [BridgeNext]_bridgeVars => BridgeInv'
<1>1. SUFFICES ASSUME BridgeInv, [BridgeNext]_bridgeVars PROVE BridgeInv'
  OBVIOUS
<1>2. clock \in 0..MaxClock
  BY <1>1 DEF BridgeInv, BridgeKinds
<1>3. ASSUME NEW a \in Agents, AgentStep(a) PROVE BridgeInv'
  BY <1>1, <1>3, FindBeforeHolds, SetPendingHolds, CaptureHolds, PushHolds, TakePendingHolds, LogTrainingPairHolds
     DEF AgentStep
<1>4. ASSUME NEW a \in Agents, NEW what \in {"act", "again", "ocr"}, Begin(a, what) PROVE BridgeInv'
  BY <1>1, <1>4, BeginHolds
<1>5. CASE ResetBridgeState
  BY <1>1, <1>2, <1>5, AsideHolds DEF ResetBridgeState
<1>6. CASE ClockTicks
  <2>1. clock' \in 0..MaxClock
    BY <1>2, <1>6 DEF ClockTicks
  <2>2. QED
    BY <1>1, <1>6, <2>1, AsideHolds DEF ClockTicks
<1>7. CASE UNCHANGED bridgeVars
  BY <1>1, <1>2, <1>7, AsideHolds DEF bridgeVars, dbVars
<1>8. QED
  BY <1>1, <1>3, <1>4, <1>5, <1>6, <1>7 DEF BridgeNext

(* What the tools and the bridge keep stays what it is declared to be: one    *)
(* pending pair, a ring that is not too long (datalog.go).                    *)
THEOREM BridgeTypeCorrect == BridgeSpec => []BridgeTypeOK
<1>1. BridgeInv => BridgeTypeOK
  <2>1. SUFFICES ASSUME BridgeInv PROVE BridgeTypeOK
    OBVIOUS
  <2>2. Cardinality(pendingCmd) <= 1
    <3>1. CASE pendingCmd = {}
      BY <3>1, FS_EmptySet
    <3>2. ASSUME NEW p \in pendingCmd PROVE Cardinality(pendingCmd) = 1
      <4>1. pendingCmd = {p}
        BY <2>1, <3>2 DEF BridgeInv, OneSlot
      <4>2. QED
        BY <4>1, FS_Singleton
    <3>3. QED
      BY <3>1, <3>2
  <2>3. ASSUME NEW a \in Agents
        PROVE  agent[a].took \subseteq Pending /\ agent[a].at \in BridgeSteps
    <3>1. agent[a] \in BridgeStates
      BY <2>1 DEF BridgeInv, BridgeKinds
    <3>2. QED
      BY <3>1, CallFields
  <2>4. done \in 0..MaxLogged
    BY <2>1 DEF BridgeInv, BridgeKinds
  <2>5. QED
    BY <2>1, <2>2, <2>3, <2>4 DEF BridgeTypeOK, BridgeInv, BridgeKinds, BridgeSteps
<1>2. QED
  BY <1>1, BridgeStart, BridgeStep, PTL DEF BridgeSpec

(* However many tools run at once, a logged call is in one training pair at   *)
(* most and its pair is completed within the window; and as long as they run  *)
(* one after another, the text before it was captured before its action and   *)
(* the text after it afterwards (datalog.go: LogToolCall, tryCompletePair).   *)
THEOREM PairsAroundHolds == BridgeSpec => []PairsAround
<1>1. BridgeInv => PairsAround
  BY DEF BridgeInv, InOnePlace, RowFits, PairsAround
<1>2. QED
  BY <1>1, BridgeStart, BridgeStep, PTL DEF BridgeSpec

-----------------------------------------------------------------------------
\* What is made of the log tells what happened: the bridge's pairs hold a text
\* from before their command and one from after it, and the rows of tasks tell
\* of the tasks, whatever steps of the two come in whatever order.
THEOREM LogTellsHolds == BridgeSpec /\ TaskSpec => []LogTells
<1>1. PairsAround /\ TasksTold => LogTells
  BY DEF LogTells
<1>2. QED
  BY <1>1, PairsAroundHolds, TasksToldHolds, PTL

\* Nothing is learnt but from what was shown: neither the statistics nor the
\* priors hold, predict or answer what no use and no sample founds.
THEOREM LearntFoundedHolds == AdaptSpec /\ PriorsSpec => []LearntFounded
<1>1. StatisticsFounded /\ PriorsFounded => LearntFounded
  BY DEF LearntFounded
<1>2. QED
  BY <1>1, StatisticsFoundedHolds, PriorsFoundedHolds, PTL
=============================================================================
