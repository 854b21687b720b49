---------------------------- MODULE Introspection ----------------------------
(* task_begin, task_end and what they make of the log of commands             *)
(* (introspection.go).  The task under way is kept in memory under taskMu,    *)
(* its row is written under dlogMu, one after the other, and the row's id is  *)
(* kept in between without the first.  Time is kept in seconds.               *)
EXTENDS Integers, Sequences, FiniteSetsExt

CONSTANTS TaskCallers,              \* callers of the two tools
          Commands,                 \* what tools log: [tool, success]
          Shortest, Longest, PatternsFrom,  \* of a pattern; commands to look for one
          MaxTasks, MaxCommands, MaxSecond, MaxTaskFaults

ASSUME TaskBounds ==
  /\ {Shortest, Longest, PatternsFrom} \subseteq Nat \ {0} /\ Shortest <= Longest
  /\ {MaxTasks, MaxCommands, MaxSecond, MaxTaskFaults} \subseteq Nat

VARIABLES task,                     \* taskActive, taskID, taskStart
          taskLog, commandLog,      \* the two tables
          doing,                    \* caller -> the call it is in
          second, taskFaults,
          misled                    \* history: calls overlapped, or a row could not be written

taskVars == <<task, taskLog, commandLog, doing, second, taskFaults, misled>>

NoTask == [active |-> FALSE, id |-> 0, start |-> 0, from |-> 0]
NotDoing == [at |-> "idle", was |-> NoTask, end |-> 0, to |-> 0]
InCall(c) == doing[c].at # "idle"

-----------------------------------------------------------------------------
(* findRepeatedPatterns: runs of some tools that come twice, or more often.   *)
\* Mutant: the last run is not looked at.
RunsShort(tools, n) == {i \in 1..Len(tools) : i + n - 1 < Len(tools)}
Runs(tools, n) == {i \in 1..Len(tools) : i + n - 1 <= Len(tools)}
RepeatedPatterns(tools) ==
  IF Len(tools) < PatternsFrom THEN {}
  ELSE UNION {{[tools |-> SubSeq(tools, i, i + n - 1), count |-> Cardinality({j \in Runs(tools, n) : SubSeq(tools, j, j + n - 1) = SubSeq(tools, i, i + n - 1)})]
                 : i \in Runs(tools, n)} : n \in Shortest..Longest}
Repeated(tools) == {p \in RepeatedPatterns(tools) : p.count >= 2}

(* The commands logged from the second the task began in to this one.         *)
Within(start, end) ==
  LET upTo[n \in 0..Len(commandLog)] ==
        IF n = 0 THEN <<>>
        ELSE IF start <= commandLog[n].at /\ commandLog[n].at <= end THEN Append(upTo[n - 1], commandLog[n])
        ELSE upTo[n - 1]
  IN upTo[Len(commandLog)]
ToolsOf(entries) == [i \in DOMAIN entries |-> entries[i].tool]
FailsOf(entries, tool) == Cardinality({i \in DOMAIN entries : entries[i].tool = tool /\ ~entries[i].success})
mineTaskInsights(entries) ==
  [sequence |-> ToolsOf(entries),
   failed   |-> {t \in {ToolsOf(entries)[i] : i \in DOMAIN entries} : FailsOf(entries, t) > 0},
   patterns |-> Repeated(ToolsOf(entries))]
NoInsights == [sequence |-> <<>>, failed |-> {}, patterns |-> {}]

-----------------------------------------------------------------------------
TaskInit ==
  /\ task = NoTask /\ taskLog = <<>> /\ commandLog = <<>>
  /\ doing = [c \in TaskCallers |-> NotDoing]
  /\ second = 0 /\ taskFaults = 0 /\ misled = FALSE

(* TaskBegin: a task that is under way is forgotten; its row stays open.      *)
TaskBegin(c) ==
  /\ ~InCall(c) /\ Len(taskLog) + Cardinality({d \in TaskCallers : doing[d].at = "insert"}) < MaxTasks
  /\ task' = [task EXCEPT !.active = TRUE, !.start = second, !.from = Len(commandLog)]
  /\ doing' = [doing EXCEPT ![c] = [NotDoing EXCEPT !.at = "insert", !.was = task']]
  /\ misled' = (misled \/ \E d \in TaskCallers : InCall(d))
  /\ UNCHANGED <<taskLog, commandLog, second, taskFaults>>
InsertTask(c) ==
  /\ doing[c].at = "insert"
  /\ taskLog' = Append(taskLog, [start |-> task.start, end |-> 0, from |-> doing[c].was.from, to |-> 0,
                                 steps |-> 0, failures |-> 0, insights |-> NoInsights, ends |-> 0])
  /\ task' = [task EXCEPT !.id = Len(taskLog')]
  /\ doing' = [doing EXCEPT ![c] = NotDoing]
  /\ UNCHANGED <<commandLog, second, taskFaults, misled>>
(* The task stays active, with the id of the one before.                      *)
InsertTaskFails(c) ==
  /\ doing[c].at = "insert" /\ taskFaults < MaxTaskFaults
  /\ taskFaults' = taskFaults + 1 /\ misled' = TRUE
  /\ doing' = [doing EXCEPT ![c] = NotDoing]
  /\ UNCHANGED <<task, taskLog, commandLog, second>>

(* TaskEnd: without a task under way it is refused.                           *)
TaskEnd(c) ==
  /\ ~InCall(c) /\ task.active
  /\ task' = [task EXCEPT !.active = FALSE]
  /\ doing' = [doing EXCEPT ![c] = [at |-> "mine", was |-> task, end |-> second, to |-> Len(commandLog)]]
  /\ misled' = (misled \/ \E d \in TaskCallers : InCall(d))
  /\ UNCHANGED <<taskLog, commandLog, second, taskFaults>>
UpdateTask(c) ==
  /\ doing[c].at = "mine"
  /\ LET entries == Within(doing[c].was.start, doing[c].end) IN
       taskLog' = [n \in DOMAIN taskLog |->
         IF n # doing[c].was.id THEN taskLog[n]
         ELSE [taskLog[n] EXCEPT !.end = doing[c].end, !.to = doing[c].to,
                                 !.steps = Len(entries), !.failures = Cardinality({i \in DOMAIN entries : ~entries[i].success}),
                                 !.insights = mineTaskInsights(entries), !.ends = @ + 1]]
  /\ doing' = [doing EXCEPT ![c] = NotDoing]
  /\ UNCHANGED <<task, commandLog, second, taskFaults, misled>>
UpdateTaskFails(c) ==
  /\ doing[c].at = "mine" /\ taskFaults < MaxTaskFaults
  /\ taskFaults' = taskFaults + 1 /\ misled' = TRUE
  /\ doing' = [doing EXCEPT ![c] = NotDoing]
  /\ UNCHANGED <<task, taskLog, commandLog, second>>

(* A tool leaves its command to a goroutine, which logs it at any time later. *)
LogCommand(e) ==
  /\ Len(commandLog) < MaxCommands
  /\ commandLog' = Append(commandLog, [tool |-> e.tool, success |-> e.success, at |-> second])
  /\ UNCHANGED <<task, taskLog, doing, second, taskFaults, misled>>

SecondPasses ==
  /\ second < MaxSecond
  /\ second' = second + 1
  /\ UNCHANGED <<task, taskLog, commandLog, doing, taskFaults, misled>>

TaskNext ==
  \/ \E c \in TaskCallers :
       \/ TaskBegin(c)
       \/ InsertTask(c) \/ InsertTaskFails(c) \/ TaskEnd(c) \/ UpdateTask(c) \/ UpdateTaskFails(c)
  \/ \E e \in Commands : LogCommand(e)
  \/ SecondPasses
TaskSpec == TaskInit /\ [][TaskNext]_taskVars

-----------------------------------------------------------------------------
TaskTypeOK ==
  /\ task \in [active : BOOLEAN, id : 0..MaxTasks, start : 0..MaxSecond, from : 0..MaxCommands]
  /\ Len(taskLog) <= MaxTasks /\ Len(commandLog) <= MaxCommands
  /\ \A c \in TaskCallers : doing[c].at \in {"idle", "insert", "mine"}
  /\ second \in 0..MaxSecond /\ taskFaults \in 0..MaxTaskFaults /\ misled \in BOOLEAN

(* A task's row tells of the task: it is ended at most once, counts every     *)
(* command that was logged while it was under way, and no other but those of  *)
(* the seconds it began and ended in; its insights are of the commands it     *)
(* counts, and name a run of tools exactly if it comes twice.  This, when     *)
(* calls of the two tools do not overlap and the database takes every row: a  *)
(* task ended while another begins closes the row of the one before.          *)
Ended(r) == r.ends > 0
RowTells(r) ==
  /\ r.ends <= 1 /\ (r.ends = 0 => r.steps = 0)
  /\ Ended(r) =>
       /\ r.start <= r.end
       /\ r.to - r.from <= r.steps
       /\ r.steps <= Cardinality({i \in DOMAIN commandLog : r.start <= commandLog[i].at /\ commandLog[i].at <= r.end})
       /\ Len(r.insights.sequence) = r.steps /\ r.failures <= r.steps
       /\ (r.insights.failed = {}) = (r.failures = 0)
       /\ r.steps >= PatternsFrom =>
            \A i, j \in 1..(r.steps + 1 - Shortest) :
              i < j /\ SubSeq(r.insights.sequence, i, i + Shortest - 1) = SubSeq(r.insights.sequence, j, j + Shortest - 1)
              => \E p \in r.insights.patterns : p.tools = SubSeq(r.insights.sequence, i, i + Shortest - 1) /\ p.count >= 2
TasksTold ==
  ~misled =>
    /\ \A n \in DOMAIN taskLog : RowTells(taskLog[n])
    /\ task.active /\ (\A c \in TaskCallers : ~InCall(c)) =>
         taskLog[task.id].start = task.start /\ ~Ended(taskLog[task.id])
=============================================================================
