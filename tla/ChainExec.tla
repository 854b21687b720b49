------------------------------ MODULE ChainExec ------------------------------
(***************************************************************************)
(* The chain executor of internal/actions/chain.go.  A call of             *)
(* ExecuteChain starts a worker goroutine that executes the steps and      *)
(* waits for the first of: the worker is done, the abort hotkey, the       *)
(* timeout.  The worker looks for a stop only between steps.  A replicate  *)
(* step is a call of ExecuteChain made by a worker.                        *)
(*                                                                         *)
(* The abort channel is seen through AbortSignal, which AbortPoller        *)
(* implements: a press dooms the executions that run, no later one.        *)
(* Arguments, captured variables and outputs are left out; what a tool or  *)
(* a screen condition answers is a choice.                                 *)
(***************************************************************************)
EXTENDS Naturals, Sequences

CONSTANTS StepIds,   \* the steps of all programs
          Step,      \* what each of them is
          Requests,  \* what the chain tool may be asked to execute
          Calls,     \* the executions started by the chain tool (bounds their number)
          Nested,    \* the executions started by replicate steps
          NoExec

Kinds == {"tool", "bad", "observe", "verify", "branch", "loop", "focus", "replicate"}

\* Kinds that name a tool; the others are executed by the chain itself.
ToolKinds == {"tool", "verify", "replicate"}

\* A step.  "bad" lacks its configuration or names no known tool; "observe" is a
\* wait, poll or verify_ui.  times: iterations of a loop, attempts of a verify.
\* body: of a loop or a replicate, or the then-branch; other: the else-branch.
ChainStep == [kind : Kinds, focus : BOOLEAN, screen : BOOLEAN,
              body : Seq(StepIds), other : Seq(StepIds), times : Nat]

Execs == Calls \cup Nested

ChainRequest == [steps : Seq(StepIds), stop : BOOLEAN]

ASSUME StepAssumption == Step \in [StepIds -> ChainStep]
ASSUME RequestAssumption == Requests \subseteq ChainRequest
ASSUME ExecAssumption == NoExec \notin Execs /\ Calls \cap Nested = {}

VARIABLES req,        \* the request of each execution
          call,       \* what its caller knows
          pc,         \* where its worker is
          frame,      \* its innermost call of execSteps
          outer,      \* the calls around that one, innermost first
          tries,      \* attempts left to the running tool
          child,      \* the execution a replicate step waits for
          cancelled,  \* executions whose context is cancelled
          doomed,     \* executions whose abort channel is closed
          late,       \* history: steps begun after the execution's own stop
          stray,      \* history: steps begun after the stop of its parent alone
          failed      \* history: a step failed outside if branches

vars == <<req, call, pc, frame, outer, tries, child, cancelled, doomed, late, stray, failed>>

\* A call of execSteps: i is the next step, oks the success flags of its results.
Frame(steps) == [steps |-> steps, i |-> 1, oks |-> <<>>, iter |-> 0]
Over(f) == f.i > Len(f.steps)
CurrentStep(f) == Step[f.steps[f.i]]

At(e) == CurrentStep(frame[e])
AllTrue(oks) == \A k \in 1..Len(oks) : oks[k]

Stopped(e) == e \in cancelled \/ e \in doomed
Orphaned(e) == \E p \in Execs : child[p] = e /\ Stopped(p)

Init ==
    /\ req = [e \in Execs |-> [steps |-> <<>>, stop |-> TRUE]]
    /\ call = [e \in Execs |-> "none"]
    /\ pc = [e \in Execs |-> "idle"]
    /\ frame = [e \in Execs |-> Frame(<<>>)]
    /\ outer = [e \in Execs |-> <<>>]
    /\ tries = [e \in Execs |-> 0]
    /\ child = [e \in Execs |-> NoExec]
    /\ cancelled = {} /\ doomed = {}
    /\ late = [e \in Execs |-> 0]
    /\ stray = [e \in Execs |-> 0]
    /\ failed = [e \in Execs |-> FALSE]

----------------------------------------------------------------------------
(* ExecuteChain: the call                                                  *)

\* A new execution c: a context and an abort channel of its own, and a worker.
ExecuteChain(c, r) ==
    /\ pc[c] = "idle"
    /\ req' = [req EXCEPT ![c] = r]
    /\ call' = [call EXCEPT ![c] = "waiting"]
    /\ frame' = [frame EXCEPT ![c] = Frame(r.steps)]
    /\ outer' = [outer EXCEPT ![c] = <<>>]

\* The chain tool is called.
ChainHandler(c) ==
    /\ c \in Calls
    /\ \E r \in Requests : ExecuteChain(c, r)
    /\ pc' = [pc EXCEPT ![c] = "check"]
    /\ UNCHANGED <<tries, child, cancelled, doomed, late, stray, failed>>

\* The call returns; its deferred cancel cancels the context in every case.
Return(e, outcome) ==
    /\ call[e] = "waiting"
    /\ call' = [call EXCEPT ![e] = outcome]
    /\ cancelled' = cancelled \cup {e}
    /\ UNCHANGED <<req, pc, frame, outer, tries, child, doomed, late, stray, failed>>

CallDone(e) ==
    /\ pc[e] = "ended"
    /\ Return(e, IF AllTrue(frame[e].oks) THEN "success" ELSE "failure")

\* Mutant: the call joins its worker before it reports the abort.
CallAbortedJoin(e) == e \in doomed /\ pc[e] = "ended" /\ Return(e, "aborted")

CallAborted(e) == e \in doomed /\ Return(e, "aborted")

CallTimeout(e) == Return(e, "timedout")

\* The abort hotkey, as AbortSignal has it.
Press ==
    /\ \E e \in Execs : call[e] = "waiting" /\ e \notin doomed
    /\ doomed' = doomed \cup {e \in Execs : call[e] = "waiting"}
    /\ UNCHANGED <<req, call, pc, frame, outer, tries, child, cancelled, late, stray, failed>>

----------------------------------------------------------------------------
(* execSteps: the worker                                                   *)

\* Mutant: a failed step does not end the list.
RecordedGoOn(e, f, ok) == [f EXCEPT !.oks = Append(@, ok), !.i = @ + 1]

\* A result joins the list; a failure ends the list unless errors are ignored.
Recorded(e, f, ok) ==
    [f EXCEPT !.oks = Append(@, ok),
              !.i = IF ok \/ ~req[e].stop THEN @ + 1 ELSE Len(f.steps) + 1]

\* Mutant: the remaining steps are dropped without a result.
MarkedSilently(f) == [f EXCEPT !.i = Len(f.steps) + 1]

\* The result that stands for the steps a stop keeps from running.
Marked(f) == [f EXCEPT !.oks = Append(@, FALSE), !.i = Len(f.steps) + 1]

\* A failure counts for the chain unless an if step, which always succeeds, hides it.
Exposed(frames) == \A k \in 1..Len(frames) : CurrentStep(frames[k]).kind = "loop"
NoteFailure(e, ok, around) ==
    failed' = IF ~ok /\ Exposed(around) THEN [failed EXCEPT ![e] = TRUE] ELSE failed

StepResult(e, ok) ==
    /\ frame' = [frame EXCEPT ![e] = Recorded(e, @, ok)]
    /\ pc' = [pc EXCEPT ![e] = "check"]
    /\ NoteFailure(e, ok, outer[e])
    /\ UNCHANGED outer

\* Mutant: only the abort channel is looked at, not the context.
SeesAbortOnly(e) == e \in doomed

SeesStop(e) == Stopped(e)

CheckStop(e) ==
    /\ pc[e] = "check" /\ ~Over(frame[e])
    /\ IF SeesStop(e)
       THEN /\ frame' = [frame EXCEPT ![e] = Marked(@)]
            /\ NoteFailure(e, FALSE, outer[e])
            /\ UNCHANGED pc
       ELSE /\ pc' = [pc EXCEPT ![e] = "ready"]
            /\ UNCHANGED <<frame, failed>>
    /\ UNCHANGED <<req, call, outer, tries, child, cancelled, doomed, late, stray>>

\* The worker passes from the stop check to what the step does.
BeginStep(e) ==
    /\ pc[e] = "ready"
    /\ late' = IF Stopped(e) THEN [late EXCEPT ![e] = @ + 1] ELSE late
    /\ stray' = IF Orphaned(e) /\ ~Stopped(e) THEN [stray EXCEPT ![e] = @ + 1] ELSE stray

\* The window cannot be focused, or the window lock refuses the step.
RefuseStep(e) ==
    /\ BeginStep(e)
    /\ At(e).focus \/ At(e).screen
    /\ StepResult(e, FALSE)
    /\ UNCHANGED <<req, call, tries, child, cancelled, doomed>>

\* A step with a window to focus and no tool name is taken for a focus step.
FocusOnly(s) == s.focus /\ s.kind \notin ToolKinds

\* Steps that end at once: a focus step, a bad one, an empty loop or replicate,
\* a verify whose retry count leaves no attempt.
ImmediateResult(s) ==
    IF FocusOnly(s) THEN TRUE ELSE s.kind = "loop"

Immediate(s) ==
    \/ FocusOnly(s)
    \/ s.kind = "bad"
    \/ s.kind \in {"loop", "verify"} /\ s.times = 0
    \/ s.kind = "replicate" /\ s.body = <<>>

InstantStep(e) ==
    /\ BeginStep(e)
    /\ Immediate(At(e))
    /\ StepResult(e, ImmediateResult(At(e)))
    /\ UNCHANGED <<req, call, tries, child, cancelled, doomed>>

\* execTool, execVerify, execWait, execPoll, execVerifyUI: the worker is busy.
BeginTool(e) ==
    /\ BeginStep(e)
    /\ At(e).kind \in {"tool", "observe", "verify"} /\ ~Immediate(At(e))
    /\ tries' = [tries EXCEPT ![e] = IF At(e).kind = "verify" THEN At(e).times ELSE 1]
    /\ pc' = [pc EXCEPT ![e] = "busy"]
    /\ UNCHANGED <<req, call, frame, outer, child, cancelled, doomed, failed>>

EndTool(e) ==
    /\ pc[e] = "busy"
    /\ \E ok \in BOOLEAN : StepResult(e, ok)
    /\ UNCHANGED <<req, call, tries, child, cancelled, doomed, late, stray>>

\* Mutant: one retry too many.
RetryVerifyTooOften(e) ==
    /\ pc[e] = "busy"
    /\ tries' = [tries EXCEPT ![e] = @ - 1]
    /\ UNCHANGED <<req, call, pc, frame, outer, child, cancelled, doomed, late, stray, failed>>

\* execVerify: the check after an attempt failed, and the tool is called again.
RetryVerify(e) ==
    /\ pc[e] = "busy" /\ tries[e] > 1
    /\ tries' = [tries EXCEPT ![e] = @ - 1]
    /\ UNCHANGED <<req, call, pc, frame, outer, child, cancelled, doomed, late, stray, failed>>

\* execIf, execIfUIA, execLoop call execSteps.
EnterSteps(e, steps) ==
    /\ BeginStep(e)
    /\ ~Immediate(At(e))
    /\ frame' = [frame EXCEPT ![e] = Frame(steps)]
    /\ outer' = [outer EXCEPT ![e] = <<frame[e]>> \o @]
    /\ pc' = [pc EXCEPT ![e] = "check"]
    /\ UNCHANGED <<req, call, tries, child, cancelled, doomed, failed>>

EnterBranch(e) ==
    /\ pc[e] = "ready" /\ At(e).kind = "branch"
    /\ \E met \in BOOLEAN : EnterSteps(e, IF met THEN At(e).body ELSE At(e).other)

EnterLoop(e) ==
    /\ pc[e] = "ready" /\ At(e).kind = "loop"
    /\ EnterSteps(e, At(e).body)

\* chainReplicateTool: an execution of its own, with its own context.
Replicate(e) ==
    /\ BeginStep(e)
    /\ At(e).kind = "replicate" /\ ~Immediate(At(e))
    /\ \E c \in Nested :
          /\ ExecuteChain(c, [steps |-> At(e).body, stop |-> TRUE])
          /\ pc' = [pc EXCEPT ![c] = "check", ![e] = "nested"]
          /\ child' = [child EXCEPT ![e] = c]
    /\ UNCHANGED <<tries, cancelled, doomed, failed>>

\* The nested call returned: only an error of the call fails the step.
ReplicateReturns(e) ==
    /\ pc[e] = "nested" /\ call[child[e]] # "waiting"
    /\ StepResult(e, call[child[e]] \in {"success", "failure"})
    /\ UNCHANGED <<req, call, tries, child, cancelled, doomed, late, stray>>

\* Mutant: a failed iteration is noticed only when its first step fails.
LoopFailedFirst(e, f) == req[e].stop /\ Len(f.oks) > 0 /\ ~f.oks[1]

LoopFailed(e, f) == req[e].stop /\ ~AllTrue(f.oks)

\* A nested list is over: the if step succeeds, the loop step fails or succeeds.
CloseSteps(e, ok) ==
    /\ frame' = [frame EXCEPT ![e] = Recorded(e, Head(outer[e]), ok)]
    /\ outer' = [outer EXCEPT ![e] = Tail(@)]
    /\ NoteFailure(e, ok, Tail(outer[e]))

NextIteration(e) ==
    /\ frame' = [frame EXCEPT ![e] = [Frame(@.steps) EXCEPT !.iter = frame[e].iter + 1]]
    /\ UNCHANGED <<outer, failed>>

LeaveSteps(e) ==
    LET f == frame[e]
        s == CurrentStep(Head(outer[e]))
    IN  /\ pc[e] = "check" /\ Over(f) /\ outer[e] # <<>>
        /\ \/ s.kind = "branch" /\ CloseSteps(e, TRUE)
           \/ s.kind = "loop" /\ LoopFailed(e, f) /\ CloseSteps(e, FALSE)
           \/ s.kind = "loop" /\ ~LoopFailed(e, f) /\ f.iter + 1 >= s.times /\ CloseSteps(e, TRUE)
           \/ s.kind = "loop" /\ ~LoopFailed(e, f) /\ f.iter + 1 < s.times /\ NextIteration(e)
        /\ UNCHANGED <<req, call, pc, tries, child, cancelled, doomed, late, stray>>

\* Mutant: the channel has no buffer, and somebody must be there to receive.
EndWorkerUnbuffered(e) ==
    /\ pc[e] = "check" /\ Over(frame[e]) /\ outer[e] = <<>>
    /\ call[e] = "waiting"
    /\ pc' = [pc EXCEPT ![e] = "ended"]
    /\ UNCHANGED <<req, call, frame, outer, tries, child, cancelled, doomed, late, stray, failed>>

\* The results are stored and the buffered channel tells the call, if it still listens.
EndWorker(e) ==
    /\ pc[e] = "check" /\ Over(frame[e]) /\ outer[e] = <<>>
    /\ pc' = [pc EXCEPT ![e] = "ended"]
    /\ UNCHANGED <<req, call, frame, outer, tries, child, cancelled, doomed, late, stray, failed>>

----------------------------------------------------------------------------
Begin(e) ==
    \/ RefuseStep(e) \/ InstantStep(e) \/ BeginTool(e)
    \/ EnterBranch(e) \/ EnterLoop(e) \/ Replicate(e)

Tool(e) == EndTool(e) \/ RetryVerify(e)

Worker(e) ==
    CheckStop(e) \/ Begin(e) \/ ReplicateReturns(e) \/ LeaveSteps(e) \/ EndWorker(e)

CallEnds(e) == CallDone(e) \/ CallAborted(e)

\* Nothing is left to do: all calls have returned, all workers have ended.
Quiet ==
    /\ \A e \in Execs : pc[e] \in {"idle", "ended"} /\ call[e] # "waiting"
    /\ UNCHANGED vars

Next ==
    \/ Press
    \/ Quiet
    \/ \E e \in Execs :
          ChainHandler(e) \/ CallEnds(e) \/ CallTimeout(e) \/ Worker(e) \/ Tool(e)

Spec == Init /\ [][Next]_vars

\* The scheduler runs the caller's select once a case is ready, and the workers.
\* A tool may hang: it is not the scheduler's.
FairSpec == Spec /\ \A e \in Execs : WF_vars(CallEnds(e)) /\ WF_vars(Worker(e))

ToolsReturn == \A e \in Execs : WF_vars(EndTool(e))

----------------------------------------------------------------------------
(* Properties                                                              *)

Outcomes == {"none", "waiting", "success", "failure", "aborted", "timedout"}
FrameType == [steps : Seq(StepIds), i : Nat \ {0}, oks : Seq(BOOLEAN), iter : Nat]

\* Every variable has its type: in particular an attempt count never goes below zero.
TypeOK ==
    /\ req \in [Execs -> ChainRequest]
    /\ call \in [Execs -> Outcomes]
    /\ pc \in [Execs -> {"idle", "check", "ready", "busy", "nested", "ended"}]
    /\ frame \in [Execs -> FrameType]
    /\ outer \in [Execs -> Seq(FrameType)]
    /\ tries \in [Execs -> Nat]
    /\ child \in [Execs -> Execs \cup {NoExec}]
    /\ cancelled \subseteq Execs /\ doomed \subseteq Execs
    /\ late \in [Execs -> Nat] /\ stray \in [Execs -> Nat]
    /\ failed \in [Execs -> BOOLEAN]

\* After its abort or its timeout an execution begins at most one more step, the one
\* whose stop check was already passed: execSteps looks at the context and at the
\* abort channel before every step, at every depth of branches and loops.
StepBoundary == \A e \in Execs : late[e] <= 1

\* A call that answers success got one result for each step of the request, all of
\* them successes: a chain cut short by the hotkey cannot pass for a complete one,
\* even when the worker's end and the hotkey race in the select of ExecuteChain.
SuccessIsComplete ==
    \A e \in Execs : call[e] = "success" =>
        AllTrue(frame[e].oks) /\ Len(frame[e].oks) = Len(req[e].steps)

\* Under on_error=stop no failure, and no step cut off by a stop, is lost on its way
\* through the loops: the call does not answer success.
FailuresReported ==
    \A e \in Execs : req[e].stop /\ failed[e] => call[e] # "success"

\* Under on_error=stop a list of steps, at any depth, ends with its first failure.
FailureEndsList ==
    \A e \in Execs : req[e].stop =>
        \A f \in {frame[e]} \cup {outer[e][k] : k \in 1..Len(outer[e])} :
            \A j \in 1..Len(f.oks) : ~f.oks[j] => j = Len(f.oks) /\ Over(f)

\* The call of a chain that was running when the hotkey fired returns, even when the
\* tool it is waiting for never does.
\* (An execution is started once and stays at its end: "in the end all have" says that
\* each one does.)
AbortReturns == <>[](\A e \in Execs : e \in doomed => call[e] # "waiting")

\* If tools return, every worker ends, also that of a call that returned long before.
WorkersEnd == ToolsReturn => <>[](\A e \in Execs : call[e] # "none" => pc[e] = "ended")

\* Neither the caller nor the worker of a chain is left waiting for the other: both of the above.
CallsAndWorkersEnd == AbortReturns /\ WorkersEnd

----------------------------------------------------------------------------
(* What the documentation says and the code does not do                    *)

\* internal/actions/chain_timeout_test.go:48: "steps after a timeout must not run", and
\* docs/meta/CHANGELOG.md:656, "any running chain terminates at the next step boundary":
\* also the chain that a step of it replays.  One step may have passed its check.
StopReachesReplays ==
    \A e, p \in Execs :
        call[p] \in {"timedout", "aborted"} /\ child[p] = e => stray[e] <= 1

\* docs/meta/CHANGELOG.md:1398: the executor "handles window lookup, focus, title bar
\* click, then runs the step": a step reported as a success at once had nothing to do.
FocusedStepRuns ==
    [][\A e \in Execs : InstantStep(e) =>
          /\ At(e).kind \notin {"observe", "branch"}
          /\ At(e).kind = "loop" => At(e).times = 0]_vars
=============================================================================
