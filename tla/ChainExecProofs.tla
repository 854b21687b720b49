--------------------------- MODULE ChainExecProofs ---------------------------
(***************************************************************************)
(* Proofs about the chain executor, for any programs, requests and number  *)
(* of executions: types, the step boundary, and what an answer tells about *)
(* the results.  All follow from one inductive invariant, stated for each  *)
(* execution by itself: executions only meet in a replicate step, which    *)
(* starts one that was idle.                                               *)
(***************************************************************************)
EXTENDS ChainExec, TLAPS

\* A list of steps and its results: as long as all succeed there is one result for
\* each step passed, and with on_error=stop the first failure ends the list.
FrameOK(f, stop) ==
    /\ f.i <= Len(f.steps) + 1
    /\ AllTrue(f.oks) => Len(f.oks) = f.i - 1
    /\ stop => \A j \in 1..Len(f.oks) : ~f.oks[j] => j = Len(f.oks) /\ Over(f)

\* The lists around the innermost one stand at the if or loop step being executed.
SurroundOK(s, stop) ==
    \A k \in 1..Len(s) :
        /\ FrameOK(s[k], stop)
        /\ ~Over(s[k])
        /\ CurrentStep(s[k]).kind \in {"branch", "loop"}

\* The outermost list is the request's.
RootSteps(f, s) == IF s = <<>> THEN f.steps ELSE s[Len(s)].steps

FramesOK(e) ==
    /\ FrameOK(frame[e], req[e].stop)
    /\ SurroundOK(outer[e], req[e].stop)
    /\ RootSteps(frame[e], outer[e]) = req[e].steps

\* Where the worker is, what it works on and what the caller knows.
PlaceOK(e) ==
    /\ pc[e] \in {"ready", "busy", "nested"} => ~Over(frame[e])
    /\ pc[e] = "ended" => outer[e] = <<>> /\ Over(frame[e])
    /\ call[e] = "success" => pc[e] = "ended" /\ AllTrue(frame[e].oks)
    /\ pc[e] = "idle" => call[e] = "none" /\ ~failed[e] /\ late[e] = 0

\* After a stop the worker is past the one step it may still begin.
LateOK(e) ==
    /\ late[e] <= 1
    /\ late[e] = 1 => Stopped(e) /\ pc[e] # "ready"

\* An exposed failure stands at the end of the innermost list, to be passed on.
FailureOK(e) ==
    failed[e] /\ req[e].stop => ~AllTrue(frame[e].oks) /\ Exposed(outer[e])

ExecInv(e) == FramesOK(e) /\ PlaceOK(e) /\ LateOK(e) /\ FailureOK(e)

IInv == TypeOK /\ \A e \in Execs : ExecInv(e)

----------------------------------------------------------------------------
(* Lists of steps and their results                                        *)

\* A new list has no results.
LEMMA NewFrame ==
    ASSUME NEW steps \in Seq(StepIds), NEW stop \in BOOLEAN
    PROVE  /\ Frame(steps) \in FrameType
           /\ FrameOK(Frame(steps), stop)
           /\ Frame(steps).steps = steps
           /\ AllTrue(Frame(steps).oks)
  BY DEF Frame, FrameType, FrameOK, AllTrue, Over

\* Appending a result.
LEMMA AppendResult ==
    ASSUME NEW oks \in Seq(BOOLEAN), NEW ok \in BOOLEAN
    PROVE  /\ Append(oks, ok) \in Seq(BOOLEAN)
           /\ Len(Append(oks, ok)) = Len(oks) + 1
           /\ AllTrue(Append(oks, ok)) <=> AllTrue(oks) /\ ok
           /\ \A j \in 1..Len(oks) : Append(oks, ok)[j] = oks[j]
           /\ Append(oks, ok)[Len(oks) + 1] = ok
<1> DEFINE a == Append(oks, ok)
<1>1. /\ a \in Seq(BOOLEAN)
      /\ Len(a) = Len(oks) + 1
      /\ \A j \in 1..Len(oks) : a[j] = oks[j]
      /\ a[Len(oks) + 1] = ok
  OBVIOUS
<1>2. AllTrue(a) <=> AllTrue(oks) /\ ok
  <2> Len(oks) \in Nat
    OBVIOUS
  <2> QED
    BY <1>1 DEF AllTrue
<1>3. QED
  BY <1>1, <1>2

\* A result joins a list that is not over.
LEMMA RecordedFrame ==
    ASSUME TypeOK, NEW e \in Execs, NEW f \in FrameType, NEW ok \in BOOLEAN,
           FrameOK(f, req[e].stop), ~Over(f)
    PROVE  /\ Recorded(e, f, ok) \in FrameType
           /\ FrameOK(Recorded(e, f, ok), req[e].stop)
           /\ Recorded(e, f, ok).steps = f.steps
           /\ ~ok => ~AllTrue(Recorded(e, f, ok).oks)
<1> DEFINE g == Recorded(e, f, ok)
<1> Len(f.steps) \in Nat /\ f.i \in Nat \ {0} /\ f.oks \in Seq(BOOLEAN) /\ f.steps \in Seq(StepIds)
  BY DEF FrameType
<1> req[e].stop \in BOOLEAN
  BY DEF TypeOK, ChainRequest
<1>1. /\ g \in FrameType
      /\ g.steps = f.steps
      /\ g.oks = Append(f.oks, ok)
      /\ g.i = IF ok \/ ~req[e].stop THEN f.i + 1 ELSE Len(f.steps) + 1
  <2> DEFINE n == IF ok \/ ~req[e].stop THEN f.i + 1 ELSE Len(f.steps) + 1
             a == Append(f.oks, ok)
  <2>1. n \in Nat \ {0} /\ a \in Seq(BOOLEAN)
    BY AppendResult
  <2>2. g = [f EXCEPT !.oks = a, !.i = n]
    BY DEF Recorded
  <2> HIDE DEF n, a, g
  <2>3. g \in FrameType /\ g.steps = f.steps /\ g.oks = a /\ g.i = n
    BY <2>1, <2>2 DEF FrameType
  <2>4. QED
    BY <2>3 DEF n, a, g
<1>2. f.i <= Len(f.steps)
  BY DEF Over
<1>3. AllTrue(g.oks) <=> AllTrue(f.oks) /\ ok
  BY <1>1, AppendResult
<1>4. g.i <= Len(g.steps) + 1
  BY <1>1, <1>2
<1>5. AllTrue(g.oks) => Len(g.oks) = g.i - 1
  BY <1>1, <1>3, AppendResult DEF FrameOK
<1>6. ASSUME req[e].stop, NEW j \in 1..Len(g.oks), ~g.oks[j]
      PROVE  j = Len(g.oks) /\ Over(g)
  <2>1. Len(g.oks) = Len(f.oks) + 1 /\ Len(f.oks) \in Nat
    BY <1>1, AppendResult
  <2>2. j \notin 1..Len(f.oks)
    BY <1>1, <1>6, AppendResult DEF FrameOK
  <2>3. j = Len(g.oks) /\ ~ok
    BY <1>1, <1>6, <2>1, <2>2, AppendResult
  <2>4. QED
    BY <1>1, <1>6, <2>3 DEF Over
<1>7. QED
  BY <1>1, <1>3, <1>4, <1>5, <1>6 DEF FrameOK

\* The marker of a stop joins a list that is not over.
LEMMA MarkedFrame ==
    ASSUME NEW f \in FrameType, NEW stop \in BOOLEAN, FrameOK(f, stop), ~Over(f)
    PROVE  /\ Marked(f) \in FrameType
           /\ FrameOK(Marked(f), stop)
           /\ Marked(f).steps = f.steps
           /\ ~AllTrue(Marked(f).oks)
<1> DEFINE g == Marked(f)
<1> Len(f.steps) \in Nat /\ f.i \in Nat \ {0} /\ f.oks \in Seq(BOOLEAN) /\ f.steps \in Seq(StepIds)
  BY DEF FrameType
<1>1. /\ g \in FrameType
      /\ g.steps = f.steps
      /\ g.oks = Append(f.oks, FALSE)
      /\ g.i = Len(f.steps) + 1
  <2> DEFINE n == Len(f.steps) + 1
             a == Append(f.oks, FALSE)
  <2>1. n \in Nat \ {0} /\ a \in Seq(BOOLEAN)
    BY AppendResult
  <2>2. g = [f EXCEPT !.oks = a, !.i = n]
    BY DEF Marked
  <2> HIDE DEF n, a, g
  <2>3. g \in FrameType /\ g.steps = f.steps /\ g.oks = a /\ g.i = n
    BY <2>1, <2>2 DEF FrameType
  <2>4. QED
    BY <2>3 DEF n, a, g
<1>2. ~AllTrue(g.oks)
  <2>1. AllTrue(Append(f.oks, FALSE)) <=> AllTrue(f.oks) /\ FALSE
    BY AppendResult
  <2>2. QED
    BY <1>1, <2>1
<1>3. ASSUME stop, NEW j \in 1..Len(g.oks), ~g.oks[j]
      PROVE  j = Len(g.oks) /\ Over(g)
  <2>1. Len(g.oks) = Len(f.oks) + 1 /\ Len(f.oks) \in Nat
    BY <1>1, AppendResult
  <2>2. j \notin 1..Len(f.oks)
    BY <1>1, <1>3, AppendResult DEF FrameOK
  <2>3. QED
    BY <1>1, <2>1, <2>2 DEF Over
<1>4. FrameOK(g, stop)
  <2> HIDE DEF g
  <2>1. g.i <= Len(g.steps) + 1
    BY <1>1
  <2>2. stop => \A j \in 1..Len(g.oks) : ~g.oks[j] => j = Len(g.oks) /\ Over(g)
    BY <1>3
  <2>3. QED
    BY <1>2, <2>1, <2>2, Zenon DEF FrameOK
<1>5. QED
  BY <1>1, <1>2, <1>4

\* With on_error=stop a list with a failure is over.
LEMMA FailedOver ==
    ASSUME NEW f, NEW stop, FrameOK(f, stop), stop, ~AllTrue(f.oks)
    PROVE  Over(f)
  BY DEF FrameOK, AllTrue

----------------------------------------------------------------------------
(* Steps in general                                                        *)

\* An execution whose own state does not change keeps its invariant.
LEMMA Untouched ==
    ASSUME NEW d \in Execs, ExecInv(d),
           req'[d] = req[d], call'[d] = call[d], pc'[d] = pc[d], frame'[d] = frame[d],
           outer'[d] = outer[d], late'[d] = late[d], failed'[d] = failed[d],
           cancelled \subseteq cancelled', doomed \subseteq doomed'
    PROVE  ExecInv(d)'
<1>1. Stopped(d) => Stopped(d)'
  BY DEF Stopped
<1>2. FramesOK(d)' /\ PlaceOK(d)' /\ FailureOK(d)'
  BY DEF ExecInv, FramesOK, PlaceOK, FailureOK, FrameOK, SurroundOK, RootSteps, Over, AllTrue,
         CurrentStep, Exposed
<1>3. LateOK(d)'
  BY <1>1 DEF ExecInv, LateOK
<1>4. QED
  BY <1>2, <1>3 DEF ExecInv

\* The same for the lists of steps alone.
LEMMA SameLists ==
    ASSUME NEW d \in Execs, FramesOK(d), FailureOK(d),
           req'[d] = req[d], frame'[d] = frame[d], outer'[d] = outer[d], failed'[d] = failed[d]
    PROVE  FramesOK(d)' /\ FailureOK(d)'
  BY DEF FramesOK, FailureOK, FrameOK, SurroundOK, RootSteps, Over, AllTrue, CurrentStep, Exposed

\* A step that begins after a stop is the only one: its check was passed before.
LEMMA BeginLate ==
    ASSUME TypeOK, NEW e \in Execs, LateOK(e), BeginStep(e),
           pc'[e] # "ready", UNCHANGED <<cancelled, doomed>>
    PROVE  /\ LateOK(e)'
           /\ late' \in [Execs -> Nat] /\ stray' \in [Execs -> Nat]
           /\ \A d \in Execs \ {e} : late'[d] = late[d]
<1>1. late \in [Execs -> Nat] /\ stray \in [Execs -> Nat] /\ pc[e] = "ready"
  BY DEF TypeOK, BeginStep
<1>2. late[e] = 0
  BY <1>1 DEF LateOK
<1>3. /\ late' = IF Stopped(e) THEN [late EXCEPT ![e] = @ + 1] ELSE late
      /\ stray' = IF Orphaned(e) /\ ~Stopped(e) THEN [stray EXCEPT ![e] = @ + 1] ELSE stray
  BY DEF BeginStep
<1>4. Stopped(e)' <=> Stopped(e)
  BY DEF Stopped
<1>5. CASE Stopped(e)
  BY <1>1, <1>2, <1>3, <1>4, <1>5 DEF LateOK
<1>6. CASE ~Stopped(e)
  <2>1. late' = late /\ stray' \in [Execs -> Nat]
    BY <1>1, <1>3, <1>6
  <2>2. QED
    BY <1>1, <1>2, <2>1 DEF LateOK
<1>7. QED
  BY <1>5, <1>6

\* A step of the innermost list ends with a result.
LEMMA ResultStep ==
    ASSUME TypeOK, NEW e \in Execs, ExecInv(e), NEW ok \in BOOLEAN, StepResult(e, ok),
           pc[e] \in {"ready", "busy", "nested"}, UNCHANGED <<req, call>>
    PROVE  /\ FramesOK(e)' /\ PlaceOK(e)' /\ FailureOK(e)'
           /\ frame' \in [Execs -> FrameType] /\ pc' \in [Execs -> {"idle", "check", "ready", "busy", "nested", "ended"}]
           /\ failed' \in [Execs -> BOOLEAN] /\ pc'[e] = "check"
           /\ \A d \in Execs \ {e} :
                 frame'[d] = frame[d] /\ pc'[d] = pc[d] /\ failed'[d] = failed[d]
<1> DEFINE g == Recorded(e, frame[e], ok)
<1>1. /\ frame \in [Execs -> FrameType] /\ outer \in [Execs -> Seq(FrameType)]
      /\ pc \in [Execs -> {"idle", "check", "ready", "busy", "nested", "ended"}]
      /\ failed \in [Execs -> BOOLEAN]
  BY DEF TypeOK
<1>2. /\ FrameOK(frame[e], req[e].stop) /\ ~Over(frame[e])
      /\ SurroundOK(outer[e], req[e].stop) /\ RootSteps(frame[e], outer[e]) = req[e].steps
  BY DEF ExecInv, FramesOK, PlaceOK
<1>3. /\ g \in FrameType /\ FrameOK(g, req[e].stop) /\ g.steps = frame[e].steps
      /\ ~ok => ~AllTrue(g.oks)
  BY <1>1, <1>2, RecordedFrame
<1>4. /\ frame' = [frame EXCEPT ![e] = g] /\ outer' = outer
      /\ pc' = [pc EXCEPT ![e] = "check"]
      /\ failed' = IF ~ok /\ Exposed(outer[e]) THEN [failed EXCEPT ![e] = TRUE] ELSE failed
  BY DEF StepResult, NoteFailure
<1> HIDE DEF g
<1>5. frame'[e] = g /\ frame' \in [Execs -> FrameType]
  BY <1>1, <1>3, <1>4
<1>6. pc'[e] = "check" /\ pc' \in [Execs -> {"idle", "check", "ready", "busy", "nested", "ended"}]
  BY <1>1, <1>4
<1>7. failed' \in [Execs -> BOOLEAN] /\ failed'[e] = (failed[e] \/ (~ok /\ Exposed(outer[e])))
  <2>1. CASE ~ok /\ Exposed(outer[e])
    BY <1>1, <1>4, <2>1
  <2>2. CASE ~(~ok /\ Exposed(outer[e]))
    BY <1>1, <1>4, <2>2
  <2>3. QED
    BY <2>1, <2>2
<1>8. FramesOK(e)'
  <2>1. RootSteps(g, outer[e]) = req[e].steps
    BY <1>2, <1>3 DEF RootSteps
  <2>2. QED
    BY <1>2, <1>3, <1>4, <1>5, <2>1
       DEF FramesOK, FrameOK, SurroundOK, RootSteps, Over, AllTrue, CurrentStep
<1>9. PlaceOK(e)'
  BY <1>6 DEF ExecInv, PlaceOK
<1>10. FailureOK(e)'
  <2>1. ~(failed[e] /\ req[e].stop)
    BY <1>2, FailedOver DEF ExecInv, FailureOK
  <2>2. failed'[e] /\ req[e].stop => ~AllTrue(g.oks) /\ Exposed(outer[e])
    BY <1>3, <1>7, <2>1
  <2>3. QED
    BY <1>4, <1>5, <2>2 DEF FailureOK, AllTrue, Exposed, CurrentStep
<1>11. \A d \in Execs \ {e} :
          frame'[d] = frame[d] /\ pc'[d] = pc[d] /\ failed'[d] = failed[d]
  BY <1>1, <1>4
<1>12. QED
  BY <1>5, <1>6, <1>7, <1>8, <1>9, <1>10, <1>11

\* The step at hand is one of the program's.
LEMMA CurrentType ==
    ASSUME NEW f \in FrameType, ~Over(f)
    PROVE  CurrentStep(f) \in ChainStep
<1>1. f.i \in 1..Len(f.steps) /\ f.steps \in Seq(StepIds)
  BY DEF FrameType, Over
<1>2. f.steps[f.i] \in StepIds
  BY <1>1
<1>3. QED
  BY <1>2, StepAssumption DEF CurrentStep

\* The innermost list gives way to a new one around it.
LEMMA PushFrame ==
    ASSUME NEW f \in FrameType, NEW s \in Seq(FrameType), NEW g, NEW stop \in BOOLEAN,
           FrameOK(f, stop), SurroundOK(s, stop), ~Over(f),
           CurrentStep(f).kind \in {"branch", "loop"}
    PROVE  /\ <<f>> \o s \in Seq(FrameType)
           /\ SurroundOK(<<f>> \o s, stop)
           /\ RootSteps(g, <<f>> \o s) = RootSteps(f, s)
<1> DEFINE t == <<f>> \o s
<1>1. /\ t \in Seq(FrameType) /\ Len(t) = Len(s) + 1 /\ Len(s) \in Nat
      /\ t[1] = f /\ \A k \in 2..Len(t) : t[k] = s[k - 1] /\ k - 1 \in 1..Len(s)
  OBVIOUS
<1> HIDE DEF t
<1>2. SurroundOK(t, stop)
  <2>1. ASSUME NEW k \in 1..Len(t)
        PROVE  FrameOK(t[k], stop) /\ ~Over(t[k]) /\ CurrentStep(t[k]).kind \in {"branch", "loop"}
    <3>1. CASE k = 1
      BY <1>1, <3>1
    <3>2. CASE k # 1
      <4>1. t[k] = s[k - 1] /\ k - 1 \in 1..Len(s)
        BY <1>1, <3>2
      <4>2. QED
        BY <4>1 DEF SurroundOK
    <3>3. QED
      BY <3>1, <3>2
  <2>2. QED
    BY <2>1 DEF SurroundOK
<1>3. RootSteps(g, t) = RootSteps(f, s)
  <2>1. t # <<>> /\ Len(t) \in 1..Len(t)
    BY <1>1
  <2>2. CASE s = <<>>
    BY <1>1, <2>1, <2>2 DEF RootSteps
  <2>3. CASE s # <<>>
    <3>1. Len(t) \in 2..Len(t) /\ Len(t) - 1 = Len(s)
      BY <1>1, <2>3
    <3>2. t[Len(t)] = s[Len(s)]
      BY <1>1, <3>1
    <3>3. QED
      BY <2>1, <2>3, <3>2 DEF RootSteps
  <2>4. QED
    BY <2>2, <2>3
<1>4. QED
  BY <1>1, <1>2, <1>3 DEF t

\* The list around the innermost one takes its place.
LEMMA PopFrame ==
    ASSUME NEW s \in Seq(FrameType), s # <<>>, NEW stop \in BOOLEAN, SurroundOK(s, stop),
           NEW g, g.steps = Head(s).steps, NEW f
    PROVE  /\ Head(s) \in FrameType /\ Tail(s) \in Seq(FrameType)
           /\ FrameOK(Head(s), stop) /\ ~Over(Head(s))
           /\ CurrentStep(Head(s)).kind \in {"branch", "loop"}
           /\ SurroundOK(Tail(s), stop)
           /\ RootSteps(g, Tail(s)) = RootSteps(f, s)
<1> DEFINE t == Tail(s)
<1>1. /\ t \in Seq(FrameType) /\ Len(t) = Len(s) - 1 /\ Len(s) \in Nat \ {0}
      /\ Head(s) = s[1] /\ s[1] \in FrameType
      /\ \A k \in 1..Len(t) : t[k] = s[k + 1] /\ k + 1 \in 1..Len(s)
  OBVIOUS
<1> HIDE DEF t
<1>2. FrameOK(Head(s), stop) /\ ~Over(Head(s)) /\ CurrentStep(Head(s)).kind \in {"branch", "loop"}
  <2>1. 1 \in 1..Len(s)
    BY <1>1
  <2>2. QED
    BY <1>1, <2>1 DEF SurroundOK
<1>3. SurroundOK(t, stop)
  BY <1>1 DEF SurroundOK
<1>4. RootSteps(g, t) = RootSteps(f, s)
  <2>1. CASE t = <<>>
    <3>1. Len(s) = 1
      BY <1>1, <2>1
    <3>2. QED
      BY <1>1, <2>1, <3>1 DEF RootSteps
  <2>2. CASE t # <<>>
    <3>1. Len(t) \in 1..Len(t) /\ Len(t) + 1 = Len(s)
      BY <1>1, <2>2
    <3>2. t[Len(t)] = s[Len(s)]
      BY <1>1, <3>1
    <3>3. QED
      BY <2>2, <3>2 DEF RootSteps
  <2>3. QED
    BY <2>1, <2>2
<1>5. QED
  BY <1>1, <1>2, <1>3, <1>4 DEF t

----------------------------------------------------------------------------
(* The invariant is inductive                                              *)

LEMMA InitInv == Init => IInv
<1> SUFFICES ASSUME Init PROVE IInv
  OBVIOUS
<1>1. <<>> \in Seq(StepIds) /\ TRUE \in BOOLEAN
  OBVIOUS
<1>2. Frame(<<>>) \in FrameType /\ Frame(<<>>).steps = <<>> /\ AllTrue(Frame(<<>>).oks)
  BY <1>1, NewFrame
<1>3. TypeOK
  BY <1>1, <1>2 DEF Init, TypeOK, ChainRequest, Outcomes
<1>4. ASSUME NEW e \in Execs PROVE ExecInv(e)
  <2>1. FrameOK(Frame(<<>>), TRUE)
    BY <1>1, NewFrame
  <2>2. FramesOK(e)
    <3>1. /\ frame[e] = Frame(<<>>) /\ outer[e] = <<>>
          /\ req[e].stop = TRUE /\ req[e].steps = <<>>
      BY DEF Init
    <3>2. SurroundOK(<<>>, TRUE) /\ RootSteps(Frame(<<>>), <<>>) = <<>>
      BY <1>2 DEF SurroundOK, RootSteps
    <3>3. QED
      BY <2>1, <3>1, <3>2 DEF FramesOK
  <2>3. pc[e] = "idle" /\ call[e] = "none" /\ late[e] = 0 /\ ~failed[e]
    BY DEF Init
  <2>4. PlaceOK(e) /\ LateOK(e) /\ FailureOK(e)
    BY <2>3 DEF PlaceOK, LateOK, FailureOK
  <2>5. QED
    BY <2>2, <2>4 DEF ExecInv
<1>5. QED
  BY <1>3, <1>4 DEF IInv

\* Steps of a worker that leave its lists, its place in them and its history alone.
LEMMA BusyInv ==
    ASSUME IInv, NEW e \in Execs, RetryVerify(e)
    PROVE  IInv'
<1>1. TypeOK /\ \A d \in Execs : ExecInv(d)
  BY DEF IInv
<1>2. tries[e] - 1 \in Nat
  BY <1>1 DEF RetryVerify, TypeOK
<1>3. TypeOK'
  BY <1>1, <1>2 DEF RetryVerify, TypeOK
<1>4. ASSUME NEW d \in Execs PROVE ExecInv(d)'
  BY <1>1, Untouched DEF RetryVerify
<1>5. QED
  BY <1>3, <1>4 DEF IInv

\* Steps that end with a result before anything runs.
LEMMA EarlyResultInv ==
    ASSUME IInv, NEW e \in Execs, NEW ok \in BOOLEAN, BeginStep(e), StepResult(e, ok),
           UNCHANGED <<req, call, tries, child, cancelled, doomed>>
    PROVE  IInv'
<1>1. TypeOK /\ \A d \in Execs : ExecInv(d)
  BY DEF IInv
<1>2. pc[e] = "ready" /\ LateOK(e)
  BY <1>1 DEF BeginStep, ExecInv
<1>3. /\ FramesOK(e)' /\ PlaceOK(e)' /\ FailureOK(e)'
      /\ frame' \in [Execs -> FrameType] /\ pc' \in [Execs -> {"idle", "check", "ready", "busy", "nested", "ended"}]
      /\ failed' \in [Execs -> BOOLEAN] /\ pc'[e] = "check"
      /\ \A d \in Execs \ {e} :
            frame'[d] = frame[d] /\ pc'[d] = pc[d] /\ failed'[d] = failed[d]
  BY <1>1, <1>2, ResultStep
<1>4. /\ LateOK(e)'
      /\ late' \in [Execs -> Nat] /\ stray' \in [Execs -> Nat]
      /\ \A d \in Execs \ {e} : late'[d] = late[d]
  BY <1>1, <1>2, <1>3, BeginLate
<1>5. outer' = outer
  BY DEF StepResult
<1>6. TypeOK'
  BY <1>1, <1>3, <1>4, <1>5 DEF TypeOK
<1>7. ASSUME NEW d \in Execs \ {e} PROVE ExecInv(d)'
  BY <1>1, <1>3, <1>4, <1>5, Untouched
<1>8. QED
  BY <1>3, <1>4, <1>6, <1>7 DEF IInv, ExecInv

LEMMA RefuseStepInv ==
    ASSUME IInv, NEW e \in Execs, RefuseStep(e)
    PROVE  IInv'
  BY EarlyResultInv DEF RefuseStep

LEMMA InstantStepInv ==
    ASSUME IInv, NEW e \in Execs, InstantStep(e)
    PROVE  IInv'
<1>1. ImmediateResult(At(e)) \in BOOLEAN
  BY DEF ImmediateResult
<1>2. QED
  BY <1>1, EarlyResultInv DEF InstantStep

\* Steps that end with the answer of a tool or of a nested chain.
LEMMA LateResultInv ==
    ASSUME IInv, NEW e \in Execs, NEW ok \in BOOLEAN, pc[e] \in {"busy", "nested"},
           StepResult(e, ok),
           UNCHANGED <<req, call, tries, child, cancelled, doomed, late, stray>>
    PROVE  IInv'
<1>1. TypeOK /\ \A d \in Execs : ExecInv(d)
  BY DEF IInv
<1>2. /\ FramesOK(e)' /\ PlaceOK(e)' /\ FailureOK(e)'
      /\ frame' \in [Execs -> FrameType] /\ pc' \in [Execs -> {"idle", "check", "ready", "busy", "nested", "ended"}]
      /\ failed' \in [Execs -> BOOLEAN] /\ pc'[e] = "check"
      /\ \A d \in Execs \ {e} :
            frame'[d] = frame[d] /\ pc'[d] = pc[d] /\ failed'[d] = failed[d]
  BY <1>1, ResultStep
<1>3. outer' = outer
  BY DEF StepResult
<1>4. TypeOK'
  BY <1>1, <1>2, <1>3 DEF TypeOK
<1>5. LateOK(e)'
  BY <1>1, <1>2 DEF ExecInv, LateOK, Stopped
<1>6. ASSUME NEW d \in Execs \ {e} PROVE ExecInv(d)'
  BY <1>1, <1>2, <1>3, Untouched
<1>7. QED
  BY <1>2, <1>4, <1>5, <1>6 DEF IInv, ExecInv

LEMMA EndToolInv ==
    ASSUME IInv, NEW e \in Execs, EndTool(e)
    PROVE  IInv'
  BY LateResultInv DEF EndTool

LEMMA ReplicateReturnsInv ==
    ASSUME IInv, NEW e \in Execs, ReplicateReturns(e)
    PROVE  IInv'
<1>1. (call[child[e]] \in {"success", "failure"}) \in BOOLEAN
  OBVIOUS
<1>2. QED
  BY <1>1, LateResultInv DEF ReplicateReturns

\* The stop check: a marker for the remaining steps, or on to the next step.
LEMMA CheckStopInv ==
    ASSUME IInv, NEW e \in Execs, CheckStop(e)
    PROVE  IInv'
<1>1. TypeOK /\ (\A d \in Execs : ExecInv(d)) /\ pc[e] = "check" /\ ~Over(frame[e])
  BY DEF IInv, CheckStop
<1>2. UNCHANGED <<req, call, outer, tries, child, cancelled, doomed, late, stray>>
  BY DEF CheckStop
<1>3. /\ frame \in [Execs -> FrameType] /\ failed \in [Execs -> BOOLEAN]
      /\ pc \in [Execs -> {"idle", "check", "ready", "busy", "nested", "ended"}]
      /\ req[e].stop \in BOOLEAN
  BY <1>1 DEF TypeOK, ChainRequest
<1>4. CASE SeesStop(e)
  <2> DEFINE g == Marked(frame[e])
  <2>1. /\ frame' = [frame EXCEPT ![e] = g] /\ pc' = pc
        /\ failed' = IF Exposed(outer[e]) THEN [failed EXCEPT ![e] = TRUE] ELSE failed
    BY <1>4 DEF CheckStop, NoteFailure
  <2>2. /\ g \in FrameType /\ FrameOK(g, req[e].stop) /\ g.steps = frame[e].steps
        /\ ~AllTrue(g.oks)
    BY <1>1, <1>3, MarkedFrame DEF ExecInv, FramesOK
  <2> HIDE DEF g
  <2>3. frame'[e] = g /\ frame' \in [Execs -> FrameType]
    BY <1>3, <2>1, <2>2
  <2>4. failed' \in [Execs -> BOOLEAN] /\ failed'[e] = (failed[e] \/ Exposed(outer[e]))
    <3>1. CASE Exposed(outer[e])
      BY <1>3, <2>1, <3>1
    <3>2. CASE ~Exposed(outer[e])
      BY <1>3, <2>1, <3>2
    <3>3. QED
      BY <3>1, <3>2
  <2>5. TypeOK'
    BY <1>1, <1>2, <2>1, <2>3, <2>4 DEF TypeOK
  <2>6. FramesOK(e)'
    <3>1. RootSteps(g, outer[e]) = req[e].steps
      BY <1>1, <2>2 DEF ExecInv, FramesOK, RootSteps
    <3>2. QED
      BY ZenonT(40), <1>1, <1>2, <2>2, <2>3, <3>1
         DEF ExecInv, FramesOK, FrameOK, SurroundOK, RootSteps, Over, AllTrue, CurrentStep
  <2>7. PlaceOK(e)' /\ LateOK(e)'
    BY <1>1, <1>2, <2>1 DEF ExecInv, PlaceOK, LateOK, Stopped
  <2>8. FailureOK(e)'
    <3>1. failed'[e] /\ req[e].stop => Exposed(outer[e])
      BY <1>1, <2>4 DEF ExecInv, FailureOK
    <3>2. QED
      BY <1>2, <2>2, <2>3, <3>1 DEF FailureOK, AllTrue, Exposed, CurrentStep
  <2>9. ASSUME NEW d \in Execs \ {e} PROVE ExecInv(d)'
    <3>1. frame'[d] = frame[d] /\ failed'[d] = failed[d]
      BY <1>3, <2>1
    <3>2. QED
      BY <1>1, <1>2, <2>1, <3>1, Untouched
  <2>10. QED
    BY <2>5, <2>6, <2>7, <2>8, <2>9 DEF IInv, ExecInv
<1>5. CASE ~SeesStop(e)
  <2>1. pc' = [pc EXCEPT ![e] = "ready"] /\ UNCHANGED <<frame, failed>>
    BY <1>5 DEF CheckStop
  <2>2. TypeOK'
    BY <1>1, <1>2, <1>3, <2>1 DEF TypeOK
  <2>3. pc'[e] = "ready" /\ \A d \in Execs \ {e} : pc'[d] = pc[d]
    BY <1>3, <2>1
  <2>4. FramesOK(e)' /\ FailureOK(e)'
    BY <1>1, <1>2, <2>1, SameLists DEF ExecInv
  <2>5. PlaceOK(e)'
    BY <1>1, <1>2, <2>1, <2>3 DEF ExecInv, PlaceOK, Over
  <2>6. LateOK(e)'
    <3>1. ~Stopped(e)
      BY <1>5 DEF SeesStop
    <3>2. late[e] <= 1 /\ late[e] # 1
      BY <1>1, <3>1 DEF ExecInv, LateOK
    <3>3. late'[e] = late[e]
      BY <1>2
    <3>4. QED
      BY <3>2, <3>3 DEF LateOK
  <2>7. ASSUME NEW d \in Execs \ {e} PROVE ExecInv(d)'
    BY <1>1, <1>2, <2>1, <2>3, Untouched
  <2>8. QED
    BY <2>2, <2>4, <2>5, <2>6, <2>7 DEF IInv, ExecInv
<1>6. QED
  BY <1>4, <1>5

LEMMA BeginToolInv ==
    ASSUME IInv, NEW e \in Execs, BeginTool(e)
    PROVE  IInv'
<1>1. TypeOK /\ (\A d \in Execs : ExecInv(d)) /\ pc[e] = "ready" /\ ~Over(frame[e])
  BY DEF IInv, BeginTool, BeginStep, ExecInv, PlaceOK
<1>2. UNCHANGED <<req, call, frame, outer, child, cancelled, doomed, failed>>
  BY DEF BeginTool
<1>3. /\ pc \in [Execs -> {"idle", "check", "ready", "busy", "nested", "ended"}]
      /\ tries \in [Execs -> Nat] /\ frame[e] \in FrameType
  BY <1>1 DEF TypeOK
<1>4. pc' = [pc EXCEPT ![e] = "busy"] /\ pc'[e] = "busy"
  BY <1>3 DEF BeginTool
<1>5. /\ LateOK(e)'
      /\ late' \in [Execs -> Nat] /\ stray' \in [Execs -> Nat]
      /\ \A d \in Execs \ {e} : late'[d] = late[d]
  BY <1>1, <1>2, <1>4, BeginLate DEF BeginTool, ExecInv
<1>6. tries' \in [Execs -> Nat]
  <2>1. At(e).times \in Nat
    BY <1>1, <1>3, CurrentType DEF At, ChainStep
  <2>2. QED
    BY <1>3, <2>1 DEF BeginTool
<1>7. TypeOK'
  BY <1>1, <1>2, <1>3, <1>4, <1>5, <1>6 DEF TypeOK
<1>8. FramesOK(e)' /\ FailureOK(e)'
  BY <1>1, <1>2, SameLists DEF ExecInv
<1>9. PlaceOK(e)'
  BY <1>1, <1>2, <1>4 DEF ExecInv, PlaceOK, Over
<1>10. ASSUME NEW d \in Execs \ {e} PROVE ExecInv(d)'
  <2>1. pc'[d] = pc[d]
    BY <1>3, <1>4
  <2>2. QED
    BY <1>1, <1>2, <1>5, <2>1, Untouched
<1>11. QED
  BY <1>5, <1>7, <1>8, <1>9, <1>10 DEF IInv, ExecInv

\* An if or loop step enters a new list, which has no failure yet.
LEMMA EnterStepsInv ==
    ASSUME IInv, NEW e \in Execs, NEW steps \in Seq(StepIds), EnterSteps(e, steps),
           At(e).kind \in {"branch", "loop"}
    PROVE  IInv'
<1>1. TypeOK /\ (\A d \in Execs : ExecInv(d)) /\ pc[e] = "ready" /\ ~Over(frame[e])
  BY DEF IInv, EnterSteps, BeginStep, ExecInv, PlaceOK
<1>2. UNCHANGED <<req, call, tries, child, cancelled, doomed, failed>>
  BY DEF EnterSteps
<1>3. /\ pc \in [Execs -> {"idle", "check", "ready", "busy", "nested", "ended"}]
      /\ frame \in [Execs -> FrameType] /\ outer \in [Execs -> Seq(FrameType)]
      /\ req[e].stop \in BOOLEAN
  BY <1>1 DEF TypeOK, ChainRequest
<1>4. /\ FrameOK(frame[e], req[e].stop) /\ SurroundOK(outer[e], req[e].stop)
      /\ RootSteps(frame[e], outer[e]) = req[e].steps
  BY <1>1 DEF ExecInv, FramesOK
<1> DEFINE g == Frame(steps)
           s == <<frame[e]>> \o outer[e]
<1>5. g \in FrameType /\ FrameOK(g, req[e].stop)
  BY <1>3, NewFrame
<1>6. /\ s \in Seq(FrameType) /\ SurroundOK(s, req[e].stop)
      /\ RootSteps(g, s) = req[e].steps
  BY <1>1, <1>3, <1>4, PushFrame DEF At
<1>7. /\ frame' = [frame EXCEPT ![e] = g] /\ outer' = [outer EXCEPT ![e] = s]
      /\ pc' = [pc EXCEPT ![e] = "check"]
  BY DEF EnterSteps
<1> HIDE DEF g, s
<1>8. frame'[e] = g /\ outer'[e] = s /\ pc'[e] = "check"
  BY <1>3, <1>7
<1>9. /\ LateOK(e)'
      /\ late' \in [Execs -> Nat] /\ stray' \in [Execs -> Nat]
      /\ \A d \in Execs \ {e} : late'[d] = late[d]
  BY <1>1, <1>2, <1>8, BeginLate DEF EnterSteps, ExecInv
<1>10. TypeOK'
  BY <1>1, <1>2, <1>3, <1>5, <1>6, <1>7, <1>9 DEF TypeOK
<1>11. FramesOK(e)'
  BY <1>2, <1>5, <1>6, <1>8
     DEF FramesOK, FrameOK, SurroundOK, RootSteps, Over, AllTrue, CurrentStep
<1>12. PlaceOK(e)'
  BY <1>1, <1>2, <1>8 DEF ExecInv, PlaceOK
<1>13. FailureOK(e)'
  <2>1. ~(failed[e] /\ req[e].stop)
    BY <1>1, <1>4, FailedOver DEF ExecInv, FailureOK
  <2>2. QED
    BY <1>2, <2>1 DEF FailureOK
<1>14. ASSUME NEW d \in Execs \ {e} PROVE ExecInv(d)'
  <2>1. pc'[d] = pc[d] /\ frame'[d] = frame[d] /\ outer'[d] = outer[d]
    BY <1>3, <1>7
  <2>2. QED
    BY <1>1, <1>2, <1>9, <2>1, Untouched
<1>15. QED
  BY <1>9, <1>10, <1>11, <1>12, <1>13, <1>14 DEF IInv, ExecInv

LEMMA EnterInv ==
    ASSUME IInv, NEW e \in Execs, EnterBranch(e) \/ EnterLoop(e)
    PROVE  IInv'
<1>1. pc[e] = "ready" /\ At(e).kind \in {"branch", "loop"}
  BY DEF EnterBranch, EnterLoop
<1>2. At(e).body \in Seq(StepIds) /\ At(e).other \in Seq(StepIds)
  <2>1. ~Over(frame[e]) /\ frame[e] \in FrameType
    BY <1>1 DEF IInv, ExecInv, PlaceOK, TypeOK
  <2>2. QED
    BY <2>1, CurrentType DEF At, ChainStep
<1>3. PICK steps \in {At(e).body, At(e).other} : EnterSteps(e, steps)
  BY DEF EnterBranch, EnterLoop
<1>4. QED
  BY <1>1, <1>2, <1>3, EnterStepsInv

\* The worker's last step tells the call.
LEMMA EndWorkerInv ==
    ASSUME IInv, NEW e \in Execs, EndWorker(e)
    PROVE  IInv'
<1>1. /\ TypeOK /\ (\A d \in Execs : ExecInv(d))
      /\ pc[e] = "check" /\ Over(frame[e]) /\ outer[e] = <<>>
  BY DEF IInv, EndWorker
<1>2. /\ UNCHANGED <<req, call, frame, outer, tries, child, cancelled, doomed, late, stray, failed>>
      /\ pc' = [pc EXCEPT ![e] = "ended"]
  BY DEF EndWorker
<1>3. pc \in [Execs -> {"idle", "check", "ready", "busy", "nested", "ended"}]
  BY <1>1 DEF TypeOK
<1>4. pc'[e] = "ended" /\ \A d \in Execs \ {e} : pc'[d] = pc[d]
  BY <1>2, <1>3
<1>5. TypeOK'
  BY <1>1, <1>2, <1>3 DEF TypeOK
<1>6. FramesOK(e)' /\ FailureOK(e)'
  BY <1>1, <1>2, SameLists DEF ExecInv
<1>7. PlaceOK(e)'
  BY <1>1, <1>2, <1>4 DEF ExecInv, PlaceOK, Over
<1>8. LateOK(e)'
  BY <1>1, <1>2, <1>4 DEF ExecInv, LateOK, Stopped
<1>9. ASSUME NEW d \in Execs \ {e} PROVE ExecInv(d)'
  BY <1>1, <1>2, <1>4, Untouched
<1>10. QED
  BY <1>5, <1>6, <1>7, <1>8, <1>9 DEF IInv, ExecInv

\* A nested list is over, and its if or loop step gets a result.
LEMMA CloseStepsInv ==
    ASSUME IInv, NEW e \in Execs, NEW ok \in BOOLEAN, CloseSteps(e, ok),
           pc[e] = "check", outer[e] # <<>>,
           failed[e] /\ req[e].stop => ~ok,
           UNCHANGED <<req, call, pc, tries, child, cancelled, doomed, late, stray>>
    PROVE  IInv'
<1>1. TypeOK /\ (\A d \in Execs : ExecInv(d))
  BY DEF IInv
<1>2. /\ frame \in [Execs -> FrameType] /\ outer \in [Execs -> Seq(FrameType)]
      /\ failed \in [Execs -> BOOLEAN] /\ req[e].stop \in BOOLEAN
  BY <1>1 DEF TypeOK, ChainRequest
<1>3. SurroundOK(outer[e], req[e].stop) /\ RootSteps(frame[e], outer[e]) = req[e].steps
  BY <1>1 DEF ExecInv, FramesOK
<1> DEFINE f == Head(outer[e])
           g == Recorded(e, f, ok)
           s == Tail(outer[e])
<1>4. /\ f \in FrameType /\ s \in Seq(FrameType) /\ FrameOK(f, req[e].stop) /\ ~Over(f)
      /\ SurroundOK(s, req[e].stop)
  BY <1>2, <1>3, PopFrame
<1>5. /\ g \in FrameType /\ FrameOK(g, req[e].stop) /\ g.steps = f.steps
      /\ ~ok => ~AllTrue(g.oks)
  BY <1>1, <1>4, RecordedFrame
<1>6. RootSteps(g, s) = req[e].steps
  BY <1>2, <1>3, <1>5, PopFrame
<1>7. /\ frame' = [frame EXCEPT ![e] = g] /\ outer' = [outer EXCEPT ![e] = s]
      /\ failed' = IF ~ok /\ Exposed(s) THEN [failed EXCEPT ![e] = TRUE] ELSE failed
  BY DEF CloseSteps, NoteFailure
<1>8. failed[e] /\ req[e].stop => Exposed(outer[e])
  BY <1>1 DEF ExecInv, FailureOK
<1>9. Exposed(outer[e]) => Exposed(s)
  <2>1. \A k \in 1..Len(s) : s[k] = outer[e][k + 1] /\ k + 1 \in 1..Len(outer[e])
    BY <1>2
  <2>2. QED
    BY <2>1 DEF Exposed
<1> HIDE DEF f, g, s
<1>10. frame'[e] = g /\ outer'[e] = s
  BY <1>2, <1>7
<1>11. failed' \in [Execs -> BOOLEAN] /\ failed'[e] = (failed[e] \/ (~ok /\ Exposed(s)))
  <2>1. CASE ~ok /\ Exposed(s)
    BY <1>2, <1>7, <2>1
  <2>2. CASE ~(~ok /\ Exposed(s))
    BY <1>2, <1>7, <2>2
  <2>3. QED
    BY <2>1, <2>2
<1>12. TypeOK'
  BY <1>1, <1>2, <1>4, <1>5, <1>7, <1>11 DEF TypeOK
<1>13. FramesOK(e)'
  BY <1>4, <1>5, <1>6, <1>10
     DEF FramesOK, FrameOK, SurroundOK, RootSteps, Over, AllTrue, CurrentStep
<1>14. PlaceOK(e)' /\ LateOK(e)'
  BY <1>1 DEF ExecInv, PlaceOK, LateOK, Stopped
<1>15. FailureOK(e)'
  <2>1. failed'[e] /\ req[e].stop => ~AllTrue(g.oks) /\ Exposed(s)
    BY <1>5, <1>8, <1>9, <1>11
  <2>2. QED
    BY <1>10, <2>1 DEF FailureOK, AllTrue, Exposed, CurrentStep
<1>16. ASSUME NEW d \in Execs \ {e} PROVE ExecInv(d)'
  <2>1. frame'[d] = frame[d] /\ outer'[d] = outer[d] /\ failed'[d] = failed[d]
    BY <1>2, <1>7
  <2>2. QED
    BY <1>1, <2>1, Untouched
<1>17. QED
  BY <1>12, <1>13, <1>14, <1>15, <1>16 DEF IInv, ExecInv

LEMMA NextIterationInv ==
    ASSUME IInv, NEW e \in Execs, NextIteration(e), pc[e] = "check",
           ~(failed[e] /\ req[e].stop),
           UNCHANGED <<req, call, pc, tries, child, cancelled, doomed, late, stray>>
    PROVE  IInv'
<1>1. TypeOK /\ (\A d \in Execs : ExecInv(d))
  BY DEF IInv
<1>2. /\ frame \in [Execs -> FrameType] /\ frame[e].steps \in Seq(StepIds)
      /\ req[e].stop \in BOOLEAN /\ frame[e].iter + 1 \in Nat
  BY <1>1 DEF TypeOK, ChainRequest, FrameType
<1> DEFINE h == Frame(frame[e].steps)
           g == [h EXCEPT !.iter = frame[e].iter + 1]
<1>3. h \in FrameType /\ FrameOK(h, req[e].stop) /\ h.steps = frame[e].steps
  BY <1>2, NewFrame
<1> HIDE DEF h
<1>4. g \in FrameType /\ g.steps = h.steps /\ g.oks = h.oks /\ g.i = h.i
  BY <1>2, <1>3 DEF FrameType
<1>5. frame' = [frame EXCEPT ![e] = g] /\ UNCHANGED <<outer, failed>>
  BY DEF NextIteration, h
<1> HIDE DEF g
<1>6. frame'[e] = g
  BY <1>2, <1>5
<1>7. TypeOK'
  BY <1>1, <1>2, <1>4, <1>5 DEF TypeOK
<1>8. FramesOK(e)'
  <2>1. FrameOK(g, req[e].stop)
    BY <1>3, <1>4 DEF FrameOK, AllTrue, Over
  <2>2. RootSteps(g, outer[e]) = req[e].steps /\ SurroundOK(outer[e], req[e].stop)
    BY <1>1, <1>3, <1>4 DEF RootSteps, ExecInv, FramesOK
  <2>3. QED
    BY <1>5, <1>6, <2>1, <2>2
       DEF FramesOK, FrameOK, SurroundOK, RootSteps, Over, AllTrue, CurrentStep
<1>9. PlaceOK(e)' /\ LateOK(e)' /\ FailureOK(e)'
  BY <1>1, <1>5 DEF ExecInv, PlaceOK, LateOK, Stopped, FailureOK
<1>10. ASSUME NEW d \in Execs \ {e} PROVE ExecInv(d)'
  <2>1. frame'[d] = frame[d]
    BY <1>2, <1>5
  <2>2. QED
    BY <1>1, <1>5, <2>1, Untouched
<1>11. QED
  BY <1>7, <1>8, <1>9, <1>10 DEF IInv, ExecInv

\* With on_error=stop an exposed failure is in the list that ends, whose step is a
\* loop, and the loop fails: the failure is passed on, and no iteration follows.
LEMMA LeaveStepsInv ==
    ASSUME IInv, NEW e \in Execs, LeaveSteps(e)
    PROVE  IInv'
<1> DEFINE s == CurrentStep(Head(outer[e]))
<1>1. /\ pc[e] = "check" /\ Over(frame[e]) /\ outer[e] # <<>>
      /\ UNCHANGED <<req, call, pc, tries, child, cancelled, doomed, late, stray>>
  BY DEF LeaveSteps
<1>2. failed[e] /\ req[e].stop => s.kind = "loop" /\ LoopFailed(e, frame[e])
  <2>1. SUFFICES ASSUME failed[e], req[e].stop
                 PROVE  s.kind = "loop" /\ LoopFailed(e, frame[e])
    OBVIOUS
  <2>2. ~AllTrue(frame[e].oks) /\ Exposed(outer[e])
    BY <2>1 DEF IInv, ExecInv, FailureOK
  <2>3. outer[e] \in Seq(FrameType) /\ 1 \in 1..Len(outer[e]) /\ Head(outer[e]) = outer[e][1]
    BY <1>1 DEF IInv, TypeOK
  <2>4. QED
    BY <2>1, <2>2, <2>3 DEF Exposed, LoopFailed
<1>3. CASE s.kind = "branch" /\ CloseSteps(e, TRUE)
  BY <1>1, <1>2, <1>3, CloseStepsInv
<1>4. CASE s.kind = "loop" /\ LoopFailed(e, frame[e]) /\ CloseSteps(e, FALSE)
  BY <1>1, <1>4, CloseStepsInv
<1>5. CASE s.kind = "loop" /\ ~LoopFailed(e, frame[e]) /\ CloseSteps(e, TRUE)
  BY <1>1, <1>2, <1>5, CloseStepsInv
<1>6. CASE s.kind = "loop" /\ ~LoopFailed(e, frame[e]) /\ NextIteration(e)
  BY <1>1, <1>2, <1>6, NextIterationInv
<1>7. QED
  BY <1>3, <1>4, <1>5, <1>6 DEF LeaveSteps

\* A new execution has no results, no failure and no stop behind it.
LEMMA NewExec ==
    ASSUME IInv, NEW c \in Execs, NEW r \in ChainRequest, ExecuteChain(c, r),
           pc'[c] = "check", late'[c] = late[c], failed'[c] = failed[c]
    PROVE  /\ ExecInv(c)'
           /\ req' \in [Execs -> ChainRequest] /\ call' \in [Execs -> Outcomes]
           /\ frame' \in [Execs -> FrameType] /\ outer' \in [Execs -> Seq(FrameType)]
           /\ \A d \in Execs \ {c} : /\ req'[d] = req[d] /\ call'[d] = call[d]
                                     /\ frame'[d] = frame[d] /\ outer'[d] = outer[d]
<1>1. TypeOK /\ ExecInv(c) /\ pc[c] = "idle"
  BY DEF IInv, ExecuteChain
<1>2. ~failed[c] /\ late[c] = 0
  BY <1>1 DEF ExecInv, PlaceOK
<1>3. r.steps \in Seq(StepIds) /\ r.stop \in BOOLEAN
  BY DEF ChainRequest
<1> DEFINE g == Frame(r.steps)
<1>4. g \in FrameType /\ FrameOK(g, r.stop) /\ g.steps = r.steps
  BY <1>3, NewFrame
<1>5. /\ req' = [req EXCEPT ![c] = r] /\ call' = [call EXCEPT ![c] = "waiting"]
      /\ frame' = [frame EXCEPT ![c] = g] /\ outer' = [outer EXCEPT ![c] = <<>>]
  BY DEF ExecuteChain
<1> HIDE DEF g
<1>6. /\ req'[c] = r /\ call'[c] = "waiting" /\ frame'[c] = g /\ outer'[c] = <<>>
      /\ req' \in [Execs -> ChainRequest] /\ call' \in [Execs -> Outcomes]
      /\ frame' \in [Execs -> FrameType] /\ outer' \in [Execs -> Seq(FrameType)]
      /\ \A d \in Execs \ {c} : /\ req'[d] = req[d] /\ call'[d] = call[d]
                                /\ frame'[d] = frame[d] /\ outer'[d] = outer[d]
  BY <1>1, <1>4, <1>5 DEF TypeOK, Outcomes
<1>7. FramesOK(c)'
  <2>1. SurroundOK(<<>>, r.stop) /\ RootSteps(g, <<>>) = r.steps
    BY <1>4 DEF SurroundOK, RootSteps
  <2>2. QED
    BY <1>4, <1>6, <2>1
       DEF FramesOK, FrameOK, SurroundOK, RootSteps, Over, AllTrue, CurrentStep
<1>8. PlaceOK(c)' /\ LateOK(c)' /\ FailureOK(c)'
  BY <1>2, <1>6 DEF PlaceOK, LateOK, FailureOK
<1>9. QED
  BY <1>6, <1>7, <1>8 DEF ExecInv

LEMMA ChainHandlerInv ==
    ASSUME IInv, NEW c \in Execs, ChainHandler(c)
    PROVE  IInv'
<1>1. TypeOK /\ \A d \in Execs : ExecInv(d)
  BY DEF IInv
<1>2. PICK r \in Requests : ExecuteChain(c, r)
  BY DEF ChainHandler
<1>3. /\ pc' = [pc EXCEPT ![c] = "check"]
      /\ UNCHANGED <<tries, child, cancelled, doomed, late, stray, failed>>
  BY DEF ChainHandler
<1>4. pc'[c] = "check" /\ \A d \in Execs \ {c} : pc'[d] = pc[d]
  BY <1>1, <1>3 DEF TypeOK
<1>5. /\ ExecInv(c)'
      /\ req' \in [Execs -> ChainRequest] /\ call' \in [Execs -> Outcomes]
      /\ frame' \in [Execs -> FrameType] /\ outer' \in [Execs -> Seq(FrameType)]
      /\ \A d \in Execs \ {c} : /\ req'[d] = req[d] /\ call'[d] = call[d]
                                /\ frame'[d] = frame[d] /\ outer'[d] = outer[d]
  BY <1>2, <1>3, <1>4, NewExec, RequestAssumption
<1>6. TypeOK'
  BY <1>1, <1>3, <1>5 DEF TypeOK
<1>7. ASSUME NEW d \in Execs \ {c} PROVE ExecInv(d)'
  BY <1>1, <1>3, <1>4, <1>5, Untouched
<1>8. QED
  BY <1>5, <1>6, <1>7 DEF IInv

\* A replicate step starts an idle execution: two executions change.
LEMMA ReplicateInv ==
    ASSUME IInv, NEW e \in Execs, Replicate(e)
    PROVE  IInv'
<1>1. TypeOK /\ (\A d \in Execs : ExecInv(d)) /\ pc[e] = "ready" /\ ~Over(frame[e])
  BY DEF IInv, Replicate, BeginStep, ExecInv, PlaceOK
<1> DEFINE r == [steps |-> At(e).body, stop |-> TRUE]
<1>2. PICK c \in Nested : /\ ExecuteChain(c, r)
                          /\ pc' = [pc EXCEPT ![c] = "check", ![e] = "nested"]
                          /\ child' = [child EXCEPT ![e] = c]
  BY DEF Replicate
<1>3. UNCHANGED <<tries, cancelled, doomed, failed>>
  BY DEF Replicate
<1>4. c \in Execs /\ c # e
  BY <1>1, <1>2 DEF Execs, ExecuteChain
<1>5. r \in ChainRequest
  <2>1. frame[e] \in FrameType
    BY <1>1 DEF TypeOK
  <2>2. At(e).body \in Seq(StepIds)
    BY <1>1, <2>1, CurrentType DEF At, ChainStep
  <2>3. QED
    BY <2>2 DEF ChainRequest
<1> HIDE DEF r
<1>6. /\ pc' \in [Execs -> {"idle", "check", "ready", "busy", "nested", "ended"}]
      /\ pc'[c] = "check" /\ pc'[e] = "nested"
      /\ \A d \in Execs \ {c, e} : pc'[d] = pc[d]
      /\ child' \in [Execs -> Execs \cup {NoExec}]
  BY <1>1, <1>2, <1>4 DEF TypeOK
<1>7. /\ LateOK(e)'
      /\ late' \in [Execs -> Nat] /\ stray' \in [Execs -> Nat]
      /\ \A d \in Execs \ {e} : late'[d] = late[d]
  BY <1>1, <1>3, <1>6, BeginLate DEF Replicate, ExecInv
<1>8. /\ ExecInv(c)'
      /\ req' \in [Execs -> ChainRequest] /\ call' \in [Execs -> Outcomes]
      /\ frame' \in [Execs -> FrameType] /\ outer' \in [Execs -> Seq(FrameType)]
      /\ \A d \in Execs \ {c} : /\ req'[d] = req[d] /\ call'[d] = call[d]
                                /\ frame'[d] = frame[d] /\ outer'[d] = outer[d]
  BY <1>2, <1>3, <1>4, <1>5, <1>6, <1>7, NewExec
<1>9. TypeOK'
  BY <1>1, <1>3, <1>6, <1>7, <1>8 DEF TypeOK
<1>10. ExecInv(e)'
  <2>1. /\ req'[e] = req[e] /\ call'[e] = call[e] /\ frame'[e] = frame[e]
        /\ outer'[e] = outer[e] /\ failed'[e] = failed[e]
    BY <1>3, <1>4, <1>8
  <2>2. FramesOK(e)' /\ FailureOK(e)'
    BY <1>1, <2>1, SameLists DEF ExecInv
  <2>3. PlaceOK(e)'
    BY <1>1, <1>6, <2>1 DEF ExecInv, PlaceOK, Over
  <2>4. QED
    BY <1>7, <2>2, <2>3 DEF ExecInv
<1>11. ASSUME NEW d \in Execs \ {c, e} PROVE ExecInv(d)'
  BY <1>1, <1>3, <1>6, <1>7, <1>8, Untouched
<1>12. QED
  BY <1>8, <1>9, <1>10, <1>11 DEF IInv

\* The call returns: the caller's own state, and one more cancelled context.
LEMMA ReturnInv ==
    ASSUME IInv, NEW e \in Execs, NEW outcome \in Outcomes, Return(e, outcome),
           outcome = "success" => pc[e] = "ended" /\ AllTrue(frame[e].oks)
    PROVE  IInv'
<1>1. TypeOK /\ (\A d \in Execs : ExecInv(d)) /\ call[e] = "waiting"
  BY DEF IInv, Return
<1>2. /\ call' = [call EXCEPT ![e] = outcome] /\ cancelled' = cancelled \cup {e}
      /\ UNCHANGED <<req, pc, frame, outer, tries, child, doomed, late, stray, failed>>
  BY DEF Return
<1>3. call'[e] = outcome /\ \A d \in Execs \ {e} : call'[d] = call[d]
  BY <1>1, <1>2 DEF TypeOK
<1>4. TypeOK'
  BY <1>1, <1>2 DEF TypeOK
<1>5. FramesOK(e)' /\ FailureOK(e)'
  BY <1>1, <1>2, SameLists DEF ExecInv
<1>6. PlaceOK(e)'
  BY <1>1, <1>2, <1>3 DEF ExecInv, PlaceOK, Over, AllTrue
<1>7. LateOK(e)'
  BY <1>1, <1>2 DEF ExecInv, LateOK, Stopped
<1>8. ASSUME NEW d \in Execs \ {e} PROVE ExecInv(d)'
  BY <1>1, <1>2, <1>3, Untouched
<1>9. QED
  BY <1>4, <1>5, <1>6, <1>7, <1>8 DEF IInv, ExecInv

LEMMA CallInv ==
    ASSUME IInv, NEW e \in Execs, CallEnds(e) \/ CallTimeout(e)
    PROVE  IInv'
<1>1. {"success", "failure", "aborted", "timedout"} \subseteq Outcomes
  BY DEF Outcomes
<1>2. CASE CallDone(e)
  <2>1. CASE AllTrue(frame[e].oks)
    BY <1>1, <1>2, <2>1, ReturnInv DEF CallDone
  <2>2. CASE ~AllTrue(frame[e].oks)
    BY <1>1, <1>2, <2>2, ReturnInv DEF CallDone
  <2>3. QED
    BY <2>1, <2>2
<1>3. CASE CallAborted(e)
  BY <1>1, <1>3, ReturnInv DEF CallAborted
<1>4. CASE CallTimeout(e)
  BY <1>1, <1>4, ReturnInv DEF CallTimeout
<1>5. QED
  BY <1>2, <1>3, <1>4 DEF CallEnds

LEMMA PressInv ==
    ASSUME IInv, Press
    PROVE  IInv'
<1>1. TypeOK /\ \A d \in Execs : ExecInv(d)
  BY DEF IInv
<1>2. /\ doomed' = doomed \cup {e \in Execs : call[e] = "waiting"}
      /\ UNCHANGED <<req, call, pc, frame, outer, tries, child, cancelled, late, stray, failed>>
  BY DEF Press
<1>3. TypeOK'
  BY <1>1, <1>2 DEF TypeOK
<1>4. ASSUME NEW d \in Execs PROVE ExecInv(d)'
  BY <1>1, <1>2, Untouched
<1>5. QED
  BY <1>3, <1>4 DEF IInv

LEMMA NextInv == IInv /\ [Next]_vars => IInv'
<1> SUFFICES ASSUME IInv, [Next]_vars PROVE IInv'
  OBVIOUS
<1>1. CASE Press
  BY <1>1, PressInv
<1>2. CASE UNCHANGED vars
  <2>1. TypeOK'
    BY <1>2 DEF IInv, TypeOK, vars
  <2>2. ASSUME NEW d \in Execs PROVE ExecInv(d)'
    BY <1>2, Untouched DEF IInv, vars
  <2>3. QED
    BY <2>1, <2>2 DEF IInv
<1>3. ASSUME NEW e \in Execs, ChainHandler(e) PROVE IInv'
  BY <1>3, ChainHandlerInv
<1>4. ASSUME NEW e \in Execs, CallEnds(e) \/ CallTimeout(e) PROVE IInv'
  BY <1>4, CallInv
<1>5. ASSUME NEW e \in Execs, Worker(e) PROVE IInv'
  <2>1. CASE CheckStop(e)
    BY <2>1, CheckStopInv
  <2>2. CASE RefuseStep(e)
    BY <2>2, RefuseStepInv
  <2>3. CASE InstantStep(e)
    BY <2>3, InstantStepInv
  <2>4. CASE BeginTool(e)
    BY <2>4, BeginToolInv
  <2>5. CASE EnterBranch(e) \/ EnterLoop(e)
    BY <2>5, EnterInv
  <2>6. CASE Replicate(e)
    BY <2>6, ReplicateInv
  <2>7. CASE ReplicateReturns(e)
    BY <2>7, ReplicateReturnsInv
  <2>8. CASE LeaveSteps(e)
    BY <2>8, LeaveStepsInv
  <2>9. CASE EndWorker(e)
    BY <2>9, EndWorkerInv
  <2>10. QED
    BY <1>5, <2>1, <2>2, <2>3, <2>4, <2>5, <2>6, <2>7, <2>8, <2>9 DEF Worker, Begin
<1>6. ASSUME NEW e \in Execs, Tool(e) PROVE IInv'
  BY <1>6, EndToolInv, BusyInv DEF Tool
<1>7. QED
  BY <1>1, <1>2, <1>3, <1>4, <1>5, <1>6 DEF Next, Quiet

THEOREM Invariance == Spec => []IInv
<1>1. QED
  BY InitInv, NextInv, PTL DEF Spec

----------------------------------------------------------------------------
(* What follows                                                            *)

\* The executor's state is well typed whatever the programs are.
THEOREM TypeCorrect == Spec => []TypeOK
<1>1. IInv => TypeOK
  BY DEF IInv
<1>2. QED
  BY <1>1, Invariance, PTL

\* execSteps begins at most one step after its abort or timeout.
THEOREM StopsAtBoundary == Spec => []StepBoundary
<1>1. IInv => StepBoundary
  BY DEF IInv, ExecInv, LateOK, StepBoundary
<1>2. QED
  BY <1>1, Invariance, PTL

\* ExecuteChain answers success only about a request all of whose steps succeeded.
THEOREM SuccessComplete == Spec => []SuccessIsComplete
<1>1. ASSUME IInv, NEW e \in Execs, call[e] = "success"
      PROVE  AllTrue(frame[e].oks) /\ Len(frame[e].oks) = Len(req[e].steps)
  <2>1. AllTrue(frame[e].oks) /\ outer[e] = <<>> /\ Over(frame[e])
    BY <1>1 DEF IInv, ExecInv, PlaceOK
  <2>2. FrameOK(frame[e], req[e].stop) /\ frame[e].steps = req[e].steps
    BY <1>1, <2>1 DEF IInv, ExecInv, FramesOK, RootSteps
  <2>3. frame[e].i \in Nat /\ frame[e].steps \in Seq(StepIds) /\ Len(frame[e].steps) \in Nat
    BY <1>1 DEF IInv, TypeOK, FrameType
  <2>4. QED
    BY <2>1, <2>2, <2>3 DEF FrameOK, Over
<1>2. IInv => SuccessIsComplete
  BY <1>1 DEF SuccessIsComplete
<1>3. QED
  BY <1>2, Invariance, PTL

\* With on_error=stop nothing follows a failure in a list of steps.
THEOREM FailureEnds == Spec => []FailureEndsList
<1>1. ASSUME IInv, NEW e \in Execs, req[e].stop,
             NEW f \in {frame[e]} \cup {outer[e][k] : k \in 1..Len(outer[e])}
      PROVE  \A j \in 1..Len(f.oks) : ~f.oks[j] => j = Len(f.oks) /\ Over(f)
  <2>1. FrameOK(f, req[e].stop)
    BY <1>1 DEF IInv, ExecInv, FramesOK, SurroundOK
  <2>2. QED
    BY <1>1, <2>1 DEF FrameOK
<1>2. IInv => FailureEndsList
  BY <1>1 DEF FailureEndsList
<1>3. QED
  BY <1>2, Invariance, PTL

\* With on_error=stop a failure outside if branches is never answered with success.
THEOREM FailuresAnswered == Spec => []FailuresReported
<1>1. IInv => FailuresReported
  BY DEF IInv, ExecInv, PlaceOK, FailureOK, FailuresReported
<1>2. QED
  BY <1>1, Invariance, PTL
=============================================================================
