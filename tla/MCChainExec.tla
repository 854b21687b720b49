---------------------------- MODULE MCChainExec ----------------------------
(* Programs for checking ChainExec: every kind of step, loops in branches  *)
(* and branches in loops, a replicate step, windows that cannot be focused.*)
EXTENDS ChainExec, TLC

MCStepIds == {"click", "look", "seen", "typed", "none", "idle", "front", "skipped",
              "if", "if2", "ifLoop", "loop", "loopIf", "replay", "replayNone"}

Plain(kind, body, other, times) ==
    [kind |-> kind, focus |-> FALSE, screen |-> FALSE,
     body |-> body, other |-> other, times |-> times]

MCStep == [s \in MCStepIds |->
    CASE s = "click"      -> Plain("tool", <<>>, <<>>, 1)
      [] s = "typed"      -> [Plain("tool", <<>>, <<>>, 1) EXCEPT !.focus = TRUE, !.screen = TRUE]
      [] s = "look"       -> Plain("observe", <<>>, <<>>, 1)
      [] s = "seen"       -> Plain("verify", <<>>, <<>>, 2)
      [] s = "none"       -> Plain("bad", <<>>, <<>>, 1)
      [] s = "idle"       -> Plain("loop", <<"click">>, <<>>, 0)
      [] s = "front"      -> [Plain("focus", <<>>, <<>>, 1) EXCEPT !.focus = TRUE]
      [] s = "skipped"    -> [Plain("observe", <<>>, <<>>, 1) EXCEPT !.focus = TRUE]
      [] s = "if"         -> Plain("branch", <<"click">>, <<"none">>, 1)
      [] s = "if2"        -> Plain("branch", <<"click", "look">>, <<>>, 1)
      [] s = "ifLoop"     -> Plain("branch", <<"loop">>, <<>>, 1)
      [] s = "loop"       -> Plain("loop", <<"click", "look">>, <<>>, 2)
      [] s = "loopIf"     -> Plain("loop", <<"if", "seen">>, <<>>, 2)
      [] s = "replay"     -> Plain("replicate", <<"click", "loop">>, <<>>, 1)
      [] s = "replayNone" -> Plain("replicate", <<>>, <<>>, 1)]

Req(steps, stop) == [steps |-> steps, stop |-> stop]

\* All kinds of steps, under both error policies.
AllRequests ==
    {Req(p, b) : p \in {<<"loopIf", "click">>, <<"ifLoop", "typed">>, <<"replay", "look">>,
                        <<"front", "idle", "none", "replayNone">>, <<"skipped", "seen">>},
                 b \in BOOLEAN}

Replays == {Req(<<"replay">>, TRUE)}

Focused == {Req(<<"typed", "skipped">>, TRUE), Req(<<"front", "loopIf">>, TRUE)}
=============================================================================
