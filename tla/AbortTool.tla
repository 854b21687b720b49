------------------------------ MODULE AbortTool ------------------------------
(***************************************************************************)
(* The chain_abort tool (server.go chainAbortHandler, IsChainAborted in    *)
(* chainabort.go) beside the poller and the chains.                        *)
(***************************************************************************)
EXTENDS AbortPoller

VARIABLES check,    \* the channel a chain_abort request has read, 0 if none
          reports   \* how often a channel was reported closed (0, 1, 2 = more)

tvars == <<abortVars, check, reports>>

ToolTypeOK ==
    /\ check \in 0..MaxChans
    /\ reports \in [1..MaxChans -> 0..2]

ToolInit ==
    /\ AbortInit
    /\ check = 0
    /\ reports = [ch \in 1..MaxChans |-> 0]

\* IsChainAborted reads the channel under the lock ...
CheckRead ==
    /\ check = 0 /\ abortCh # 0
    /\ check' = abortCh
    /\ UNCHANGED <<abortVars, reports>>

\* ... and tests it outside: the tool answers whether the channel is closed.
CheckAnswerNoCap ==   \* mutant: answers without having read a channel
    /\ reports' = [ch \in 1..MaxChans \cup {check} |-> IF ch = check THEN 1 ELSE reports[ch]]
    /\ check' = 0
    /\ UNCHANGED abortVars

CheckAnswer ==
    /\ check # 0
    /\ reports' = IF check \in closedCh /\ reports[check] < 2
                    THEN [reports EXCEPT ![check] = @ + 1] ELSE reports
    /\ check' = 0
    /\ UNCHANGED abortVars

ToolNext ==
    \/ AbortNext /\ UNCHANGED <<check, reports>>
    \/ ~panicked /\ (CheckRead \/ CheckAnswer)

ToolSpec == ToolInit /\ [][ToolNext]_tvars

-----------------------------------------------------------------------------
\* What the hotkey's settings and chain_abort answer is so.  Between set_config
\* requests that come one at a time, the poller in force is the one configured; and
\* chain_abort answering true about the channel in force means that the press has
\* reached every chain in flight: none of them still waits for a signal.
AbortAnswers ==
    /\ ConfigInForce
    /\ \A ch \in 1..MaxChans : (reports[ch] > 0 /\ ch = abortCh) =>
          \A c \in Chains : Running(c) => chainCh[c] \in closedCh
=============================================================================
