----------------------------- MODULE AbortSignal -----------------------------
(***************************************************************************)
(* What the chain-abort hotkey promises, without channels, pollers or      *)
(* locks: one press reaches every chain that is running at that moment,    *)
(* and no chain that starts later.  AbortPoller implements it.             *)
(***************************************************************************)
CONSTANT Chains

VARIABLES running,   \* the chains being executed
          doomed     \* those of them that were running when the hotkey fired

svars == <<running, doomed>>

Init == running = {} /\ doomed = {}

Begin(c) ==
    /\ c \notin running
    /\ running' = running \cup {c}
    /\ UNCHANGED doomed

\* The press is a broadcast: every running chain is told in one step.
Signal == doomed' = running /\ UNCHANGED running

\* A chain ends, because its worker is done or because it saw the signal.
End(c) ==
    /\ c \in running
    /\ running' = running \ {c}
    /\ doomed' = doomed \ {c}

Next == Signal \/ \E c \in Chains : Begin(c) \/ End(c)

Spec == Init /\ [][Next]_svars
=============================================================================
