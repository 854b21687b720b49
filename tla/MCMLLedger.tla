----------------------------- MODULE MCMLLedger -----------------------------
(* A screen of four places for checking MLLedger; 5 is off the screen.  The *)
(* radius is 1, so that 5 is near 4, within twice the radius of 3, and 2 is *)
(* within three times the radius of a prediction at 4 or 5.                *)
EXTENDS MLLedger

Guess(engine, tool, place) == [engine |-> engine, tool |-> tool, place |-> place]

MCPredictions == {Guess("statistical", "click", 4), Guess("transformer", "hover", 3),
                  Guess("transformer", "click", 0), Guess("statistical", "type", 2)}

\* One click is over before the next begins.
Sequential ==
    \A c, d \in Clicks :
        {pc[c], pc[d]} \cap {"idle", "done", "gone"} = {} => c = d
=============================================================================
