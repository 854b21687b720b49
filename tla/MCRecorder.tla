----------------------------- MODULE MCRecorder -----------------------------
(* Tool calls for checking Recorder, in no particular order. *)
EXTENDS Recorder

MCCalls == 1..4
MCOp == <<"timed_record", "record", "keylogger_stop", "record_stop">>
MCOpMixed == <<"record", "keylogger_start", "keylogger_stop", "record_stop">>

\* A call is over before the next begins; timers run beside them.
Sequential ==
    \A c, d \in Calls :
        {pc[c], pc[d]} \cap {"idle", "sleep", "done"} = {} => c = d
=============================================================================
