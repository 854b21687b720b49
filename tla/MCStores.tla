------------------------------ MODULE MCStores ------------------------------
(* What outlives a call: the prediction ledger, facts and templates, what is  *)
(* looked for on the screen, the log file.  They share no state, so each      *)
(* behaviour exercises one of them, and their states add up instead of        *)
(* multiplying.                                                               *)
EXTENDS MCMLLedger, Memory, ScreenSearch, LogFile

MCTagTexts == {{}, {<<"ui", "tight">>, <<"b", "padded">>}}
MCScreenLeft == -20
MCLefts == {-30, 0, 40}

VARIABLE active
storeVars == <<active, vars, memVars, searchVars, logVars>>
StoresInit ==
  /\ active \in {"ledger", "memory", "search", "log"}
  /\ Init /\ MemoryInit
  /\ SearchInit /\ (active # "search" => left = 0)
  /\ LogInit
StoresNext ==
  \/ active = "ledger" /\ Next /\ UNCHANGED <<active, memVars, searchVars, logVars>>
  \/ active = "memory" /\ MemoryNext /\ UNCHANGED <<active, vars, searchVars, logVars>>
  \/ active = "search" /\ SearchNext /\ UNCHANGED <<active, vars, memVars, logVars>>
  \/ active = "log" /\ LogNext /\ UNCHANGED <<active, vars, memVars, searchVars>>
StoresSpec ==
  StoresInit /\ [][StoresNext]_storeVars /\ (\A c \in Clicks : WF_vars(Resolve(c))) /\ WF_searchVars(CallStep)

StoresTypeOK == TypeOK /\ MemoryTypeOK /\ SearchTypeOK

(* A click that has begun judges what it has read and ends, and so does a     *)
(* search, with a find or at its deadline.                                    *)
StoreCallsEnd == ClicksEnd /\ SearchEnds
=============================================================================
