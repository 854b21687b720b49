----------------------------- MODULE Clipboard -----------------------------
(* get_clipboard and set_clipboard (system.go) under WithTimeout (timeout.go): *)
(* the call waits for its function until the timeout, the function goes on.   *)
(* Windows lets one thread at a time open the clipboard, this program's or    *)
(* another application's.                                                     *)
EXTENDS Naturals

CONSTANTS ClipCalls,            \* calls of the two tools
          ClipRequests,         \* what they ask: [tool, text], "" to read
          ClipTexts,            \* what the user copies elsewhere
          Cut(_),               \* what 4096 units hold of a text
          MaxTries,             \* attempts to open it
          MaxCopies, MaxRefusals    \* bounds: other applications, refusals of Windows

ASSUME ClipBounds == MaxTries \in Nat \ {0} /\ MaxCopies \in Nat /\ MaxRefusals \in Nat
ASSUME ClipToolsAssumption == \A request \in ClipRequests : request.tool \in {"get", "set"}
ASSUME ClipOwnersAssumption == {"nobody", "other"} \cap ClipCalls = {}

VARIABLES clip,                 \* the text it holds, "" for none
          openBy,               \* who has it open
          clipCall,             \* call -> its function and its answer
          found,                \* call -> what the clipboard held since it began, whenever nobody had it open
          copies, refused       \* other applications' copies; calls Windows refused something

clipVars == <<clip, openBy, clipCall, found, copies, refused>>
NoClipCall == [tool |-> "none", text |-> "", at |-> "idle", tries |-> 0, err |-> "none", answer |-> "none"]

ClipInit ==
  /\ clip \in ClipTexts /\ openBy = "nobody"
  /\ clipCall = [c \in ClipCalls |-> NoClipCall] /\ found = [c \in ClipCalls |-> {}]
  /\ copies = 0 /\ refused = {}

-----------------------------------------------------------------------------
(* WithTimeout: the function runs in a goroutine of its own and leaves its    *)
(* error in a channel with room for it; the caller takes that or gives up.    *)
WithTimeout(c) ==
  /\ clipCall[c].at = "idle"
  /\ \E request \in ClipRequests :
       clipCall' = [clipCall EXCEPT ![c] = [tool |-> request.tool, text |-> request.text, at |-> "opening",
                                            tries |-> 0, err |-> "none", answer |-> "waiting"]]
  /\ found' = [found EXCEPT ![c] = IF openBy = "nobody" THEN {clip} ELSE {}]
  /\ UNCHANGED <<clip, openBy, copies, refused>>

TakeError(c) ==
  /\ clipCall[c].answer = "waiting" /\ clipCall[c].at = "ended"
  /\ clipCall' = [clipCall EXCEPT ![c].answer = clipCall[c].err]
  /\ UNCHANGED <<clip, openBy, found, copies, refused>>

TimesOut(c) ==
  /\ clipCall[c].answer = "waiting"
  /\ clipCall' = [clipCall EXCEPT ![c].answer = "timeout"]
  /\ UNCHANGED <<clip, openBy, found, copies, refused>>

(* openClipboardWithRetry.                                                    *)
OpenClipboard(c) ==
  /\ clipCall[c].at = "opening" /\ openBy = "nobody"
  /\ openBy' = c /\ clipCall' = [clipCall EXCEPT ![c].at = "open"]
  /\ UNCHANGED <<clip, found, copies, refused>>

\* Mutant: after the last attempt it goes on as if the clipboard were open.
OpenAnyway(c) ==
  /\ clipCall[c].at = "opening" /\ openBy # "nobody"
  /\ clipCall' = [clipCall EXCEPT ![c].tries = @ + 1, ![c].at = IF clipCall[c].tries + 1 = MaxTries THEN "open" ELSE "opening"]
  /\ UNCHANGED <<clip, openBy, found, copies, refused>>
OpenHeld(c) ==
  /\ clipCall[c].at = "opening" /\ openBy # "nobody"
  /\ clipCall' = IF clipCall[c].tries + 1 = MaxTries
                   THEN [clipCall EXCEPT ![c].tries = MaxTries, ![c].at = "ended", ![c].err = "held"]
                   ELSE [clipCall EXCEPT ![c].tries = @ + 1]
  /\ UNCHANGED <<clip, openBy, found, copies, refused>>

(* The function of GetClipboardText: no data and a refused lock read as an    *)
(* empty text.                                                                *)
GetText(c) ==
  /\ clipCall[c].at = "open" /\ clipCall[c].tool = "get"
  /\ clipCall' = [clipCall EXCEPT ![c].text = Cut(clip), ![c].at = "closing", ![c].err = "ok"]
  /\ UNCHANGED <<clip, openBy, found, copies, refused>>

GetRefused(c) ==
  /\ clipCall[c].at = "open" /\ clipCall[c].tool = "get" /\ refused' = refused \cup {c}
  /\ clipCall' = [clipCall EXCEPT ![c].at = "closing", ![c].err = "ok"]
  /\ UNCHANGED <<clip, openBy, found, copies>>

(* The function of SetClipboardText: it empties the clipboard first.  When    *)
(* memory is refused its error is whatever the thread's last error was, none  *)
(* included; a refused SetClipboardData goes unnoticed.                       *)
EmptyClipboard(c) ==
  /\ clipCall[c].at = "open" /\ clipCall[c].tool = "set"
  /\ clip' = IF openBy = c THEN "" ELSE clip
  /\ clipCall' = [clipCall EXCEPT ![c].at = "emptied"]
  /\ UNCHANGED <<openBy, found, copies, refused>>

SetText(c) ==
  /\ clipCall[c].at = "emptied"
  /\ clip' = IF openBy = c THEN clipCall[c].text ELSE clip
  /\ clipCall' = [clipCall EXCEPT ![c].at = "closing", ![c].err = "ok"]
  /\ UNCHANGED <<openBy, found, copies, refused>>

SetRefused(c) ==
  /\ clipCall[c].at = "emptied" /\ refused' = refused \cup {c}
  /\ \E err \in {"ok", "memory"} : clipCall' = [clipCall EXCEPT ![c].at = "closing", ![c].err = err]
  /\ UNCHANGED <<clip, openBy, found, copies>>

(* Closed, it holds what it holds for everybody.                              *)
Shut == openBy' = "nobody" /\ found' = [d \in ClipCalls |-> IF clipCall[d].at = "idle" THEN {} ELSE found[d] \cup {clip}]
CloseClipboard(c) ==
  /\ clipCall[c].at = "closing"
  /\ IF openBy = c THEN Shut ELSE UNCHANGED <<openBy, found>>
  /\ clipCall' = [clipCall EXCEPT ![c].at = "ended"]
  /\ UNCHANGED <<clip, copies, refused>>

(* Another application opens it, sets a text and closes it again.             *)
OtherOpens == openBy = "nobody" /\ copies < MaxCopies /\ openBy' = "other" /\ UNCHANGED <<clip, clipCall, found, copies, refused>>
OtherSets == openBy = "other" /\ clip' \in ClipTexts /\ UNCHANGED <<openBy, clipCall, found, copies, refused>>
OtherCloses == openBy = "other" /\ Shut /\ copies' = copies + 1 /\ UNCHANGED <<clip, clipCall, refused>>

ClipNext ==
  \/ \E c \in ClipCalls :
       \/ WithTimeout(c) \/ TakeError(c) \/ TimesOut(c) \/ OpenClipboard(c) \/ OpenHeld(c) \/ GetText(c)
       \/ EmptyClipboard(c) \/ SetText(c) \/ CloseClipboard(c)
       \/ MaxRefusals > 0 /\ refused = {} /\ (GetRefused(c) \/ SetRefused(c))
  \/ OtherOpens \/ OtherSets \/ OtherCloses
ClipSpec == ClipInit /\ [][ClipNext]_clipVars

-----------------------------------------------------------------------------
(* What somebody meant to put on it.                                          *)
Meant == ClipTexts \cup {request.text : request \in {r \in ClipRequests : r.tool = "set"}}
ClipHolds == Meant \cup {""}
ClipSays == ClipHolds \cup {Cut(t) : t \in ClipHolds} \cup {request.text : request \in ClipRequests}
ClipStates ==
  [tool : {"none", "get", "set"}, text : ClipSays,
   at : {"idle", "opening", "open", "emptied", "closing", "ended"}, tries : 0..MaxTries,
   err : {"none", "ok", "held", "memory"}, answer : {"none", "waiting", "timeout", "ok", "held", "memory"}]

ClipTypeOK ==
  /\ clip \in ClipHolds /\ openBy \in ClipCalls \cup {"nobody", "other"}
  /\ clipCall \in [ClipCalls -> ClipStates] /\ found \in [ClipCalls -> SUBSET ClipHolds]
  /\ copies \in 0..MaxCopies /\ refused \subseteq ClipCalls

(* Whatever times out meanwhile: a text that get_clipboard returns was on the *)
(* clipboard during the call; a text that set_clipboard reports set was there *)
(* for others to read; a call told that another application holds the         *)
(* clipboard leaves no trace later; nobody else finds it emptied and not      *)
(* filled; and no function leaves it open.                                    *)
ReadWhole(c) == clipCall[c].tool = "get" /\ clipCall[c].answer = "ok" => \E t \in found[c] : clipCall[c].text = Cut(t)
SetStood(c) == clipCall[c].tool = "set" /\ clipCall[c].answer = "ok" => clipCall[c].text \in found[c]
HeldLeft(c) == clipCall[c].answer = "held" => clipCall[c].at = "ended" /\ openBy # c
NeverLeftEmpty == openBy = "nobody" => clip \in Meant
ClipboardAnswers ==
  /\ \A c \in ClipCalls \ refused : ReadWhole(c) /\ SetStood(c)
  /\ \A c \in ClipCalls : HeldLeft(c) /\ (openBy = c => clipCall[c].at \in {"open", "emptied", "closing"})
  /\ refused = {} => NeverLeftEmpty
=============================================================================
