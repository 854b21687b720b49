-------------------------- MODULE NativeResources --------------------------
(* What the tools take from Windows and give back: interface references and   *)
(* strings of WinRT (winrt.go, ocr_com.go, ocr.go), references, conditions    *)
(* and BSTRs of UI Automation (uia_com.go, uia.go), GDI objects               *)
(* (screenshot.go), handles (process.go), tensors and sessions (onnx.go).     *)
(* Nothing is collected: each function releases by defer or by hand on every  *)
(* path.  A function is written here as the sequence of the steps that take,  *)
(* use or release something; any step that asks Windows may fail.             *)
EXTENDS Integers, Sequences, FiniteSets, TLC
LOCAL INSTANCE SequencesExt

CONSTANTS NativeTools,              \* the functions that tools call
          MaxItems,                 \* lines, words, elements, polls: how many in one call
          MaxNativeCalls

ASSUME NativeBounds == MaxItems \in Nat \ {0} /\ MaxNativeCalls \in Nat

VARIABLES frames,                   \* the functions running, outermost first
          refs,                     \* what the call holds: <<number, kind>>
          taken,                    \* how many things the call has taken
          misused,                  \* something was used or released after its release
          answer,                   \* the last call's outcome
          criteria,                 \* what the call searches for: name, id, type, or a language
          inits,                    \* ensureRo, ensureCOM, the MobileNet session: "new", "ok", "failed"
          nativeCalls
nativeVars == <<frames, refs, taken, misused, answer, criteria, inits, nativeCalls>>

-----------------------------------------------------------------------------
(* The steps.  Ask takes a thing of a kind, called x from there on, using     *)
(* others; when it fails it releases undo and ends the function with the      *)
(* error, or goes on without ("pass").  "none": the search found nothing, and *)
(* the function ends without error.                                           *)
AskFor(x, kind, with, undo, may) == [do |-> "ask", x |-> x, kind |-> kind, with |-> with, undo |-> undo, may |-> may]
Ask(x, kind, with) == AskFor(x, kind, with, <<>>, {"ok", "err"})
Use(with) == Ask("", "", with)
Defer(x) == [do |-> "defer", x |-> x]
Drop(x) == [do |-> "free", x |-> x]
Held(x, kind, with) == <<Ask(x, kind, with), Defer(x)>>
CallFor(x, fn, args, undo, may) == [do |-> "call", x |-> x, fn |-> fn, args |-> args, undo |-> undo, may |-> may]
Call(x, fn, args) == CallFor(x, fn, args, <<>>, {"err"})
HeldCall(x, fn, args) == <<Call(x, fn, args), Defer(x)>>
(* Calls fn again and again: ends the function with fn's outcome if that is   *)
(* in stop, goes on after limit calls, or earlier if the list may be shorter. *)
Repeat(fn, args, limit, stop, early) ==
  [do |-> "repeat", x |-> "", fn |-> fn, args |-> args, limit |-> limit, stop |-> stop, early |-> early, may |-> {}]
Each(fn, args) == Repeat(fn, args, MaxItems, {}, TRUE)
OnlyOnce(what) == [do |-> "once", what |-> what]
CacheFor(x) == [do |-> "cached", keep |-> x]
Return(x) == [do |-> "return", x |-> x, status |-> "ok"]
NotFound == [do |-> "return", x |-> "", status |-> "none"]
Fail == [do |-> "fail", undo |-> <<>>]
None == <<>>                        \* no arguments

-----------------------------------------------------------------------------
(* WinRT.                                                                     *)
windowsCreateString(x) == Held(x, "hstring", {})
roGetActivationFactory(class) == windowsCreateString(class) \o Held("factory", "object", {class})
qei(x, of) == Ask(x, "object", {of})
hstringToString(h) == Use({h})
(* Polls the operation's status until it ends, fails or 60 s have passed.     *)
waitForAsync == <<qei("info", "op"), Defer("info"), Use({"info"}), Return("")>>
getAsyncObj == <<Call("", "waitForAsync", [op |-> "op"]), Ask("got", "object", {"op"}), Return("got")>>
Async(x, with) == Held("op", "object", with) \o <<Call(x, "getAsyncObj", [op |-> "op"])>>
callStringGetter == Held("h", "hstring", {"of"}) \o <<hstringToString("h"), Return("")>>
SizedView == <<Ask("view", "object", {"of"}), AskFor("", "", {"view"}, <<"view">>, {"ok", "err"}), Return("view")>>

createLanguage ==
  roGetActivationFactory("class") \o windowsCreateString("tag") \o
  <<Ask("language", "object", {"factory", "tag"}), Return("language")>>
openStorageFile ==
  roGetActivationFactory("class") \o windowsCreateString("path") \o Async("object", {"factory", "path"}) \o
  <<Defer("object"), qei("file", "object"), Return("file")>>
openStream == Async("stream", {"file"}) \o <<Return("stream")>>
createDecoder ==
  roGetActivationFactory("class") \o Async("object", {"factory", "stream"}) \o
  <<Defer("object"), qei("frame", "object"), Return("frame")>>
getSoftwareBitmap == Async("bitmap", {"frame"}) \o <<Return("bitmap")>>
createOcrEngine ==
  roGetActivationFactory("class") \o
  (IF criteria = {} THEN <<Ask("engine", "object", {"factory"})>>
   ELSE HeldCall("language", "createLanguage", None) \o <<Ask("engine", "object", {"factory", "language"})>>) \o
  <<Return("engine")>>
recognizeOcr == Async("result", {"engine", "bitmap"}) \o <<Return("result")>>
ocrWord ==
  <<Ask("word", "object", {"words"}),
    CallFor("", "callStringGetter", [of |-> "word"], <<"word">>, {"err"}),
    AskFor("", "", {"word"}, <<"word">>, {"ok", "err"}), Drop("word"), Return("")>>
ocrLine ==
  <<Ask("line", "object", {"lines"}),
    CallFor("", "callStringGetter", [of |-> "line"], <<"line">>, {"err"}),
    CallFor("words", "SizedView", [of |-> "line"], <<"line">>, {"err"}),
    Each("ocrWord", [words |-> "words"]), Drop("words"), Drop("line"), Return("")>>
ocrNative ==
  <<OnlyOnce("ro")>> \o
  HeldCall("file", "openStorageFile", None) \o HeldCall("stream", "openStream", [file |-> "file"]) \o
  HeldCall("frame", "createDecoder", [stream |-> "stream"]) \o HeldCall("bitmap", "getSoftwareBitmap", [frame |-> "frame"]) \o
  HeldCall("engine", "createOcrEngine", None) \o
  HeldCall("result", "recognizeOcr", [engine |-> "engine", bitmap |-> "bitmap"]) \o
  <<Call("", "callStringGetter", [of |-> "result"])>> \o HeldCall("lines", "SizedView", [of |-> "result"]) \o
  <<Each("ocrLine", [lines |-> "lines"]), Return("")>>
(* The PowerShell way, three times, once the native way has failed.           *)
ocrExec == Held("script", "file", {}) \o <<Use({"image", "script"}), Return("")>>
ocrFromBase64 ==
  Held("image", "file", {}) \o
  <<Repeat("ocrNative", None, 1, {"ok"}, FALSE), Repeat("ocrExec", [image |-> "image"], 3, {"ok"}, FALSE), Fail>>
listedLanguage ==
  <<Ask("language", "object", {"view"})>> \o
  [n \in 1..3 |-> CallFor("", "callStringGetter", [of |-> "language"], <<>>, {"pass"})] \o
  <<Drop("language"), Return("")>>
OcrLanguages ==
  <<OnlyOnce("ro")>> \o roGetActivationFactory("class") \o Held("view", "object", {"factory"}) \o
  <<Use({"view"}), Each("listedLanguage", [view |-> "view"]), Return("")>>

-----------------------------------------------------------------------------
(* UI Automation.  The VARIANT that a property's value comes in is never      *)
(* cleared: its BSTR or safe array stays.                                     *)
newUIA == <<OnlyOnce("com")>> \o Held("au", "object", {})
getRootElement == Held("root", "object", {"au"})
createTrueCondition == Held("cond", "condition", {"au"})
createPropertyCondition(c, with, undo) == AskFor(c, "condition", {"au"} \cup with, undo, {"ok", "err"})
bstrAlloc(x) == Ask(x, "bstr", {})
elementFromPoint == Held("e", "object", {"au"})
elementFromHandle == Held("window", "object", {"au"})
findFirst(scope, undo) == AskFor("e", "object", {scope, "cond"}, undo, {"ok", "err", "none"})
findAll(scope) == Ask("all", "object", {scope, "cond"})
getCurrentPattern == Held("pattern", "object", {"e"})
getPropValue(x, kind) == AskFor(x, kind, {"e"}, <<>>, {"ok", "pass"})
getBoundingRect == getPropValue("rect", "array")
toElement == <<getPropValue("name", "variant"), getPropValue("id", "variant"), getPropValue("", ""), getBoundingRect, Return("")>>
\* Mutant: the string stays when the condition cannot be made.
TextConditionKeepsText(c) ==
  LET v == "text " \o c
  IN <<bstrAlloc(v), createPropertyCondition(c, {v}, <<>>), Drop(v)>>
TextCondition(c) ==
  LET v == "text " \o c
  IN <<bstrAlloc(v), createPropertyCondition(c, {v}, <<v>>), Drop(v)>>
(* Two conditions at most are joined; a failure leaves the earlier ones.      *)
buildCondition ==
  LET wanted == SelectSeq(<<"name", "id", "type">>, LAMBDA c : c \in criteria)
      made == FlattenSeq([n \in 1..Len(wanted) |->
                            IF wanted[n] = "type" THEN <<createPropertyCondition("type", {}, <<>>)>> ELSE TextCondition(wanted[n])])
  IN made \o (CASE Len(wanted) = 0 -> <<Fail>>
                [] Len(wanted) = 1 -> <<Return(wanted[1])>>
                [] OTHER -> <<Ask("both", "condition", {"au", wanted[1], wanted[2]})>> \o
                            [n \in 1..Len(wanted) |-> Drop(wanted[n])] \o <<Return("both")>>)
listedElement == <<Ask("e", "object", {"all"}), Call("", "toElement", [e |-> "e"]), Drop("e"), Return("")>>
ListedElements == <<Defer("all"), Each("listedElement", [all |-> "all"]), Return("")>>
UIAFindElement ==
  newUIA \o getRootElement \o HeldCall("cond", "buildCondition", [au |-> "au"]) \o
  (IF criteria = {"type"} THEN <<findAll("root")>> \o ListedElements
   ELSE <<findFirst("root", <<>>), Defer("e"), Call("", "toElement", [e |-> "e"]), Return("")>>)
TextElement ==
  newUIA \o getRootElement \o TextCondition("cond") \o
  <<Defer("cond"), findFirst("root", <<>>), Defer("e")>>
getValue == getCurrentPattern \o Held("value", "bstr", {"pattern"}) \o <<Return("")>>
setValue == getCurrentPattern \o <<bstrAlloc("value"), Defer("value")>> \o <<Use({"pattern", "value"}), Return("")>>
invoke == getCurrentPattern \o <<Use({"pattern"}), Return("")>>
UIAGetText == TextElement \o <<CallFor("", "getValue", [e |-> "e"], <<>>, {"pass"}), Return("")>>
UIASetText == TextElement \o <<Call("", "setValue", [e |-> "e"]), Return("")>>
UIAInvoke == TextElement \o <<CallFor("", "invoke", [e |-> "e"], <<>>, {"pass"}), Return("")>>
UIAElementFromPoint == newUIA \o elementFromPoint \o <<Call("", "toElement", [e |-> "e"]), Return("")>>
UIAGetAllElements ==
  newUIA \o elementFromHandle \o createTrueCondition \o <<findAll("window")>> \o ListedElements
pollElement ==
  <<Call("cond", "buildCondition", [au |-> "au"]),
    findFirst("window", <<"cond">>), Drop("cond"),
    Call("", "toElement", [e |-> "e"]), Drop("e"), Return("")>>
WaitForUIElement ==
  newUIA \o elementFromHandle \o
  <<Repeat("pollElement", [au |-> "au", window |-> "window"], MaxItems, {"ok", "err"}, TRUE), Fail>>
WarmupUIA == newUIA \o getRootElement \o createTrueCondition \o <<Return("")>>

-----------------------------------------------------------------------------
(* GDI, handles, ONNX.                                                        *)
CaptureRegion ==
  Held("screen", "dc", {}) \o Held("memory", "dc", {"screen"}) \o Held("bitmap", "bitmap", {"screen"}) \o
  <<Use({"screen", "memory", "bitmap"}), Return("")>>
ListProcesses == Held("snapshot", "handle", {}) \o <<Use({"snapshot"}), Return("")>>
KillProcess == Held("process", "handle", {}) \o <<Use({"process"}), Return("")>>
ONNXDetect ==
  Held("input", "tensor", {}) \o Held("output", "tensor", {}) \o Held("session", "session", {"input", "output"}) \o
  <<Use({"session"}), Return("")>>
(* The classifier's session is made once and kept.                            *)
ClassifyImage ==
  <<CacheFor(<<>>), Ask("input", "tensor", {}),
    AskFor("output", "tensor", {}, <<"input">>, {"ok", "err"}),
    AskFor("session", "session", {"input", "output"}, <<"input", "output">>, {"ok", "err"}),
    CacheFor(<<"input", "output", "session">>), Use({}), Return("")>>

Body(fn) ==
  CASE fn = "waitForAsync" -> waitForAsync [] fn = "getAsyncObj" -> getAsyncObj
    [] fn = "callStringGetter" -> callStringGetter [] fn = "SizedView" -> SizedView
    [] fn = "createLanguage" -> createLanguage [] fn = "openStorageFile" -> openStorageFile
    [] fn = "openStream" -> openStream [] fn = "createDecoder" -> createDecoder
    [] fn = "getSoftwareBitmap" -> getSoftwareBitmap [] fn = "createOcrEngine" -> createOcrEngine
    [] fn = "recognizeOcr" -> recognizeOcr [] fn = "ocrWord" -> ocrWord [] fn = "ocrLine" -> ocrLine
    [] fn = "ocrNative" -> ocrNative [] fn = "ocrExec" -> ocrExec [] fn = "ocrFromBase64" -> ocrFromBase64
    [] fn = "listedLanguage" -> listedLanguage [] fn = "OcrLanguages" -> OcrLanguages
    [] fn = "toElement" -> toElement [] fn = "buildCondition" -> buildCondition
    [] fn = "listedElement" -> listedElement [] fn = "UIAFindElement" -> UIAFindElement
    [] fn = "getValue" -> getValue [] fn = "setValue" -> setValue [] fn = "invoke" -> invoke
    [] fn = "UIAGetText" -> UIAGetText [] fn = "UIASetText" -> UIASetText [] fn = "UIAInvoke" -> UIAInvoke
    [] fn = "UIAElementFromPoint" -> UIAElementFromPoint [] fn = "UIAGetAllElements" -> UIAGetAllElements
    [] fn = "pollElement" -> pollElement [] fn = "WaitForUIElement" -> WaitForUIElement
    [] fn = "WarmupUIA" -> WarmupUIA [] fn = "CaptureRegion" -> CaptureRegion
    [] fn = "ListProcesses" -> ListProcesses [] fn = "KillProcess" -> KillProcess
    [] fn = "ONNXDetect" -> ONNXDetect [] fn = "ClassifyImage" -> ClassifyImage

-----------------------------------------------------------------------------
Frame(fn, env) == [fn |-> fn, at |-> 1, env |-> env, defers |-> <<>>, rounds |-> 0, failed |-> FALSE]
Top == frames[Len(frames)]
Step == Body(Top.fn)[Top.at]
Values(xs) == [n \in 1..Len(xs) |-> Top.env[xs[n]]]
Advance(f) == [f EXCEPT !.at = @ + 1, !.rounds = 0]
WithTop(f) == [frames EXCEPT ![Len(frames)] = f]

Release(list) ==
  /\ refs' = refs \ ToSet(list)
  /\ misused' = (misused \/ ~(ToSet(list) \subseteq refs) \/ ~IsInjective(list))

(* The function ends: what it released by hand, then its deferred releases;   *)
(* the caller takes the outcome.                                              *)
Resume(f, status, value) ==
  LET s == Body(f.fn)[f.at]
      g == IF s.x # "" /\ status = "ok" THEN [f EXCEPT !.env = (s.x :> value) @@ @] ELSE f
  IN IF s.do = "repeat" THEN [g EXCEPT !.rounds = @ + 1, !.failed = status = "err" /\ "err" \in s.stop,
                                       !.at = IF status \in s.stop \ {"err"} THEN Len(Body(f.fn)) + 1 ELSE @]
     ELSE IF status = "err" /\ "pass" \notin s.may THEN [g EXCEPT !.failed = TRUE]
     ELSE Advance(g)
End(status, value, undo) ==
  LET callers == Front(frames)
  IN /\ Release(undo \o Reverse(Top.defers))
     /\ frames' = IF callers = <<>> THEN <<>> ELSE [callers EXCEPT ![Len(callers)] = Resume(@, status, value)]
     /\ answer' = IF callers = <<>> THEN status ELSE answer
     /\ UNCHANGED <<taken, criteria, inits, nativeCalls>>

NativeBegin(fn, searched) ==
  /\ frames = <<>> /\ nativeCalls < MaxNativeCalls
  /\ frames' = <<Frame(fn, <<>>)>> /\ refs' = {} /\ taken' = 0 /\ answer' = "running"
  /\ criteria' = searched /\ nativeCalls' = nativeCalls + 1
  /\ UNCHANGED <<misused, inits>>

Executing == frames # <<>> /\ ~Top.failed /\ Top.at <= Len(Body(Top.fn))
AskWindows(outcome) ==
  /\ Executing /\ Step.do = "ask" /\ outcome \in Step.may
  /\ LET s == Step  asked == {Top.env[x] : x \in s.with}
         got == <<taken + 1, s.kind>>
     IN /\ CASE outcome = "ok" /\ s.kind # "" ->
                   /\ frames' = WithTop(Advance([Top EXCEPT !.env = (s.x :> got) @@ @]))
                   /\ refs' = refs \cup {got} /\ taken' = taken + 1
             [] outcome = "err" -> frames' = WithTop([Top EXCEPT !.failed = TRUE]) /\ UNCHANGED <<refs, taken>>
             [] OTHER -> frames' = WithTop(Advance(Top)) /\ UNCHANGED <<refs, taken>>
        /\ outcome # "none"
        /\ misused' = (misused \/ ~(asked \subseteq refs))
        /\ UNCHANGED <<answer, criteria, inits, nativeCalls>>
NothingFound == Executing /\ Step.do = "ask" /\ "none" \in Step.may /\ End("none", <<>>, Values(Step.undo))
FunctionFails ==
  /\ frames # <<>> /\ (Top.failed \/ (Executing /\ Step.do = "fail"))
  /\ End("err", <<>>, IF Step.do \in {"ask", "call"} THEN Values(Step.undo) ELSE <<>>)
FunctionReturns ==
  /\ frames # <<>> /\ ~Top.failed
  /\ \/ Executing /\ Step.do = "return" /\ End("ok", IF Step.x = "" THEN <<>> ELSE Top.env[Step.x], <<>>)
     \/ ~Executing /\ End("ok", <<>>, <<>>)           \* a repetition that ended the function
DeferRelease ==
  /\ Executing /\ Step.do = "defer"
  /\ frames' = WithTop(Advance([Top EXCEPT !.defers = Append(@, Top.env[Step.x])]))
  /\ UNCHANGED <<refs, taken, misused, answer, criteria, inits, nativeCalls>>
FreeNow ==
  /\ Executing /\ Step.do = "free" /\ Release(<<Top.env[Step.x]>>)
  /\ frames' = WithTop(Advance(Top)) /\ UNCHANGED <<taken, answer, criteria, inits, nativeCalls>>
CallFunction ==
  /\ Executing /\ (Step.do = "call" \/ (Step.do = "repeat" /\ Top.rounds < Step.limit))
  /\ frames' = Append(frames, Frame(Step.fn, [x \in DOMAIN Step.args |-> Top.env[Step.args[x]]]))
  /\ UNCHANGED <<refs, taken, misused, answer, criteria, inits, nativeCalls>>
RepeatEnds ==
  /\ Executing /\ Step.do = "repeat" /\ (Step.early \/ Top.rounds = Step.limit)
  /\ frames' = WithTop(Advance(Top)) /\ UNCHANGED <<refs, taken, misused, answer, criteria, inits, nativeCalls>>
(* sync.Once: the first caller initialises, and its failure is everyone's.    *)
InitOnce(outcome) ==
  /\ Executing /\ Step.do = "once" /\ (inits[Step.what] = "new" \/ outcome = inits[Step.what])
  /\ inits' = [inits EXCEPT ![Step.what] = outcome]
  /\ frames' = WithTop(IF outcome = "ok" THEN Advance(Top) ELSE [Top EXCEPT !.failed = TRUE])
  /\ UNCHANGED <<refs, taken, misused, answer, criteria, nativeCalls>>
getMobilenetSession ==
  /\ Executing /\ Step.do = "cached"
  /\ LET ready == inits["session"] = "ok"  kept == ToSet(Values(Step.keep))
     IN /\ frames' = WithTop([Advance(Top) EXCEPT !.at = IF ready THEN 6 ELSE @])
        /\ inits' = IF kept # {} THEN [inits EXCEPT !["session"] = "ok"] ELSE inits
        /\ refs' = refs \ kept /\ misused' = (misused \/ ~(kept \subseteq refs))
  /\ UNCHANGED <<taken, answer, criteria, nativeCalls>>

NativeInit ==
  /\ frames = <<>> /\ refs = {} /\ taken = 0 /\ misused = FALSE /\ answer = "ok" /\ criteria = {} /\ nativeCalls = 0
  /\ inits = [what \in {"ro", "com", "session"} |-> "new"]
NativeNext ==
  \/ \E fn \in NativeTools, searched \in SUBSET {"name", "id", "type"} : NativeBegin(fn, searched)
  \/ \E outcome \in {"ok", "err", "pass"} : AskWindows(outcome)
  \/ NothingFound \/ FunctionFails \/ FunctionReturns \/ DeferRelease \/ FreeNow \/ CallFunction \/ RepeatEnds
  \/ \E outcome \in {"ok", "failed"} : InitOnce(outcome)
  \/ getMobilenetSession

-----------------------------------------------------------------------------
(* Nothing is used or released once it has been released, and when a call has *)
(* ended, well or with an error at any of its steps, all it took has been     *)
(* given back.  The exceptions are the code's: the value of a property that   *)
(* UI Automation returned (uia_com.go:266, 306, 438), and, after an error,    *)
(* the conditions buildCondition had already made (uia.go:74).                *)
GivenBack ==
  /\ ~misused
  /\ frames = <<>> => \A r \in refs : r[2] \in {"variant", "array"} \/ (r[2] = "condition" /\ answer = "err")
=============================================================================
