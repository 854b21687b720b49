---------------------------- MODULE DesktopInput ----------------------------
(* The input tools: mouse.go, keyboard.go and the typing tools of chained.go  *)
(* under their handlers, with the look at the screen before and after and the *)
(* one slot that holds the latest click's validation.  SendInput takes one    *)
(* event at a time and nothing keeps two calls apart.                         *)
EXTENDS Integers, Sequences

CONSTANTS InputCallers,
          InputRequests,            \* what callers ask for
          ScreenPoints,             \* the virtual screen
          MaxInputCalls, MaxChanges

ASSUME InputBounds == MaxInputCalls \in Nat /\ MaxChanges \in Nat
ASSUME InputRequestsAssumption == \A r \in InputRequests :
  /\ r.tool \in {"click", "drag", "scroll", "move_mouse", "hover", "mouse_down", "mouse_up", "key_press", "key_down",
                 "key_up", "type", "type_and_submit", "select_all_and_type"}
  /\ r.tool = "click" => r.times \in Nat
  \* The first "+" of a key parts it in two.
  /\ r.tool = "key_press" => r.keys \in Seq(Seq(STRING)) /\ \A n \in 1..Len(r.keys) : Len(r.keys[n]) \in {1, 2}
  /\ r.tool \in {"type", "type_and_submit", "select_all_and_type"} => r.text \in Seq(STRING)

VARIABLES held, cursor,             \* keys and buttons that are down; the pointer
          kept,                     \* those that key_down and mouse_down left down
          elevated,                 \* the foreground window is an administrator's
          shown,                    \* what OCR reads
          changes,                  \* how often either has changed
          lastClickVal,             \* the validation slot: the number of its click
          clicked,                  \* validations recorded so far
          inputCall, interleaved,         \* caller -> its call; callers that ran beside another
          inputCalls

inputVars == <<held, cursor, kept, elevated, shown, changes, lastClickVal, clicked,
               inputCall, interleaved, inputCalls>>
deskVars == <<held, cursor, kept>>
worldVars == <<elevated, shown, changes>>
slotVars == <<lastClickVal, clicked>>

Mods == {"ctrl", "shift"}                       \* vkModMap
Specials == {"enter", "tab"}                    \* vkSpecialMap
AlNum == {"a", "1"}                             \* the keys of letters and digits
CharToVK == [r \in {"a", "A", "1", "!"} |->
               [vk |-> IF r \in {"a", "A"} THEN "a" ELSE "1", shift |-> r \in {"A", "!"}]]

-----------------------------------------------------------------------------
(* The events of a call, in the order they are sent.                          *)
Down(k) == [do |-> "down", key |-> k]
Up(k) == [do |-> "up", key |-> k]
MoveTo(p) == [do |-> "move", to |-> p]
Elevation == [do |-> "elevation"]               \* warnElevated: the call ends there if so
Refuse == [do |-> "refuse"]
Classify == [do |-> "classify"]
SendVKPress(k) == <<Down(k), Up(k)>>
(* Sequences of events, one after the other.                                  *)
Joined(ss) ==
  LET upTo[n \in 0..Len(ss)] == IF n = 0 THEN <<>> ELSE upTo[n - 1] \o ss[n]
  IN upTo[Len(ss)]
\* Mutant: the shift key of a capital stays down.
SendCharShiftKept(r) ==
  IF r \notin DOMAIN CharToVK THEN <<>>
  ELSE IF CharToVK[r].shift THEN <<Down("shift")>> \o SendVKPress(CharToVK[r].vk)
  ELSE SendVKPress(CharToVK[r].vk)
SendCharWithVK(r) ==
  IF r \notin DOMAIN CharToVK THEN <<>>
  ELSE IF CharToVK[r].shift THEN <<Down("shift")>> \o SendVKPress(CharToVK[r].vk) \o <<Up("shift")>>
  ELSE SendVKPress(CharToVK[r].vk)
TypeText(text) ==
  Joined([n \in 1..Len(text) |-> IF text[n] \in Specials THEN SendVKPress(text[n]) ELSE SendCharWithVK(text[n])])
SelectAll == <<Elevation, Down("ctrl"), Down("a"), Up("a"), Up("ctrl")>>

(* key_press: a name, or MOD+key.  MOD+ works with one letter or digit only;  *)
(* a name that means nothing is passed over, and the call succeeds.           *)
KeyEvents(k) ==
  IF Len(k) = 2 THEN IF k[1] \in Mods /\ k[2] \in AlNum THEN <<Down(k[1])>> \o SendVKPress(k[2]) ELSE <<>>
  ELSE IF k[1] \in Mods THEN <<Down(k[1])>>
  ELSE IF k[1] \in Specials THEN SendVKPress(k[1])
  ELSE IF k[1] \in DOMAIN CharToVK THEN SendVKPress(CharToVK[k[1]].vk)
  ELSE <<>>
KeyPress(keys) ==
  LET sent == Joined([n \in 1..Len(keys) |-> KeyEvents(keys[n])])
      FromEnd(n) == sent[Len(sent) + 1 - n]
  IN <<Elevation>> \o sent \o Joined([n \in 1..Len(sent) |->
       IF FromEnd(n).do = "down" /\ FromEnd(n).key \in Mods THEN <<Up(FromEnd(n).key)>> ELSE <<>>])

Click(p, times) ==
  IF p \notin ScreenPoints THEN <<Refuse>>
  ELSE <<MoveTo(p)>> \o Joined([n \in 1..times |-> SendVKPress("left")]) \o <<Classify>>
(* A drag presses while it moves to its start, and its 5 to 50 moves end at   *)
(* the target (two here).                                                     *)
Drag(p, q) ==
  IF p \notin ScreenPoints \/ q \notin ScreenPoints THEN <<Refuse>>
  ELSE <<[do |-> "down", key |-> "left", to |-> p], MoveTo(p), MoveTo(q), [do |-> "up", key |-> "left", to |-> q]>>
ButtonAt(p, event) == IF p \in ScreenPoints THEN <<MoveTo(p), event>> ELSE <<Refuse>>
Scroll == <<[do |-> "wheel"]>>
(* The newlines and tabs of type_and_submit are no characters of the table.   *)
TypeAndSubmit(text) ==
  <<Elevation>> \o Joined([n \in 1..Len(text) |-> SendCharWithVK(text[n])]) \o KeyPress(<<<<"enter">>>>)

Events(r) ==
  CASE r.tool = "click" -> Click(r.at, r.times)
    [] r.tool = "drag" -> Drag(r.at, r.to)
    [] r.tool = "scroll" -> Scroll
    [] r.tool \in {"move_mouse", "hover"} -> IF r.at \in ScreenPoints THEN <<MoveTo(r.at)>> ELSE <<Refuse>>
    [] r.tool = "mouse_down" -> ButtonAt(r.at, Down("left"))
    [] r.tool = "mouse_up" -> ButtonAt(r.at, Up("left"))
    [] r.tool = "key_press" -> KeyPress(r.keys)
    [] r.tool = "key_down" -> <<Elevation, Down(r.key)>>
    [] r.tool = "key_up" -> <<Elevation, Up(r.key)>>
    [] r.tool = "type" -> <<Elevation>> \o TypeText(r.text)
    [] r.tool = "type_and_submit" -> TypeAndSubmit(r.text)
    [] r.tool = "select_all_and_type" -> SelectAll \o <<Elevation>> \o TypeText(r.text)

-----------------------------------------------------------------------------
(* VerifyAction reads the screen twice, both times where it is called: before *)
(* the input for a precondition, after it for an expectation.                 *)
VerifyOCRResults(before, after, expect) ==
  CASE expect.kind = "text" -> after = expect.word
    [] expect.kind = "not_text" -> after # expect.word
    [] OTHER -> before # after

NoInputCall == [at |-> "idle"]
InFlight(c) == inputCall[c].at \notin {"idle", "ok", "failed"}
InputGoes(c, at) == inputCall' = [inputCall EXCEPT ![c].at = at]

(* A handler.  One without expectations goes straight to its input.           *)
InputBegin(c, r) ==
  /\ ~InFlight(c) /\ inputCalls < MaxInputCalls
  /\ inputCalls' = inputCalls + 1
  /\ inputCall' = [d \in InputCallers |->
       IF d = c THEN [at |-> IF r.pre.kind = "none" THEN "send" ELSE "pre1", r |-> r, todo |-> Events(r),
                      got |-> <<>>, before |-> shown, since |-> {}, verified |-> FALSE,
                      mine |-> 0, validated |-> 0, from |-> held \cup (IF elevated THEN Mods ELSE {})]
       ELSE inputCall[d]]
  /\ interleaved' = IF \E d \in InputCallers \ {c} : InFlight(d)
              THEN interleaved \cup {c} \cup {d \in InputCallers : InFlight(d)} ELSE interleaved \ {c}
  /\ UNCHANGED <<deskVars, worldVars, slotVars>>

LookBefore(c) ==
  /\ inputCall[c].at \in {"pre1", "post1"}
  /\ inputCall' = [inputCall EXCEPT ![c].before = shown, ![c].at = IF @ = "pre1" THEN "pre2" ELSE "post2"]
  /\ UNCHANGED <<deskVars, worldVars, slotVars, interleaved, inputCalls>>
PreVerifyCheck(c) ==
  /\ inputCall[c].at = "pre2"
  /\ InputGoes(c, IF VerifyOCRResults(inputCall[c].before, shown, inputCall[c].r.pre) THEN "send" ELSE "failed")
  /\ UNCHANGED <<deskVars, worldVars, slotVars, interleaved, inputCalls>>

(* What an application sees of a key or a button going down: which one, with  *)
(* what held, and where the pointer is.                                       *)
Where(e) == IF "to" \in DOMAIN e THEN e.to ELSE cursor
SendInput(c) ==
  /\ inputCall[c].at = "send" /\ inputCall[c].todo # <<>>
  /\ LET e == Head(inputCall[c].todo)
         rest == Tail(inputCall[c].todo)
         Went(got) == inputCall' = [d \in InputCallers |->
           IF d = c THEN [inputCall[c] EXCEPT !.todo = rest, !.got = got, !.since = {shown}]
           ELSE inputCall[d]]
         stops == e.do = "refuse" \/ (e.do = "elevation" /\ elevated)
     IN /\ CASE stops -> InputGoes(c, "failed")
             [] e.do = "classify" -> inputCall' = [inputCall EXCEPT ![c].todo = rest, ![c].mine = clicked + 1]
             [] e.do = "down" /\ e.key \notin Mods ->
                  Went(Append(inputCall[c].got, [key |-> e.key, mods |-> held \cap Mods, at |-> Where(e)]))
             [] OTHER -> Went(inputCall[c].got)
        /\ held' = CASE e.do = "down" -> held \cup {e.key} [] e.do = "up" -> held \ {e.key} [] OTHER -> held
        /\ kept' = CASE e.do = "down" /\ inputCall[c].r.tool \in {"key_down", "mouse_down"} -> kept \cup {e.key}
                     [] e.do = "up" -> kept \ {e.key} [] OTHER -> kept
        /\ cursor' = IF stops THEN cursor ELSE Where(e)
        \* RecordClickValidation: the newest click's, whoever reads it.
        /\ IF e.do = "classify" THEN lastClickVal' = clicked + 1 /\ clicked' = clicked + 1 ELSE UNCHANGED slotVars
  /\ UNCHANGED <<worldVars, interleaved, inputCalls>>
InputSent(c) ==
  /\ inputCall[c].at = "send" /\ inputCall[c].todo = <<>>
  /\ InputGoes(c, IF inputCall[c].r.post.kind = "none" THEN "answer" ELSE "post1")
  /\ UNCHANGED <<deskVars, worldVars, slotVars, interleaved, inputCalls>>
VerifyAction(c) ==
  /\ inputCall[c].at = "post2"
  /\ inputCall' = [inputCall EXCEPT ![c].at = "answer",
       ![c].verified = VerifyOCRResults(inputCall[c].before, shown, inputCall[c].r.post)]
  /\ UNCHANGED <<deskVars, worldVars, slotVars, interleaved, inputCalls>>

(* LastClickValidation empties the slot; clicks alone answer with it.         *)
VerifiedResult(c) ==
  /\ inputCall[c].at = "answer"
  /\ IF inputCall[c].r.tool = "click"
     THEN /\ inputCall' = [inputCall EXCEPT ![c].at = "ok", ![c].validated = lastClickVal]
          /\ lastClickVal' = 0
     ELSE InputGoes(c, "ok") /\ UNCHANGED lastClickVal
  /\ UNCHANGED <<deskVars, worldVars, clicked, interleaved, inputCalls>>

-----------------------------------------------------------------------------
(* The applications change the screen and the foreground window.              *)
ScreenChanges ==
  /\ changes < MaxChanges /\ changes' = changes + 1
  /\ shown' = IF shown = "old" THEN "new" ELSE "old"
  /\ inputCall' = [c \in InputCallers |-> IF InFlight(c) THEN [inputCall[c] EXCEPT !.since = @ \cup {shown'}] ELSE inputCall[c]]
  /\ UNCHANGED <<deskVars, elevated, slotVars, interleaved, inputCalls>>
ForegroundChanges ==
  /\ changes < MaxChanges /\ changes' = changes + 1
  /\ elevated' = ~elevated
  /\ UNCHANGED <<deskVars, shown, slotVars, inputCall, interleaved, inputCalls>>

InputInit ==
  /\ held = {} /\ kept = {} /\ cursor = (CHOOSE p \in ScreenPoints : TRUE)
  /\ elevated = FALSE /\ shown = "old" /\ changes = 0
  /\ lastClickVal = 0 /\ clicked = 0
  /\ inputCall = [c \in InputCallers |-> NoInputCall] /\ interleaved = {} /\ inputCalls = 0

InputStep(c) ==
  \/ LookBefore(c) \/ PreVerifyCheck(c) \/ SendInput(c) \/ InputSent(c) \/ VerifyAction(c) \/ VerifiedResult(c)
InputNext ==
  \/ \E c \in InputCallers, r \in InputRequests : InputBegin(c, r)
  \/ \E c \in InputCallers : InputStep(c)
  \/ ScreenChanges \/ ForegroundChanges

-----------------------------------------------------------------------------
(* However calls interleave and wherever one is refused, once all have ended  *)
(* no key and no button stays down but those key_down and mouse_down left.    *)
NothingLeftDown == (\A c \in InputCallers : ~InFlight(c)) => held \subseteq kept

(* A call that ran alone, with nothing held before, is received as it is      *)
(* meant: each character as itself, each key with the modifiers named up to   *)
(* it in the same key_press, each click where it was asked for, in the order  *)
(* asked and nothing besides.                                                 *)
Typed(text, specials) ==
  Joined([n \in 1..Len(text) |-> IF text[n] \in DOMAIN CharToVK \cup specials THEN <<text[n]>> ELSE <<>>])
AsCharacter(s) ==
  IF s.key \in Specials THEN s.key
  ELSE CHOOSE r \in DOMAIN CharToVK : CharToVK[r].vk = s.key /\ CharToVK[r].shift = ("shift" \in s.mods)
Named(keys, n) == {keys[m][1] : m \in {m \in 1..n : keys[m][1] \in Mods /\ (Len(keys[m]) = 1 \/ keys[m][2] \in AlNum)}}
KeyMeant(k) ==
  CASE Len(k) = 2 /\ k[1] \in Mods /\ k[2] \in AlNum -> <<k[2]>>
    [] Len(k) = 1 /\ k[1] \in Specials -> <<k[1]>>
    [] Len(k) = 1 /\ k[1] \in DOMAIN CharToVK -> <<CharToVK[k[1]].vk>>
    [] OTHER -> <<>>
WithModifiers(ks, mods) == [i \in 1..Len(ks) |-> [key |-> ks[i], mods |-> mods]]
Pressed(keys) == Joined([n \in 1..Len(keys) |-> WithModifiers(KeyMeant(keys[n]), Named(keys, n))])
Received(r, got) ==
  LET chars == [n \in 1..Len(got) |-> AsCharacter(got[n])]
  IN CASE r.tool = "click" -> got = [n \in 1..r.times |-> [key |-> "left", mods |-> {}, at |-> r.at]]
       [] r.tool = "type" -> chars = Typed(r.text, Specials)
       [] r.tool = "type_and_submit" -> chars = Append(Typed(r.text, {}), "enter")
       [] r.tool = "select_all_and_type" ->
            /\ got # <<>> /\ got[1].key = "a" /\ got[1].mods = {"ctrl"}
            /\ Tail(chars) = Typed(r.text, Specials)
       [] r.tool = "key_press" -> [n \in 1..Len(got) |-> [key |-> got[n].key, mods |-> got[n].mods]] = Pressed(r.keys)
       [] OTHER -> TRUE
SoloReceived ==
  \A c \in InputCallers :
    inputCall[c].at = "ok" /\ c \notin interleaved /\ inputCall[c].from = {} =>
      Received(inputCall[c].r, inputCall[c].got)

(* A call whose precondition fails has sent nothing, and a verified call's    *)
(* expected text was on the screen after its last event.                      *)
VerifiedHonestly ==
  \A c \in InputCallers :
    /\ inputCall[c].at \in {"pre1", "pre2"} => inputCall[c].got = <<>>
    /\ inputCall[c].at = "ok" /\ inputCall[c].verified /\ inputCall[c].r.post.kind = "text" =>
         inputCall[c].r.post.word \in inputCall[c].since

(* A click's answer never carries the validation of an earlier click than its *)
(* own, and no two answers carry the same.                                    *)
ValidatedOnce ==
  \A c \in InputCallers : inputCall[c].at = "ok" /\ inputCall[c].validated # 0 =>
    /\ inputCall[c].validated >= inputCall[c].mine
    /\ \A d \in InputCallers \ {c} : inputCall[d].at = "ok" => inputCall[d].validated # inputCall[c].validated

InputAsAsked == NothingLeftDown /\ SoloReceived /\ VerifiedHonestly /\ ValidatedOnce
=============================================================================
