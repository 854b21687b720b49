------------------------------- MODULE Replay -------------------------------
(* What a recording keeps of what the user did and what replicate makes of it *)
(* (keylogger.go, record_replicate.go, keyboard.go, chain.go).  The keylogger *)
(* samples keys, mouse and foreground window twenty times a second; stopping  *)
(* turns its events into enriched ones, replicate those into chain steps, and *)
(* the client runs these as a chain.                                          *)
EXTENDS Integers, Sequences, FiniteSets
LOCAL INSTANCE SequencesExt

CONSTANTS Hands,                    \* the keys and mouse buttons the user presses
          CodeOrder,                \* the names of the virtual keys, in the order of their codes
          CodesOf,                  \* hand -> the names it shows under
          Chars, ShiftedChars,      \* by name: vkToChar; what comes with shift held
          NamedKeys,                \* the names the keyboard tools know
          Spots, Desktop,           \* what is at a place of a window: "uia", "text", "ml", "none"
          Predicted,                \* where the statistics would click near an "ml" place
          FrontWindows,
          WindowsAtStart,           \* the snapshot: [title, minimized, maximized]
          MenuTexts, ClientSessions, \* the texts and the sessions a client sends
          Loops, MaxActs, MaxMenus

ASSUME ReplayBounds == MaxActs \in Nat /\ MaxMenus \in Nat /\ Loops \subseteq Nat \ {0}

VARIABLES hands, pointer, front,     \* the user's hands, the mouse, the active window
          acts,
          prev, prevPointer, prevFront, startAt, \* pollLoop's locals
          klEvents,
          menuCache, menuCalls,     \* place -> entries; what was sent for it
          stage,
          session, looped, steps, performed
replayVars == <<hands, pointer, front, acts, prev, prevPointer, prevFront, startAt, klEvents, menuCache, menuCalls, stage, session, looped, steps, performed>>

Buttons == <<"left", "right", "middle">>
ButtonPressed == \E i \in 1..Len(Buttons) : Buttons[i] \in hands \ prev
ModifierNames == {"CTRL", "CONTROL", "ALT", "SHIFT", "LWIN", "RWIN"}
NoPlace == "nowhere"
NoEvent == [kind |-> "", key |-> "", down |-> FALSE, mods |-> {}, button |-> "", at |-> NoPlace, from |-> NoPlace, held |-> "short", text |-> <<>>, window |-> ""]

-----------------------------------------------------------------------------
(* One tick of pollLoop.  The keys come first, mouse buttons among them; a    *)
(* move of the mouse is left out if another was recorded 100 ms before; the   *)
(* place where a button went down is kept for all buttons together.  A left   *)
(* or right button held for more than 300 ms counts as a drag.                *)
CodesDown(held) == UNION {CodesOf[h] : h \in held}
klPollKeys ==
  LET changed == SelectSeq(CodeOrder, LAMBDA c : (c \in CodesDown(hands)) # (c \in CodesDown(prev)))
  IN [i \in 1..Len(changed) |-> [NoEvent EXCEPT !.kind = "key", !.key = changed[i], !.down = changed[i] \in CodesDown(hands)]]
ButtonEvent(b, start, held) ==
  IF b # "middle" /\ (start # pointer \/ held # "short")
    THEN [NoEvent EXCEPT !.kind = "drag", !.button = b, !.from = start, !.at = pointer, !.held = held]
    ELSE [NoEvent EXCEPT !.kind = "click", !.button = b, !.at = pointer, !.held = held]
klPollMouse(kept, held) ==
  LET released == SelectSeq(Buttons, LAMBDA b : b \in prev \ hands)
      At(b) == IF \E i, j \in 1..3 : i < j /\ Buttons[j] = b /\ Buttons[i] \in hands \ prev THEN pointer ELSE startAt
  IN (IF pointer # prevPointer /\ kept THEN <<[NoEvent EXCEPT !.kind = "mouse_move", !.at = pointer]>> ELSE <<>>)
     \o [i \in 1..Len(released) |-> ButtonEvent(released[i], At(released[i]), held)]
     \o (IF front # prevFront THEN <<[NoEvent EXCEPT !.kind = "focus", !.key = front]>> ELSE <<>>)
pollLoop(kept, held) ==
  /\ stage = "recording"
  /\ <<hands, pointer, front>> # <<prev, prevPointer, prevFront>>
  /\ klEvents' = klEvents \o klPollKeys \o klPollMouse(kept, held)
  /\ prev' = hands /\ prevPointer' = pointer /\ prevFront' = front
  /\ startAt' = IF ButtonPressed THEN pointer ELSE startAt
  /\ UNCHANGED <<hands, pointer, front, acts, menuCache, menuCalls, stage, session, looped, steps, performed>>

-----------------------------------------------------------------------------
(* Stopping makes steps of the events (waits are left out here: nothing later *)
(* looks at them), a change of window becomes focus_window_by_title.          *)
klEventsToSteps(events) ==
  [i \in 1..Len(events) |-> IF events[i].kind = "focus" THEN [events[i] EXCEPT !.kind = "focus_window_by_title"] ELSE events[i]]
(* enrichEvents.  Characters gather until something else comes; the release   *)
(* of a key does not count as such.  It waits for changes of window under     *)
(* another name.  What is at the place of a click is looked up now, when the  *)
(* recording is over.                                                         *)
Combo(s, e) == [NoEvent EXCEPT !.kind = "key_combo", !.key = e.key, !.mods = s.mods, !.down = e.down, !.window = s.window]
flushText(s) ==
  IF s.buf = <<>> THEN s.out ELSE Append(s.out, [NoEvent EXCEPT !.kind = "type", !.text = s.buf, !.window = s.window])
CharOf(name, shift) ==
  IF shift /\ name \in DOMAIN ShiftedChars THEN <<ShiftedChars[name]>>
  ELSE IF name \in DOMAIN Chars THEN <<Chars[name]>> ELSE <<>>
enrichKey(s, e) ==
  LET flushed(ev) == [s EXCEPT !.out = Append(flushText(s), ev), !.buf = <<>>]
      held == s.mods \ {"SHIFT"} # {}
  IN CASE e.key \in ModifierNames -> [s EXCEPT !.mods = IF e.down THEN @ \cup {e.key} ELSE @ \ {e.key}]
       [] e.key \notin ModifierNames /\ e.down /\ held -> flushed(Combo(s, e))
       [] e.key \notin ModifierNames /\ e.down /\ ~held /\ e.key \in NamedKeys ->
            [s EXCEPT !.buf = @ \o CharOf(e.key, "SHIFT" \in s.mods)]
       [] e.key \notin ModifierNames /\ e.down /\ ~held /\ e.key \notin NamedKeys ->
            flushed([NoEvent EXCEPT !.kind = "key_down", !.key = e.key, !.window = s.window])
       [] OTHER -> [s EXCEPT !.out = Append(@, IF held THEN Combo(s, e) ELSE [NoEvent EXCEPT !.kind = "key_up", !.key = e.key, !.window = s.window])]
\* Mutant: the text typed so far is not written out before a click.
enrichMouseLate(s, e) == [s EXCEPT !.out = Append(@, [e EXCEPT !.window = s.window])]
enrichMouse(s, e) == [s EXCEPT !.out = Append(flushText(s), [e EXCEPT !.window = s.window]), !.buf = <<>>]
(* No event has a time stamp: two left clicks at a place are a double click   *)
(* if nothing was recorded between them.                                      *)
LeftClick(ev) == ev.kind = "click" /\ ev.button \in {"", "left"}
mergeDoubleClicks(events) ==
  FoldLeft(LAMBDA s, ev :
             IF s.open /\ LeftClick(ev) /\ Last(s.out).at = ev.at
               THEN [out |-> [s.out EXCEPT ![Len(s.out)].kind = "double_click"], open |-> FALSE]
               ELSE [out |-> Append(s.out, ev), open |-> LeftClick(ev)],
           [out |-> <<>>, open |-> FALSE], events).out
detectLongPress(events) ==
  [i \in 1..Len(events) |->
     IF events[i].kind = "click" /\ events[i].held = "long" THEN [events[i] EXCEPT !.kind = "long_press"] ELSE events[i]]
enrichEvents(raw) ==
  LET last == FoldLeft(LAMBDA s, e : CASE e.kind = "key" -> enrichKey(s, e)
                                       [] e.kind = "_focus" ->
                                            [s EXCEPT !.out = Append(flushText(s), [NoEvent EXCEPT !.kind = "focus", !.key = e.key, !.window = e.key]),
                                                      !.buf = <<>>, !.window = e.key]
                                       [] e.kind \in {"click", "drag", "mouse_move"} -> enrichMouse(s, e)
                                       [] OTHER -> s,
                       [out |-> <<>>, buf |-> <<>>, mods |-> {}, window |-> ""], raw)
  IN detectLongPress(mergeDoubleClicks(flushText(last)))

-----------------------------------------------------------------------------
(* A right click is followed by a click on the menu item seen most often at   *)
(* that place.  A left click becomes one on the element or the text that was  *)
(* there, or, if there was only text farther off, on the place the statistics *)
(* predict for it.                                                            *)
cacheMenuItems(entries, items) ==
  FoldLeft(LAMBDA es, item :
             IF \E i \in 1..Len(es) : es[i].item = item
               THEN [i \in 1..Len(es) |-> IF es[i].item = item THEN [es[i] EXCEPT !.hits = @ + 1] ELSE es[i]]
               ELSE Append(es, [item |-> item, hits |-> 1]),
           entries, items)
bestMenuItem(entries) ==
  FoldLeft(LAMBDA b, e : IF e.hits > b.hits THEN e ELSE b, entries[1], Tail(entries)).item

Do(tool, at) == [tool |-> tool, at |-> at, from |-> NoPlace, button |-> "left", clicks |-> 1, keys |-> <<>>, text |-> <<>>, what |-> ""]
smartClickSteps(ev) ==
  LET there == Desktop[front][ev.at]
  IN <<CASE there = "uia" -> Do("uia_invoke", ev.at)
         [] there = "text" -> Do("find_text_and_click", ev.at)
         [] there = "ml" -> [Do("click", Predicted) EXCEPT !.button = ev.button]
         [] OTHER -> [Do("click", ev.at) EXCEPT !.button = ev.button]>>
SmartSteps(ev) ==
  CASE ev.kind = "click" /\ ev.button = "right" ->
         <<[Do("click", ev.at) EXCEPT !.button = "right"], Do("wait", NoPlace)>>
         \o (CASE menuCache[ev.at] # <<>> -> <<[Do("find_menu_text_and_click", NoPlace) EXCEPT !.what = bestMenuItem(menuCache[ev.at])]>>
               [] menuCache[ev.at] = <<>> /\ Desktop[front][ev.at] \notin {"ml", "none"} ->
                    <<Do("uia_find", NoPlace), [Do("find_menu_text_and_click", NoPlace) EXCEPT !.what = "nearby"]>>
               [] OTHER -> <<Do("uia_find", NoPlace)>>)
    [] ev.kind = "click" /\ ev.button = "middle" -> <<[Do("click", ev.at) EXCEPT !.button = "middle"]>>
    [] ev.kind = "click" /\ ev.button \in {"", "left"} -> smartClickSteps(ev)
    [] ev.kind = "double_click" ->
         LET base == smartClickSteps(ev)[1]
         IN CASE base.tool = "uia_invoke" -> <<base>>
              [] base.tool = "click" -> <<[base EXCEPT !.clicks = 2]>>
              [] OTHER -> <<base, [Do("click", ev.at) EXCEPT !.clicks = 2]>>
    [] ev.kind = "long_press" -> <<Do("move_mouse", ev.at), [Do("mouse_down", ev.at) EXCEPT !.button = ev.button],
                                   Do("wait", NoPlace), [Do("mouse_up", ev.at) EXCEPT !.button = ev.button]>>
    [] ev.kind = "drag" -> <<[Do("drag", ev.at) EXCEPT !.from = ev.from, !.button = ev.button]>>
    [] ev.kind = "mouse_move" -> <<Do("move_mouse", ev.at)>>
    [] ev.kind = "type" -> <<[Do("type", NoPlace) EXCEPT !.text = ev.text]>>
    [] ev.kind = "key_combo" -> <<[Do("key_press", NoPlace) EXCEPT !.keys = Append(SetToSeq(ev.mods), ev.key)]>>
    [] ev.kind = "focus" -> <<[Do("focus_window_by_title", NoPlace) EXCEPT !.keys = <<ev.key>>]>>
    [] OTHER -> <<[Do(ev.kind, NoPlace) EXCEPT !.keys = <<ev.key>>]>>
eventsToSmartSteps(events) == FlattenSeq([i \in 1..Len(events) |-> SmartSteps(events[i])])
(* Every window that was open, put back.                                      *)
Preamble ==
  FlattenSeq([i \in 1..Len(WindowsAtStart) |->
    LET w == WindowsAtStart[i]
    IN <<Do("find_window", NoPlace), Do("move_window", NoPlace)>>
       \o (IF w.minimized THEN <<Do("restore_window", NoPlace)>> ELSE IF w.maximized THEN <<Do("maximize_window", NoPlace)>> ELSE <<>>)
       \o <<Do("focus", NoPlace)>>])
duplicateChainSteps(chain, count) == FlattenSeq([i \in 1..count |-> chain])

-----------------------------------------------------------------------------
(* The chain stops at the first step that fails: a tool that is not in        *)
(* toolDispatch, a key without a name.                                        *)
StepFails(s) == \/ s.tool = "move_window"
                \/ s.tool \in {"key_down", "key_up"} /\ s.keys[1] \notin NamedKeys
UntilFailure(chain) ==
  LET bad == {i \in 1..Len(chain) : StepFails(chain[i])}
  IN IF bad = {} THEN chain ELSE SubSeq(chain, 1, (CHOOSE i \in bad : \A j \in bad : i <= j) - 1)

(* What a step does at the desktop, as far as it is compared: text, clicks,   *)
(* drags and moves.                                                           *)
Deed(what, at, from, button) == [what |-> what, at |-> at, from |-> from, button |-> button]
Typing(text) == [i \in 1..Len(text) |-> Deed(text[i], NoPlace, NoPlace, "")]
StepDeeds(s) ==
  CASE s.tool = "type" -> Typing(s.text)
    [] s.tool \in {"click", "uia_invoke", "find_text_and_click", "mouse_down"} -> <<Deed("click", s.at, NoPlace, s.button)>>
    [] s.tool = "drag" -> <<Deed("drag", s.at, s.from, "left")>>
    [] s.tool = "move_mouse" -> <<Deed("move", s.at, NoPlace, "")>>
    [] OTHER -> <<>>
(* Clicks at one place in a row count once.                                   *)
Condense(deeds) ==
  FoldLeft(LAMBDA out, d : IF d.what = "click" /\ out # <<>> /\ Last(out) = d THEN out ELSE Append(out, d), <<>>, deeds)
DeedsOf(chain) == Condense(FlattenSeq([i \in 1..Len(chain) |-> StepDeeds(chain[i])]))

-----------------------------------------------------------------------------
Act(h, p, w) ==
  /\ stage = "recording" /\ acts < MaxActs /\ acts' = acts + 1
  /\ hands' = h /\ pointer' = p /\ front' = w
  /\ UNCHANGED <<prev, prevPointer, prevFront, startAt, klEvents, menuCache, menuCalls, stage, session, looped, steps, performed>>
UserActs ==
  \/ \E h \in Hands : Act(IF h \in hands THEN hands \ {h} ELSE hands \cup {h}, pointer, front)
  \/ \E p \in Spots \ {pointer} : Act(hands, p, front)
  \/ \E w \in FrontWindows \ {front} : Act(hands, pointer, w)
(* The places whose menu can matter: a bound.                                 *)
Asked(p) == \E s \in {session} \cup ClientSessions : \E i \in 1..Len(s) : s[i].button = "right" /\ s[i].at = p /\ (session = <<>> \/ s = session)
RecordStop ==
  /\ stage = "recording" /\ stage' = "recorded" /\ session' = enrichEvents(klEventsToSteps(klEvents))
  /\ UNCHANGED <<hands, pointer, front, acts, prev, prevPointer, prevFront, startAt, klEvents, menuCache, menuCalls, looped, steps, performed>>
CacheMenuItems(p, items) ==
  /\ stage = "recorded" /\ Len(menuCalls) < MaxMenus
  /\ menuCalls' = Append(menuCalls, [at |-> p, items |-> items])
  /\ menuCache' = [menuCache EXCEPT ![p] = cacheMenuItems(@, items)]
  /\ UNCHANGED <<hands, pointer, front, acts, prev, prevPointer, prevFront, startAt, klEvents, stage, session, looped, steps, performed>>
Replicate(s, loop) ==
  /\ stage = "recorded" /\ s # <<>>
  /\ session' = s /\ looped' = loop /\ stage' = "replicated"
  /\ steps' = duplicateChainSteps((IF s = session THEN Preamble ELSE <<>>) \o eventsToSmartSteps(s), loop)
  /\ UNCHANGED <<hands, pointer, front, acts, prev, prevPointer, prevFront, startAt, klEvents, menuCache, menuCalls, performed>>
ExecuteChain ==
  /\ stage = "replicated" /\ stage' = "replayed"
  /\ performed' = DeedsOf(UntilFailure(steps))
  /\ UNCHANGED <<hands, pointer, front, acts, prev, prevPointer, prevFront, startAt, klEvents, menuCache, menuCalls, session, looped, steps>>

(* No key is down when the recording starts: a bound.                         *)
ReplayInit ==
  /\ hands = {} /\ pointer \in Spots /\ front \in FrontWindows /\ acts = 0
  /\ prev = hands /\ prevPointer = pointer /\ prevFront = front /\ startAt = NoPlace
  /\ klEvents = <<>> /\ menuCache = [p \in Spots |-> <<>>] /\ menuCalls = <<>>
  /\ stage = "recording" /\ session = <<>> /\ looped = 1 /\ steps = <<>> /\ performed = <<>>
ReplayNext ==
  \/ UserActs
  \/ \E kept \in BOOLEAN, held \in {"short", "medium", "long"} : pollLoop(kept, held)
  \/ RecordStop
  \/ \E p \in {q \in Spots : Asked(q)}, items \in MenuTexts : CacheMenuItems(p, items)
  \/ \E s \in IF session = <<>> THEN ClientSessions ELSE {session}, loop \in Loops : Replicate(s, loop)
  \/ ExecuteChain
ReplaySpec == ReplayInit /\ [][ReplayNext]_replayVars

-----------------------------------------------------------------------------
(* The same deeds, told from the keylogger's events and from a session.       *)
HeldAt(i) ==
  {m \in ModifierNames : \E j \in 1..(i - 1) :
     /\ klEvents[j].key = m /\ klEvents[j].down
     /\ \A k \in (j + 1)..(i - 1) : klEvents[k].key # m}
LoggedDeeds(i) ==
  LET e == klEvents[i]
  IN CASE e.kind = "key" /\ e.down /\ e.key \in NamedKeys \ ModifierNames /\ HeldAt(i) \subseteq {"SHIFT"} ->
            Typing(CharOf(e.key, "SHIFT" \in HeldAt(i)))
       [] e.kind = "click" ->
            (IF e.held = "long" THEN <<Deed("move", e.at, NoPlace, "")>> ELSE <<>>) \o <<Deed("click", e.at, NoPlace, e.button)>>
       [] e.kind = "drag" -> <<Deed("drag", e.at, e.from, e.button)>>
       [] e.kind = "mouse_move" -> <<Deed("move", e.at, NoPlace, "")>>
       [] OTHER -> <<>>
Logged == Condense(FlattenSeq([i \in 1..Len(klEvents) |-> LoggedDeeds(i)]))
EventDeeds(ev) ==
  CASE ev.kind = "type" -> Typing(ev.text)
    [] ev.kind \in {"click", "double_click"} -> <<Deed("click", ev.at, NoPlace, ev.button)>>
    [] ev.kind = "long_press" -> <<Deed("move", ev.at, NoPlace, ""), Deed("click", ev.at, NoPlace, ev.button)>>
    [] ev.kind = "drag" -> <<Deed("drag", ev.at, ev.from, ev.button)>>
    [] ev.kind = "mouse_move" -> <<Deed("move", ev.at, NoPlace, "")>>
    [] OTHER -> <<>>
InSession == Condense(FlattenSeq([i \in 1..(looped * Len(session)) |-> EventDeeds(session[((i - 1) % Len(session)) + 1])]))
Steered(deeds) ==
  [i \in 1..Len(deeds) |->
     IF deeds[i].what = "click" /\ deeds[i].button \in {"", "left"} /\ Desktop[front][deeds[i].at] = "ml"
       THEN [deeds[i] EXCEPT !.at = Predicted] ELSE deeds[i]]
ButtonsAside(deeds) == [i \in 1..Len(deeds) |-> [deeds[i] EXCEPT !.button = ""]]
TimesCached(p, item) ==
  Cardinality({c \in 1..Len(menuCalls) : menuCalls[c].at = p /\ item \in Range(menuCalls[c].items)})

(* What was typed, clicked, dragged and moved is in the session, and what is  *)
(* in the session is in the steps, once per loop: the same text and the same  *)
(* places in the same order, however keys and buttons overlap, but for the    *)
(* button of a drag, which is lost, and left clicks where only a prediction   *)
(* is known.  A menu is answered with the item cached most.                   *)
StepsAsRecorded ==
  /\ stage = "recorded" => InSession = Logged
  /\ stage = "replicated" => ButtonsAside(DeedsOf(steps)) = ButtonsAside(Condense(Steered(InSession)))
  /\ stage = "replicated" =>
       \A i \in 1..Len(steps) :
         /\ steps[i].tool = "find_menu_text_and_click" /\ steps[i].what # "nearby"
         => \A item \in UNION {Range(m) : m \in MenuTexts} :
              TimesCached(steps[i - 2].at, steps[i].what) >= TimesCached(steps[i - 2].at, item)

(* docs/meta/CHANGELOG.md:277: "takes a recorded session JSON and replays it  *)
(* as a smart chain": what the chain does is what was recorded.  It stops     *)
(* at the first window to be moved (chains have no move_window), or else at   *)
(* the first mouse button or punctuation key, recorded as an unknown key.     *)
ReplaysWhatWasRecorded ==
  stage = "replayed" /\ looped = 1 /\ session = enrichEvents(klEventsToSteps(klEvents)) => performed = Logged
=============================================================================
