------------------------------ MODULE MCReplay ------------------------------
(* One recording for TLC: a letter and a key without a name, two modifiers    *)
(* and two mouse buttons; two places in two windows, each with another kind   *)
(* of thing under the mouse; one window to be put back; two menu texts, one   *)
(* session a client makes up.                                                 *)
EXTENDS Replay

MCHands == {"a", "shift", "ctrl", "dot", "left", "right"}
MCCodeOrder == <<"VK_0x01", "VK_0x02", "VK_0x04", "ENTER", "SHIFT", "CTRL", "A", "LSHIFT", "LCTRL", "VK_0xBE">>
MCCodesOf == [h \in {"a", "shift", "ctrl", "dot", "enter", "left", "right", "middle"} |->
  CASE h = "a" -> {"A"} [] h = "shift" -> {"SHIFT", "LSHIFT"} [] h = "ctrl" -> {"CTRL", "LCTRL"} [] h = "dot" -> {"VK_0xBE"}
    [] h = "enter" -> {"ENTER"} [] h = "left" -> {"VK_0x01"} [] h = "right" -> {"VK_0x02"} [] h = "middle" -> {"VK_0x04"}]
MCNamedKeys == {"A", "ENTER", "SHIFT", "CTRL", "LSHIFT", "LCTRL"}
MCChars == [c \in {"A"} |-> "a"]
MCShiftedChars == [c \in {"A"} |-> "A"]
MCDesktop == [w \in {"n", "m"} |-> [p \in {"p", "q"} |-> IF w = "n" THEN (IF p = "p" THEN "uia" ELSE "text") ELSE IF p = "p" THEN "none" ELSE "ml"]]
MCWindows == <<[title |-> "n", minimized |-> TRUE, maximized |-> FALSE]>>
MCMenus == {<<"copy">>, <<"paste", "copy">>}
MCSessions == {<<[NoEvent EXCEPT !.kind = "double_click", !.button = "left", !.at = "q"], [NoEvent EXCEPT !.kind = "click", !.button = "right", !.at = "p"]>>}
=============================================================================
