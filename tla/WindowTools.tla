---------------------------- MODULE WindowTools ----------------------------
(* Finding, listing and focusing windows (window.go, window_ext.go), the      *)
(* tools that type into a window found by its title (browseruse.go,           *)
(* windowexploreruse.go, chain.go) and the window lock (windowlock.go).       *)
(* Windows enumerates through one callback, the variable enumCallback, which  *)
(* every enumeration of the process sets and every window is given to;        *)
(* nothing locks it.                                                          *)
EXTENDS Integers, Sequences, FiniteSets

CONSTANTS WindowCallers, WindowRequests,
          Titles,                   \* window -> the words of its title
          AppWindows,               \* the visible windows with a title
          FirstOrder,               \* the windows at the start, topmost first
          NoWindow,
          AutoFocus,                \* window_lock_auto_focus
          FocusAttempts,            \* the times FocusWindow looks, five
          MaxWindowCalls, MaxUserMoves

TopWindows == {FirstOrder[i] : i \in DOMAIN FirstOrder}
Kinds == {"list", "find", "wait", "focus", "browse", "screen", "lock"}

ASSUME WindowBounds == MaxWindowCalls \in Nat /\ MaxUserMoves \in Nat /\ FocusAttempts \in Nat \ {0}
ASSUME WindowsAssumption ==
  /\ FirstOrder \in Seq(TopWindows) /\ FirstOrder # <<>>
  /\ NoWindow \notin TopWindows \cup WindowCallers
  /\ \A q \in WindowRequests : q.kind \in Kinds /\ q.h \in TopWindows \cup {NoWindow}

VARIABLES zorder, foreground,       \* Windows' list and its active window
          moves,                    \* what the user has done
          enumCallback,             \* the closure: the call that enumerates with it, what it collects
          lockHandle,
          wcall,                    \* caller -> its call
          wcalls,                   \* calls begun
          joint,                    \* calls whose enumeration ran beside another
          stirred                   \* callers behind whose back the foreground changed
windowVars == <<zorder, foreground, moves, enumCallback, lockHandle, wcall, wcalls, joint, stirred>>

NoCallback == [of |-> NoWindow, take |-> "none", hint |-> "none"]
IdleWindowCall == [at |-> "idle", kind |-> "list", hint |-> "none", h |-> NoWindow, take |-> "all", n |-> 0,
                   walk |-> <<>>, shown |-> <<>>, got |-> <<>>, old |-> NoCallback, tries |-> 0]
Exists(w) == \E i \in DOMAIN zorder : zorder[i] = w
IsAppWindow(w) == w \in AppWindows
(* A request names a title (hint) or a window (h).                            *)
Began(q) == [at |-> CASE q.kind = "list" -> "set" [] q.kind \in {"focus", "screen"} -> q.kind
                      [] q.kind = "lock" -> "exists" [] OTHER -> "exact",
             kind |-> q.kind, hint |-> q.hint, h |-> q.h, take |-> IF q.kind = "list" THEN "all" ELSE "one",
             n |-> wcalls + 1, walk |-> <<>>, shown |-> <<>>, got |-> <<>>, old |-> NoCallback, tries |-> 0]
(* Of a call only its question goes on, and its answer.                       *)
Over(f, how, got) ==
  [at |-> how, kind |-> f.kind, hint |-> f.hint, h |-> f.h, take |-> f.take, n |-> f.n, walk |-> <<>>,
   shown |-> IF f.kind = "list" THEN f.shown ELSE <<>>, got |-> got, old |-> NoCallback, tries |-> 0]
Ends(c, how, got) == wcall' = [wcall EXCEPT ![c] = Over(wcall[c], how, got)]
(* A closure whose enumeration is over collects for nobody.                   *)
Spent(cb, c) == IF cb.of = c THEN [of |-> NoWindow, take |-> cb.take, hint |-> cb.hint] ELSE cb
WalkEnds(c, f) ==
  wcall' = [d \in WindowCallers |-> IF d = c THEN f ELSE [wcall[d] EXCEPT !.old = Spent(wcall[d].old, c)]]
AtRest(c) == wcall[c].at \in {"idle", "answered", "failed", "panicked", "acted"}

WindowCall(c, q) ==
  /\ AtRest(c) /\ wcalls < MaxWindowCalls
  /\ wcalls' = wcalls + 1
  /\ wcall' = [wcall EXCEPT ![c] = Began(q)]
  /\ UNCHANGED <<zorder, foreground, moves, enumCallback, lockHandle, joint, stirred>>

-----------------------------------------------------------------------------
(* FindWindowByTitle asks for the whole title first and enumerates if there   *)
(* is no such window; ListWindows enumerates at once.                         *)
Found(f, w) ==
  CASE f.kind = "find" \/ (f.kind = "wait" /\ w # NoWindow) -> Over(f, "answered", <<w>>)
    [] f.kind = "wait" /\ w = NoWindow -> Over(f, "exact", <<>>)
    [] f.kind \notin {"find", "wait"} /\ w = NoWindow -> [Over(f, "set", <<>>) EXCEPT !.take = "all"]
    [] OTHER -> [Over(f, "focus", <<>>) EXCEPT !.h = w]
FindWindowW(c) ==
  LET exact == {i \in DOMAIN zorder : Titles[zorder[i]] = {wcall[c].hint}}
  IN /\ wcall[c].at = "exact"
     /\ \/ exact = {} /\ wcall' = [wcall EXCEPT ![c].at = "set"]
        \/ \E i \in exact : (\A j \in exact : i <= j) /\ wcall' = [wcall EXCEPT ![c] = Found(wcall[c], zorder[i])]
     /\ UNCHANGED <<zorder, foreground, moves, enumCallback, lockHandle, wcalls, joint, stirred>>
Walking == {d \in WindowCallers : wcall[d].at = "walk"}
SetCallback(c) ==
  /\ wcall[c].at = "set"
  /\ enumCallback' = [of |-> c, take |-> wcall[c].take, hint |-> wcall[c].hint]
  /\ wcall' = [wcall EXCEPT ![c].at = "walk", ![c].walk = zorder, ![c].shown = zorder, ![c].got = <<>>,
                            ![c].old = enumCallback]
  /\ joint' = joint \cup (IF Walking = {} THEN {} ELSE {wcall[d].n : d \in Walking \cup {c}})
  /\ UNCHANGED <<zorder, foreground, moves, lockHandle, wcalls, stirred>>
(* One window goes to the closure in force, whoever's it is; false ends the   *)
(* enumeration that is running.                                               *)
Takes(cb, w) == IF cb.take = "all" THEN IsAppWindow(w) ELSE cb.hint \in Titles[w]
windowEnumProc(c) ==
  /\ wcall[c].at = "walk" /\ wcall[c].walk # <<>>
  /\ LET w == Head(wcall[c].walk)  cb == enumCallback
         rest == IF cb.take = "one" /\ Takes(cb, w) THEN <<>> ELSE Tail(wcall[c].walk)
     IN \/ /\ cb = NoCallback
           /\ WalkEnds(c, Over(wcall[c], "panicked", <<>>))
           /\ enumCallback' = IF wcall[c].take = "one" THEN wcall[c].old ELSE enumCallback
        \/ /\ cb # NoCallback /\ cb.of \in WindowCallers /\ Takes(cb, w)
           /\ wcall' = [wcall EXCEPT ![c].walk = rest,
                          ![cb.of].got = IF cb.take = "all" THEN Append(wcall[cb.of].got, w) ELSE <<w>>]
           /\ UNCHANGED enumCallback
        \/ /\ cb # NoCallback /\ ~(cb.of \in WindowCallers /\ Takes(cb, w))
           /\ wcall' = [wcall EXCEPT ![c].walk = rest]
           /\ UNCHANGED enumCallback
  /\ UNCHANGED <<zorder, foreground, moves, lockHandle, wcalls, joint, stirred>>
(* FindWindowByTitle puts the callback back that it found.  A browser that is *)
(* not found by a title is taken from the list: the first that matches, or    *)
(* that looks like a browser (" - " is enough).                               *)
EnumWindowsEnds(c) ==
  /\ wcall[c].at = "walk" /\ wcall[c].walk = <<>>
  /\ LET f == wcall[c]
         likely == {i \in DOMAIN f.got : {f.hint, " - "} \cap Titles[f.got[i]] # {}}
     IN \/ /\ f.take = "one" /\ enumCallback' = f.old
           /\ WalkEnds(c, Found(f, IF f.got = <<>> THEN NoWindow ELSE f.got[1]))
        \/ /\ f.take = "all" /\ enumCallback' = Spent(enumCallback, c)
           /\ \/ f.kind = "list" /\ WalkEnds(c, Over(f, "answered", f.got))
              \/ f.kind # "list" /\ likely = {} /\ WalkEnds(c, Over(f, "failed", <<>>))
              \/ /\ f.kind # "list"
                 /\ \E i \in likely : (\A j \in likely : i <= j)
                                      /\ WalkEnds(c, [Over(f, "focus", <<>>) EXCEPT !.h = f.got[i]])
  /\ UNCHANGED <<zorder, foreground, moves, lockHandle, wcalls, joint, stirred>>
WaitForWindowTimeout(c) ==
  /\ wcall[c].at = "exact" /\ wcall[c].kind = "wait" /\ Ends(c, "failed", <<>>)
  /\ UNCHANGED <<zorder, foreground, moves, enumCallback, lockHandle, wcalls, joint, stirred>>

-----------------------------------------------------------------------------
(* FocusWindow asks in several ways, looking after each whether it worked.       *)
FocusTry(c, granted) ==
  /\ wcall[c].at = "focus" /\ wcall[c].tries < FocusAttempts
  /\ granted => Exists(wcall[c].h)
  /\ foreground' = IF granted THEN wcall[c].h ELSE foreground
  /\ stirred' = IF foreground' = foreground THEN stirred ELSE stirred \cup (WindowCallers \ {c})
  /\ wcall' = [wcall EXCEPT ![c].at = "infront", ![c].tries = @ + 1]
  /\ UNCHANGED <<zorder, moves, enumCallback, lockHandle, wcalls, joint>>
Focused(c) == IF wcall[c].kind = "focus" THEN Ends(c, "answered", <<>>)
              ELSE wcall' = [wcall EXCEPT ![c].at = "act", ![c].tries = 0]
\* Mutant: a focus that failed counts as one that worked.
FocusedUnseen(c) ==
  /\ wcall[c].at = "infront"
  /\ IF foreground = wcall[c].h \/ wcall[c].tries = FocusAttempts THEN Focused(c)
     ELSE wcall' = [wcall EXCEPT ![c].at = "focus"]
  /\ stirred' = stirred \ {c}
  /\ UNCHANGED <<zorder, foreground, moves, enumCallback, lockHandle, wcalls, joint>>
FocusWindow(c) ==
  /\ wcall[c].at = "infront"
  /\ \/ foreground = wcall[c].h /\ stirred' = stirred \ {c} /\ Focused(c)
     \/ /\ foreground # wcall[c].h /\ UNCHANGED stirred
        /\ IF wcall[c].tries = FocusAttempts THEN Ends(c, "failed", <<>>)
           ELSE wcall' = [wcall EXCEPT ![c].at = "focus"]
  /\ UNCHANGED <<zorder, foreground, moves, enumCallback, lockHandle, wcalls, joint>>
(* The keys of a tool go to whatever is in front.  browser_* and explorer_*   *)
(* click the window first, at a place they take from its rectangle: there is  *)
(* none if it has been closed, and the call panics (safeHandler answers).     *)
ActOnFront(c) ==
  /\ wcall[c].at = "act"
  /\ IF wcall[c].kind = "browse" /\ ~Exists(wcall[c].h) THEN Ends(c, "panicked", <<>>)
     ELSE Ends(c, "acted", <<foreground>>)
  /\ UNCHANGED <<zorder, foreground, moves, enumCallback, lockHandle, wcalls, joint, stirred>>

-----------------------------------------------------------------------------
(* The lock.                                                                  *)
SetWindowLock(c) ==
  /\ \/ /\ wcall[c].at = "exists" /\ UNCHANGED lockHandle
        /\ IF Exists(wcall[c].h) THEN wcall' = [wcall EXCEPT ![c].at = "lock"] ELSE Ends(c, "failed", <<>>)
     \/ wcall[c].at = "lock" /\ lockHandle' = wcall[c].h /\ Ends(c, "answered", <<>>)
  /\ UNCHANGED <<zorder, foreground, moves, enumCallback, wcalls, joint, stirred>>
ClearWindowLock(c) ==
  /\ AtRest(c) /\ lockHandle # NoWindow /\ lockHandle' = NoWindow
  /\ UNCHANGED <<zorder, foreground, moves, enumCallback, wcall, wcalls, joint, stirred>>
(* A step of a chain that touches the screen: the lock is read, its window    *)
(* looked for (if it is gone whatever lock is set is cleared), and looked for *)
(* in front.                                                                  *)
VerifyWindowLock(c) ==
  /\ \/ /\ wcall[c].at = "screen" /\ UNCHANGED <<lockHandle, stirred>>
        /\ wcall' = [wcall EXCEPT ![c].h = lockHandle, ![c].at = IF lockHandle = NoWindow THEN "act" ELSE "gone?"]
     \/ /\ wcall[c].at = "gone?" /\ UNCHANGED stirred
        /\ lockHandle' = IF Exists(wcall[c].h) THEN lockHandle ELSE NoWindow
        /\ IF Exists(wcall[c].h) THEN wcall' = [wcall EXCEPT ![c].at = "front?"] ELSE Ends(c, "failed", <<>>)
     \/ /\ wcall[c].at = "front?" /\ foreground = wcall[c].h /\ UNCHANGED lockHandle
        /\ wcall' = [wcall EXCEPT ![c].at = "act"] /\ stirred' = stirred \ {c}
     \/ /\ wcall[c].at = "front?" /\ foreground # wcall[c].h /\ UNCHANGED <<lockHandle, stirred>>
        /\ IF AutoFocus THEN wcall' = [wcall EXCEPT ![c].at = "focus"] ELSE Ends(c, "failed", <<>>)
  /\ UNCHANGED <<zorder, foreground, moves, enumCallback, wcalls, joint>>

-----------------------------------------------------------------------------
(* Everybody else: another window comes to the front, one is closed.          *)
Moved == moves < MaxUserMoves /\ moves' = moves + 1 /\ stirred' = WindowCallers
         /\ UNCHANGED <<enumCallback, lockHandle, wcall, wcalls, joint>>
Without(s, i) == SubSeq(s, 1, i - 1) \o SubSeq(s, i + 1, Len(s))
UserFocuses(w) ==
  /\ Moved /\ w # foreground /\ foreground' = w
  /\ \E i \in DOMAIN zorder : zorder[i] = w /\ zorder' = <<w>> \o Without(zorder, i)
WindowCloses(w) ==
  /\ Moved /\ \E i \in DOMAIN zorder : zorder[i] = w /\ zorder' = Without(zorder, i)
  /\ foreground' = IF foreground = w THEN NoWindow ELSE foreground

WindowInit ==
  /\ zorder = FirstOrder /\ foreground = FirstOrder[1] /\ moves = 0 /\ enumCallback = NoCallback
  /\ lockHandle = NoWindow /\ wcall = [c \in WindowCallers |-> IdleWindowCall] /\ wcalls = 0
  /\ joint = {} /\ stirred = {}
WindowNext ==
  \/ \E c \in WindowCallers :
       \/ \E q \in WindowRequests : WindowCall(c, q)
       \/ FindWindowW(c) \/ SetCallback(c) \/ windowEnumProc(c) \/ EnumWindowsEnds(c) \/ WaitForWindowTimeout(c)
       \/ \E granted \in BOOLEAN : FocusTry(c, granted)
       \/ FocusWindow(c) \/ ActOnFront(c) \/ SetWindowLock(c) \/ ClearWindowLock(c) \/ VerifyWindowLock(c)
  \/ \E w \in TopWindows : UserFocuses(w) \/ WindowCloses(w)
WindowSpec == WindowInit /\ [][WindowNext]_windowVars

-----------------------------------------------------------------------------
(* The nth window listed is the nth application window that was shown.         *)
AppsIn(s, k) == {i \in 1..k : IsAppWindow(s[i])}
ListOf(s, k, got) ==
  /\ Len(got) = Cardinality(AppsIn(s, k))
  /\ \A i \in AppsIn(s, k) : got[Cardinality(AppsIn(s, i))] = s[i]

(* docs/reference/tools.md:52: "List all visible windows ... Returns every    *)
(* top-level window": what list_windows answers is what Windows showed it.    *)
(* Another enumeration beside it takes windows away and brings others twice.  *)
ListsAllWindows ==
  \A c \in WindowCallers : LET f == wcall[c] IN
    f.at = "answered" /\ f.kind = "list" => ListOf(f.shown, Len(f.shown), f.got)

(* A listing that ran beside no other enumeration is complete; a window found *)
(* by a title has it, whosever enumeration found it; and what a tool does     *)
(* after it has found, locked or focused a window happens to that window,     *)
(* unless somebody else changed the foreground after it had looked.           *)
WindowsAsNamed ==
  \A c \in WindowCallers : LET f == wcall[c] IN
    /\ f.at = "answered" /\ f.kind = "list" /\ f.n \notin joint => ListOf(f.shown, Len(f.shown), f.got)
    /\ f.at = "answered" /\ f.kind \in {"find", "wait"} =>
         f.got[1] = NoWindow \/ f.hint \in Titles[f.got[1]]
    /\ f.at = "acted" /\ f.h # NoWindow /\ c \notin stirred => f.got[1] = f.h
=============================================================================
