---------------------------- MODULE ScreenSearch ----------------------------
(* Looking for things on the screen: the calls of chained.go that read the    *)
(* screen by OCR, scroll and try again (FindTextAndClick, WaitForText,        *)
(* ScrollUntilFound), and the stored image templates of memory.go, which are  *)
(* read under memMu, searched for without it, and counted under it again.     *)
(* Geometry is one-dimensional: what holds of x holds of y.                   *)
EXTENDS Integers

CONSTANTS ScreenLeft, ScreenWidth,  \* the virtual screen
          Lefts, WinWidth,          \* where the window may be, and its width
          TextAt,                   \* offset of the wanted text in the window
          Hidden,                   \* how many scrolls bring the text into view
          MaxScrolls, MaxPolls,     \* of a call; polls before WaitForText's deadline
          TemplateKeys, Seekers, MaxHits

ASSUME ScreenAssumption ==
  /\ ScreenLeft \in Int /\ Lefts \subseteq Int
  /\ ScreenWidth \in Nat \ {0} /\ WinWidth \in Nat \ {0} /\ TextAt \in 0..(WinWidth - 1)
ASSUME ScrollAssumption ==
  Hidden \in Nat /\ MaxScrolls \in Nat /\ MaxPolls \in Nat /\ MaxPolls > MaxScrolls + 1
ASSUME HitsAssumption == MaxHits \in Nat

VARIABLES left,                     \* left edge of the window
          call,                     \* the text search in progress
          hits,                     \* template -> hit count, 0 when there is no row
          seeking                   \* seeker -> the template it searches the screen for

searchVars == <<left, call, hits, seeking>>

Kinds == {"click", "wait", "scroll_search"}
Modes == {"window", "screen", "region", "small"}
NoTemplate == "none"
NoCall == [at |-> "idle", kind |-> "click", mode |-> "screen", attempt |-> 0, polls |-> 0,
           offset |-> 0, target |-> 0, moved |-> FALSE]

-----------------------------------------------------------------------------
Clamp32(v, lo, hi) == IF v < lo THEN lo ELSE IF v > hi THEN hi ELSE v
ScreenEnd == ScreenLeft + ScreenWidth

(* OCRWindow clamps the window to the screen, and words are placed in what it *)
(* captured.                                                                  *)
OCRWindowOrigin == Clamp32(left, ScreenLeft, ScreenEnd - 1)

(* A region the caller gave that is smaller than 300 pixels is replaced by    *)
(* most of the window, from one twentieth in.                                 *)
ProportionalRegion == left + WinWidth \div 20

Source(c) == IF c.at = "capture" THEN c.mode ELSE IF c.mode = "window" THEN "screen" ELSE "region"
Origin(c) == CASE Source(c) = "window" -> OCRWindowOrigin
               [] Source(c) = "screen" -> ScreenLeft
               [] Source(c) = "region" -> c.offset
               [] Source(c) = "small"  -> ProportionalRegion

(* What the code adds to a word's place: the window's edge, read before the   *)
(* capture; the edge of the region the caller gave; or the screen's.          *)
\* Mutant: the words of a window are taken for words of the screen.
CaptureOffsetScreen(c) == IF c.mode \in {"window", "screen"} THEN ScreenLeft ELSE c.offset
CaptureOffset(c) == CASE c.mode = "window" -> left
                      [] c.mode = "screen" -> ScreenLeft
                      [] OTHER -> c.offset

TextX == left + TextAt
Visible(x) == ScreenLeft <= x /\ x < ScreenEnd
\* The text is in view when the call has scrolled just far enough.
InView(attempt) == attempt = Hidden /\ Visible(TextX)

-----------------------------------------------------------------------------
SearchInit ==
  /\ left \in Lefts
  /\ call = NoCall
  /\ hits = [k \in TemplateKeys |-> 0]
  /\ seeking = [p \in Seekers |-> NoTemplate]

Begin(kind, mode) ==
  /\ call.at \in {"idle", "done", "failed"}
  /\ kind # "click" => mode = "screen"
  /\ call' = [NoCall EXCEPT !.at = "rect", !.kind = kind, !.mode = mode, !.offset = left]
  /\ UNCHANGED <<left, hits, seeking>>

(* Windows found and clicked the text itself.  Here and in ClickIt the place  *)
(* would be stored for the next call, but the server never opens the store of *)
(* text locations, and StoreTextLocation returns at once.                     *)
SystemFind ==
  /\ call.at = "rect" /\ call.kind = "click" /\ call.attempt = 0
  /\ call' = [call EXCEPT !.at = "done", !.target = TextX]
  /\ UNCHANGED <<left, hits, seeking>>

ReadRect ==
  /\ call.at = "rect"
  /\ call' = [call EXCEPT !.at = "capture", !.offset = CaptureOffset(call)]
  /\ UNCHANGED <<left, hits, seeking>>

(* No such window, an empty one, or no words in it: the whole screen instead. *)
(* For a small region whose window is gone: the region after all.             *)
FallBack ==
  /\ call.at = "capture" /\ call.mode \in {"window", "small"}
  /\ call' = [call EXCEPT !.at = "fallback",
                          !.offset = IF call.mode = "window" THEN ScreenLeft ELSE @]
  /\ UNCHANGED <<left, hits, seeking>>

Capturing == call.at \in {"capture", "fallback"}
Seen ==
  /\ Capturing /\ InView(call.attempt)
  /\ call' = [call EXCEPT !.at = IF call.kind = "click" THEN "click" ELSE "done",
                          !.target = (TextX - Origin(call)) + call.offset]
  /\ UNCHANGED <<left, hits, seeking>>

MayScroll(c) == c.attempt < MaxScrolls

(* Not found: scroll and look again.  Out of scrolls a wait looks again until *)
(* its deadline, which can also come earlier; the others give up.             *)
LookAgain ==
  \/ /\ MayScroll(call) /\ call.polls + 1 < MaxPolls
     /\ call' = [call EXCEPT !.at = "rect", !.attempt = @ + 1, !.polls = @ + 1]
  \/ /\ ~MayScroll(call) /\ call.kind = "wait" /\ call.polls + 1 < MaxPolls
     /\ call' = [call EXCEPT !.at = "rect", !.polls = @ + 1]
GiveUp ==
  /\ ~MayScroll(call) \/ call.kind = "wait"
  /\ call' = [call EXCEPT !.at = "failed"]
NotSeen ==
  /\ Capturing /\ ~InView(call.attempt)
  /\ LookAgain \/ GiveUp
  /\ UNCHANGED <<left, hits, seeking>>

OCRFails ==
  /\ Capturing /\ Source(call) # "window"
  /\ call' = [call EXCEPT !.at = "failed"]
  /\ UNCHANGED <<left, hits, seeking>>

(* Click refuses a place outside the screen.                                  *)
ClickIt ==
  /\ call.at = "click"
  /\ call' = [call EXCEPT !.at = IF Visible(call.target) THEN "done" ELSE "failed"]
  /\ UNCHANGED <<left, hits, seeking>>

(* The user, or the program that owns it, moves the window at any time.       *)
MoveWindow(x) ==
  /\ x # left
  /\ left' = x
  /\ call' = [call EXCEPT !.moved = TRUE]
  /\ UNCHANGED <<hits, seeking>>

-----------------------------------------------------------------------------
TemplateStore(k) ==
  /\ hits[k] < MaxHits
  /\ hits' = [hits EXCEPT ![k] = @ + 1]
  /\ UNCHANGED <<left, call, seeking>>

TemplateFind(p, k) ==
  /\ seeking[p] = NoTemplate
  /\ hits[k] > 0
  /\ seeking' = [seeking EXCEPT ![p] = k]
  /\ UNCHANGED <<left, call, hits>>

\* Mutant: the count is written back even when the row is gone.
CountedAnyway(n) == n + 1
Counted(n) == IF n = 0 THEN 0 ELSE n + 1

TemplateFound(p) ==
  /\ seeking[p] # NoTemplate
  /\ hits[seeking[p]] < MaxHits
  /\ hits' = [hits EXCEPT ![seeking[p]] = Counted(@)]
  /\ seeking' = [seeking EXCEPT ![p] = NoTemplate]
  /\ UNCHANGED <<left, call>>

TemplateMissed(p) ==
  /\ seeking[p] # NoTemplate
  /\ seeking' = [seeking EXCEPT ![p] = NoTemplate]
  /\ UNCHANGED <<left, call, hits>>

TemplateForget(k) ==
  /\ hits' = [hits EXCEPT ![k] = 0]
  /\ UNCHANGED <<left, call, seeking>>

CallStep == ReadRect \/ Seen \/ NotSeen \/ ClickIt

SearchNext ==
  \/ \E kind \in Kinds, mode \in Modes : Begin(kind, mode)
  \/ SystemFind
  \/ FallBack
  \/ OCRFails
  \/ CallStep
  \/ \E x \in Lefts : MoveWindow(x)
  \/ \E k \in TemplateKeys : TemplateStore(k) \/ TemplateForget(k)
  \/ \E p \in Seekers, k \in TemplateKeys : TemplateFind(p, k)
  \/ \E p \in Seekers : TemplateFound(p) \/ TemplateMissed(p)
SearchSpec == SearchInit /\ [][SearchNext]_searchVars

-----------------------------------------------------------------------------
SearchTypeOK ==
  /\ left \in Lefts
  /\ call \in [at : {"idle", "rect", "capture", "fallback", "click", "done", "failed"}, kind : Kinds,
               mode : Modes, attempt : 0..MaxScrolls, polls : 0..MaxPolls,
               offset : Int, target : Int, moved : BOOLEAN]
  /\ hits \in [TemplateKeys -> 0..MaxHits]
  /\ seeking \in [Seekers -> TemplateKeys \cup {NoTemplate}]

(* FindTextAndClick clicks where the text is, when the window lies on the     *)
(* screen and stayed where it was.  A region under 300 pixels is excepted:    *)
(* the words of the window are then placed as if they were the region's.      *)
ClicksTheText ==
  /\ call.at = "done" /\ call.kind = "click" /\ call.mode # "small"
  /\ ~call.moved /\ (call.mode = "window" => left >= ScreenLeft)
  => call.target = TextX

(* A template someone forgot stays forgotten: a search that read it before    *)
(* does not bring it back when it comes to count its hit.                     *)
ForgottenStays ==
  [][\A k \in TemplateKeys : hits[k] = 0 /\ hits'[k] > 0 => TemplateStore(k)]_searchVars

(* A search comes to an end: a click and a scrolling search after their       *)
(* scrolls, a wait by its deadline.                                           *)
SearchEnds == []<>(call.at \in {"idle", "done", "failed"})
=============================================================================
