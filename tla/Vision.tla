------------------------------- MODULE Vision -------------------------------
(* Where things are on the screen: a capture of the screen, a window or a     *)
(* region, fitted into the detector's square (onnx.go), the detections mapped *)
(* back, fused and filtered for elements_query (annotate.go,                  *)
(* elements_query.go); template matching (template.go); stored layouts        *)
(* (validate_layout.go); text before and after an action (verify.go).         *)
(* A window holds one control, and the user may move the window, or close it, *)
(* between any two steps of a tool.  The neural networks, the recogniser and  *)
(* the correlation of a template are external: each may answer anything the   *)
(* constants allow, and the detector sees the control where its square shows  *)
(* it.  Coordinates are pixels, the detector's boxes fractions of a pixel.    *)
EXTENDS Integers, Sequences, FiniteSetsExt, Functions, TLC

CONSTANTS Virtual,                  \* the virtual screen
          WindowPlaces,             \* where the window may be
          Control,                  \* the control's place in its window
          VisionRequests,           \* what the tools may be asked
          ModelSize,                \* side of the detector's square: 640
          IouNum, IouDen,           \* yoloNMSThresh
          ElementLimit, MinTrust,   \* defaultElementLimit, defaultMinElementConfidence
          CropPadding,              \* watcherCropPadding
          TemplateWidth, Threshold, MaxScore, MatchPlaces,
          Lines,                    \* the lines recognised before and after an action
          MaxWindowMoves, MaxLooks

Rectangles == [x : Int, y : Int, w : Int, h : Int]
ASSUME VisionBounds == /\ ModelSize \in Nat \ {0} /\ IouNum \in Nat /\ IouDen \in Nat \ {0}
                       /\ MatchPlaces \in Nat /\ Threshold \in Nat \ {0} /\ MaxScore \in Nat
                       /\ TemplateWidth \in Nat \ {0} /\ CropPadding \in Nat
ASSUME ScreenAssumption == /\ Virtual \in Rectangles /\ Control \in Rectangles
                           /\ \A p \in WindowPlaces : p \in Rectangles /\ p.w > 0 /\ p.h > 0
                           /\ \A s \in Lines : s \in Seq(STRING)
(* What is asked for: a region is a rectangle, a layout has elements, each    *)
(* with the window it was stored in, if any, and what is verified has a size. *)
ASSUME VisionRequestsAssumption ==
  \A ask \in VisionRequests :
    /\ ask.tool \in {"query", "classify", "find", "find_all", "layout", "verify"}
    /\ ask.tool \in {"query", "classify", "find", "find_all"} /\ ask.source \notin {"screen", "window"} => ask.region \in Rectangles
    /\ ask.tool = "layout" =>
         /\ ask.tolerance \in Nat /\ ask.stored # <<>>
         /\ ask.stored \in Seq([at : [x : Int, y : Int], words : BOOLEAN,
                                window : {r \in Rectangles : r.w > 0 \/ r = [x |-> 0, y |-> 0, w |-> 0, h |-> 0]}])
    /\ ask.tool = "verify" => ask.x \in Int /\ ask.y \in Int /\ ask.size \in Nat \ {0}

VARIABLES place,                    \* the window's rectangle; Nowhere once closed
          look,                     \* the tool running, or the last: its request, stage and results
          looks, moved
visionVars == <<place, look, looks, moved>>

Rectangle(x, y, w, h) == [x |-> x, y |-> y, w |-> w, h |-> h]
Nowhere == Rectangle(0, 0, 0, 0)
Greater(a, b) == IF a >= b THEN a ELSE b
Lesser(a, b) == IF a <= b THEN a ELSE b
Size(n) == IF n < 0 THEN -n ELSE n
Quot(a, b) == IF a >= 0 THEN a \div b ELSE -((-a) \div b)
Holds(r, x, y) == x \in r.x..(r.x + r.w - 1) /\ y \in r.y..(r.y + r.h - 1)
Shift(r, x, y) == [r EXCEPT !.x = @ + x, !.y = @ + y]
Middle(r) == [x |-> r.x + Quot(r.w, 2), y |-> r.y + Quot(r.h, 2)]
ControlIn(p) == Rectangle(p.x + Control.x, p.y + Control.y, Control.w, Control.h)
(* What a sequence has at the indexes in a set.                               *)
Picked(s, at) ==
  LET among[n \in 0..Len(s)] ==
        IF n = 0 THEN <<>> ELSE IF n \in at THEN Append(among[n - 1], s[n]) ELSE among[n - 1]
  IN among[Len(s)]

-----------------------------------------------------------------------------
(* The detector's square, and back.                                           *)

preprocessYOLO(w, h) ==
  LET m == Greater(w, h)
      side(n) == Greater(1, (2 * n * ModelSize + m) \div (2 * m))     \* rounded to the nearest
  IN [m |-> m, w |-> side(w), h |-> side(h),
      padX |-> (ModelSize - side(w)) \div 2, padY |-> (ModelSize - side(h)) \div 2]
(* Where the square shows the span from..from+size-1 of n source pixels.      *)
Showing(fit, side, n, from, size) ==
  {p \in 0..(side - 1) : Lesser((p * fit.m) \div ModelSize, n - 1) \in from..(from + size - 1)}
(* What the detector may report: the control, the control once more and less  *)
(* exactly, something like a control in a corner, and a box in the padding    *)
(* (of, which no tool knows, tells them apart).                               *)
Detections(image, control) ==
  LET fit == preprocessYOLO(image.w, image.h)
      cols == Showing(fit, fit.w, image.w, control.x, control.w)
      rows == Showing(fit, fit.h, image.h, control.y, control.h)
      at(conf, dx, dw) == [x |-> fit.padX + Min(cols) + dx, y |-> fit.padY + Min(rows),
                           w |-> Max(cols) - Min(cols) + 1 + dw, h |-> Max(rows) - Min(rows) + 1, conf |-> conf, of |-> "control"]
  IN {[x |-> fit.padX + fit.w - 1, y |-> ModelSize - 1, w |-> 2, h |-> 1, conf |-> 3, of |-> ""],
      [x |-> fit.padX, y |-> fit.padY, w |-> 1, h |-> 1, conf |-> 2, of |-> ""]}
     \cup IF cols = {} \/ rows = {} THEN {} ELSE {at(3, 0, 0), at(2, -1, 1)}

(* A box in source pixels, in parts of a ModelSize-th.                        *)
parseYOLOOutput(rows, fit, thresh) ==
  {[x |-> (r.x - fit.padX) * fit.m, y |-> (r.y - fit.padY) * fit.m,
    w |-> r.w * fit.m, h |-> r.h * fit.m, conf |-> r.conf, of |-> r.of] : r \in {s \in rows : s.conf >= thresh}}

Overlapping(a, b) ==
  Greater(0, Lesser(a.x + a.w, b.x + b.w) - Greater(a.x, b.x))
  * Greater(0, Lesser(a.y + a.h, b.y + b.h) - Greater(a.y, b.y))
iouReaches(a, b) ==
  LET both == Overlapping(a, b)  union == a.w * a.h + b.w * b.h - both
  IN IF union <= 0 THEN IouNum = 0 ELSE both * IouDen >= union * IouNum
(* The boxes in some order of falling confidence; each drops the later ones   *)
(* it overlaps.                                                               *)
FallingOrders(boxes) ==
  {s \in [1..Cardinality(boxes) -> boxes] : \A i, j \in DOMAIN s : i < j => s[i] # s[j] /\ s[i].conf >= s[j].conf}
nms(order) ==
  LET selected[n \in 0..Len(order)] ==
        IF n = 0 THEN <<>>
        ELSE LET kept == selected[n - 1]
             IN IF \E k \in DOMAIN kept : iouReaches(kept[k], order[n]) THEN kept ELSE Append(kept, order[n])
  IN selected[Len(order)]
\* Mutant: a box that hangs out on the left keeps its width.
ClipToTheRight(b, image) ==
  LET el == Rectangle(Quot(b.x, ModelSize), Quot(b.y, ModelSize), Quot(b.w, ModelSize), Quot(b.h, ModelSize))
  IN IF el.w <= 0 \/ el.h <= 0 THEN {} ELSE {[el EXCEPT !.x = Greater(@, 0), !.y = Greater(@, 0)]}
clipElementToImage(b, image) ==
  LET el == Rectangle(Quot(b.x, ModelSize), Quot(b.y, ModelSize), Quot(b.w, ModelSize), Quot(b.h, ModelSize))
      x == Greater(el.x, 0)
      y == Greater(el.y, 0)
      clipped == Rectangle(x, y, Lesser(el.x + el.w, image.w) - x, Lesser(el.y + el.h, image.h) - y)
  IN IF \/ el.w <= 0 \/ el.h <= 0 \/ clipped.w <= 0 \/ clipped.h <= 0
        \/ Middle(el).x \notin 0..(image.w - 1) \/ Middle(el).y \notin 0..(image.h - 1)
     THEN {} ELSE {clipped}
Elements(kept, image) ==
  LET elements[n \in 0..Len(kept)] ==
        IF n = 0 THEN <<>>
        ELSE LET clipped == clipElementToImage(kept[n], image)
             IN IF clipped = {} THEN elements[n - 1]
                ELSE Append(elements[n - 1], [box |-> CHOOSE r \in clipped : TRUE, conf |-> kept[n].conf, of |-> kept[n].of])
  IN elements[Len(kept)]

-----------------------------------------------------------------------------
(* One tool at a time runs its steps.                                         *)

NoLook == [stage |-> "idle", ask |-> [tool |-> "none"], aim |-> Nowhere, aimed |-> Nowhere, shown |-> Nowhere,
          origin |-> [x |-> 0, y |-> 0], readAt |-> Nowhere, boxes |-> {}, kept |-> <<>>, elements |-> <<>>,
          answer |-> <<>>, scores |-> <<>>, candidates |-> <<>>, before |-> <<>>, after |-> <<>>]
Awaiting(tool, stage) == look.ask.tool \in tool /\ look.stage = stage
Go(next) == look' = next /\ UNCHANGED <<place, looks, moved>>
Fails == [look EXCEPT !.stage = "failed"]

LookBegins(ask) ==
  /\ look.stage \in {"idle", "done", "failed"} /\ looks < MaxLooks
  /\ look' = [NoLook EXCEPT !.stage = "start", !.ask = ask]
  /\ looks' = looks + 1 /\ UNCHANGED <<place, moved>>
WindowMoves(p) ==
  /\ moved < MaxWindowMoves /\ place # Nowhere /\ p # place
  /\ look.ask.tool \in {"query", "classify", "layout"}        \* the others never read it
  /\ place' = p /\ moved' = moved + 1 /\ UNCHANGED <<look, looks>>

(* A window's rectangle is read and clamped before the screen is copied.      *)
ScreenshotElement(p) ==
  LET x == Greater(p.x, 0)
      y == Greater(p.y, 0)
  IN Rectangle(x, y, Lesser(p.x + p.w, Virtual.w) - x, Lesser(p.y + p.h, Virtual.h) - y)
Aim ==
  /\ Awaiting({"query", "classify", "find", "find_all"}, "start")
  /\ LET source == look.ask.source
         r == CASE source = "screen" -> Virtual [] source = "window" -> ScreenshotElement(place) [] OTHER -> look.ask.region
     IN Go(IF (source = "window" /\ place = Nowhere) \/ r.w <= 0 \/ r.h <= 0 THEN Fails
           ELSE [look EXCEPT !.stage = "aimed", !.aim = r, !.aimed = place])
CaptureShot ==
  /\ look.stage = "aimed"
  /\ Go([look EXCEPT !.stage = IF look.ask.tool = "query" THEN "shot" ELSE "placed",
                     !.shown = IF place = Nowhere THEN Nowhere ELSE Shift(ControlIn(place), -look.aim.x, -look.aim.y)])
(* AnnotateWindow reads the rectangle again for the origin.                   *)
AnnotateWindow ==
  /\ look.stage = "shot"
  /\ Go([look EXCEPT !.stage = "placed", !.readAt = place,
                     !.origin = CASE look.ask.source # "window" -> [x |-> look.aim.x, y |-> look.aim.y]
                                  [] place = Nowhere -> [x |-> 0, y |-> 0]
                                  [] OTHER -> [x |-> Greater(place.x, 0), y |-> Greater(place.y, 0)]])
(* Detection may be unavailable: no runtime, no model, an error.              *)
DetectRows(rows) ==
  /\ look.stage = "placed" /\ (look.ask.tool \in {"find", "find_all"} => look.scores # <<>>)
  /\ LET found == parseYOLOOutput(rows, preprocessYOLO(look.aim.w, look.aim.h), 2)
     IN \E order \in FallingOrders(found) :
          Go([look EXCEPT !.stage = "detected", !.boxes = found, !.kept = nms(order), !.elements = Elements(nms(order), look.aim)])
Detect == look.stage = "placed" /\ \E rows \in SUBSET Detections(look.aim, look.shown) : DetectRows(rows)

(* The fused confidence of an element, from classifiers, priors and memory,   *)
(* by the thresholds it is compared with: MinTrust is 0.40, one less 0.35.    *)
CombineElementConfidence == (MinTrust - 1)..(MinTrust + 1)
ElementIsClickable(interactive, trust) == interactive /\ trust >= MinTrust - 1
FilterAndCapElements(els, limit, least) ==
  LET trusted == SelectSeq([n \in DOMAIN els |-> els[n] @@ [index |-> n]], LAMBDA e : e.trust >= least)
      before(a, b) == a.trust > b.trust \/ (a.trust = b.trust /\ a.index < b.index)
      sorted == SortSeq(trusted, before)
  IN IF limit > 0 /\ Len(sorted) > limit THEN SubSeq(sorted, 1, limit) ELSE sorted
annotateCapture ==
  /\ Awaiting({"query"}, "detected")
  /\ \E trust \in [DOMAIN look.elements -> CombineElementConfidence], controls \in SUBSET DOMAIN look.elements :
       LET els == [n \in DOMAIN look.elements |->
                     [image |-> look.elements[n].box, of |-> look.elements[n].of, trust |-> trust[n],
                      screen |-> Shift(look.elements[n].box, look.origin.x, look.origin.y),
                      clickable |-> ElementIsClickable(n \in controls, trust[n])]]
       IN Go([look EXCEPT !.stage = "annotated", !.elements = els,
                          !.candidates = FilterAndCapElements(els, ElementLimit, MinTrust)])
Wanted(e) ==
  /\ e.trust >= look.ask.least /\ (look.ask.clickableOnly => e.clickable)
  /\ look.ask.source = "region" =>
       LET r == look.ask.region IN Middle(e.screen).x \in r.x..(r.x + r.w) /\ Middle(e.screen).y \in r.y..(r.y + r.h)
buildElementsQuery ==
  /\ look.stage = "annotated"
  /\ LET rows == SelectSeq(look.candidates, Wanted)
     IN Go([look EXCEPT !.stage = "done", !.answer = IF Len(rows) > look.ask.max THEN SubSeq(rows, 1, look.ask.max) ELSE rows])

(* The live screen is cropped around each element for the classifier and, by  *)
(* the watcher, for the training store.                                       *)
elementCropRegion(el) ==
  LET x == Greater(Virtual.x + el.x - CropPadding, Virtual.x)
      y == Greater(Virtual.y + el.y - CropPadding, Virtual.y)
  IN Rectangle(x, y, Lesser(Virtual.x + el.x + el.w + CropPadding, Virtual.x + Virtual.w) - x,
               Lesser(Virtual.y + el.y + el.h + CropPadding, Virtual.y + Virtual.h) - y)
classifyElementList ==
  /\ Awaiting({"classify"}, "detected")
  /\ LET crops == [n \in DOMAIN look.elements |-> [image |-> look.elements[n].box, crop |-> elementCropRegion(look.elements[n].box)]]
     IN Go([look EXCEPT !.stage = "done", !.readAt = place,
                        !.answer = Picked(crops, {n \in DOMAIN crops : crops[n].crop.w > 0 /\ crops[n].crop.h > 0})])

-----------------------------------------------------------------------------
(* Template matching, along one row of pixels.  A place's score is its        *)
(* correlation with the template; 0 where the screen is flat.                 *)

Score(scores) ==
  /\ Awaiting({"find", "find_all"}, "placed") /\ look.scores = <<>>
  /\ look' = [look EXCEPT !.scores = scores, !.stage = "matching",
                          !.candidates = Picked([p \in 1..MatchPlaces |-> [at |-> p, score |-> scores[p]]],
                                                {p \in 1..MatchPlaces : scores[p] >= Threshold})]
  /\ UNCHANGED <<place, looks, moved>>
(* The first of the best places; else what the detector finds in the same     *)
(* capture (words, the last resort, are left out).                            *)
BestIndex(cs) == CHOOSE n \in DOMAIN cs : \A k \in DOMAIN cs : cs[k].score < cs[n].score \/ (cs[k].score = cs[n].score /\ n <= k)
FindImage ==
  /\ Awaiting({"find"}, "matching")
  /\ Go(IF look.candidates # <<>>
        THEN [look EXCEPT !.stage = "done", !.answer = <<look.candidates[BestIndex(look.candidates)]>>]
        ELSE [look EXCEPT !.stage = "placed"])
findImageONNXFallback ==
  /\ Awaiting({"find"}, "detected")
  /\ Go(IF look.elements = <<>> THEN Fails ELSE [look EXCEPT !.stage = "done", !.answer = <<[image |-> look.elements[1].box]>>])

MatchesOverlap(a, b) == Greater(0, TemplateWidth - Size(a.at - b.at)) > TemplateWidth \div 2
(* The candidates that do not overlap the best are moved to the front of the  *)
(* same array, and the best is looked up in it each time: once as many as     *)
(* stood before it have been moved, its place holds another candidate.        *)
Compacted(cs, best) ==
  LET filtered[n \in 0..Len(cs)] ==
        IF n = 0 THEN [array |-> cs, kept |-> 0]
        ELSE LET was == filtered[n - 1]
             IN IF MatchesOverlap(was.array[n], was.array[best]) THEN was
                ELSE [array |-> [was.array EXCEPT ![was.kept + 1] = was.array[n]], kept |-> was.kept + 1]
      last == filtered[Len(cs)]
  IN SubSeq(last.array, 1, last.kept)
FindAllRound ==
  /\ Awaiting({"find_all"}, "matching")
  /\ Go(IF look.candidates = <<>> THEN [look EXCEPT !.stage = IF look.answer = <<>> THEN "placed" ELSE "done"]
        ELSE LET best == BestIndex(look.candidates)
             IN [look EXCEPT !.answer = Append(@, look.candidates[best]), !.candidates = Compacted(look.candidates, best)])

findAllONNXFallback ==
  /\ Awaiting({"find_all"}, "detected")
  /\ Go([look EXCEPT !.stage = "done", !.answer = [n \in DOMAIN look.elements |-> [image |-> look.elements[n].box]]])

-----------------------------------------------------------------------------
(* layout_validate: the window's rectangle now against the stored one.        *)

LayoutReads ==
  /\ Awaiting({"layout"}, "start")
  /\ Go(IF place = Nowhere /\ look.ask.by = "handle"
        THEN [look EXCEPT !.stage = "done", !.answer = [n \in DOMAIN look.ask.stored |-> [valid |-> FALSE, at |-> look.ask.stored[n].at, how |-> "stale"]]]
        ELSE [look EXCEPT !.stage = "checking", !.readAt = place])
(* One element; its words are looked for where they were stored.              *)
ValidateLayout(seen) ==
  /\ Awaiting({"layout"}, "checking")
  /\ LET el == look.ask.stored[Len(look.answer) + 1]
         now == look.readAt
         known == now # Nowhere /\ el.window.w > 0
         dx == IF known THEN Quot(2 * now.x + now.w - 2 * el.window.x - el.window.w, 2) ELSE 0
         dy == IF known THEN Quot(2 * now.y + now.h - 2 * el.window.y - el.window.h, 2) ELSE 0
         far == Size(dx) > look.ask.tolerance \/ Size(dy) > look.ask.tolerance
         drift == dx # 0 \/ dy # 0
         read == ~el.words \/ seen
         res == [valid |-> read /\ ~far,
                 at |-> IF far THEN el.at ELSE [x |-> el.at.x + dx, y |-> el.at.y + dy],
                 how |-> CASE far \/ (~read /\ ~drift) -> "stale" [] drift -> "drifted" [] OTHER -> "ok"]
     IN Go([look EXCEPT !.answer = Append(@, res), !.stage = IF Len(look.answer) + 1 = Len(look.ask.stored) THEN "done" ELSE "checking"])

-----------------------------------------------------------------------------
(* Text before and after an action, around the place acted on.                *)

SmartRegionAround(x, y, size) ==
  LET rx == Greater(x - size \div 2, Virtual.x)
      ry == Greater(y - size \div 2, Virtual.y)
  IN Rectangle(rx, ry, Lesser(rx + size, Virtual.x + Virtual.w) - rx, Lesser(ry + size, Virtual.y + Virtual.h) - ry)
VerifyBefore(lines) ==
  /\ Awaiting({"verify"}, "start")
  /\ \/ Go([look EXCEPT !.stage = "before", !.before = lines, !.aim = SmartRegionAround(look.ask.x, look.ask.y, look.ask.size)])
     \/ Go(Fails)
BlankLine == ""                         \* a line of nothing but spaces, once they are trimmed
Repeats(l, s) == Cardinality({k \in DOMAIN s : s[k] = l})
(* Each line uses up one of those equal to it; the lines left have none.      *)
LinesLeft(these, those) ==
  LET left[n \in 0..Len(these)] ==
        IF n = 0 THEN [count |-> [l \in Range(these) |-> Repeats(l, those)], lines |-> <<>>]
        ELSE LET was == left[n - 1]  l == these[n]
             IN IF l = BlankLine THEN was
                ELSE IF was.count[l] <= 0 THEN [was EXCEPT !.lines = Append(@, l)]
                ELSE [was EXCEPT !.count[l] = @ - 1]
  IN left[Len(these)].lines
\* Mutant: a line's count is not used up, so that lines repeated are missed.
LinesNeverUsedUp(before, after) ==
  [added |-> SelectSeq(after, LAMBDA l : l # BlankLine /\ l \notin Range(before)),
   removed |-> SelectSeq(before, LAMBDA l : l # BlankLine /\ l \notin Range(after))]
computeTextDiff(before, after) == [added |-> LinesLeft(after, before), removed |-> LinesLeft(before, after)]
verifyOCRResults(lines) ==
  /\ Awaiting({"verify"}, "before")
  /\ LET diff == computeTextDiff(look.before, lines)
         passed == CASE look.ask.want = "text" -> "a" \in Range(lines)
                     [] look.ask.want = "not_text" -> "a" \notin Range(lines)
                     [] OTHER -> lines # look.before
     IN Go([look EXCEPT !.stage = "done", !.after = lines,
                        !.answer = [added |-> diff.added, removed |-> diff.removed, passed |-> passed]])

-----------------------------------------------------------------------------
VisionInit == place \in WindowPlaces /\ look = NoLook /\ looks = 0 /\ moved = 0
VisionNext ==
  \/ \E ask \in VisionRequests : LookBegins(ask)
  \/ \E p \in WindowPlaces \cup {Nowhere} : WindowMoves(p)
  \/ Aim \/ CaptureShot \/ AnnotateWindow \/ Detect \/ annotateCapture \/ buildElementsQuery \/ classifyElementList
  \/ \E scores \in [1..MatchPlaces -> 0..MaxScore] : Score(scores)
  \/ FindImage \/ findImageONNXFallback \/ FindAllRound \/ findAllONNXFallback \/ LayoutReads
  \/ \E seen \in BOOLEAN : ValidateLayout(seen)
  \/ \E lines \in Lines : VerifyBefore(lines) \/ verifyOCRResults(lines)
VisionSpec == VisionInit /\ [][VisionNext]_visionVars

-----------------------------------------------------------------------------
Done(tool) == look.ask.tool = tool /\ look.stage = "done"
Pixel == (Greater(look.aim.w, look.aim.h) + ModelSize - 1) \div ModelSize      \* of the square, in the image
OnImage(p) == p.x \in 0..(look.aim.w - 1) /\ p.y \in 0..(look.aim.h - 1)

(* Boxes dropped were overlapped by a better one kept, and no two kept do.    *)
DetectionsApart ==
  look.stage = "detected" =>
    LET reach(a, b) == Overlapping(a, b) * IouDen >= (a.w * a.h + b.w * b.h - Overlapping(a, b)) * IouNum
    IN /\ \A i, j \in DOMAIN look.kept : i # j => ~reach(look.kept[i], look.kept[j])
       /\ \A b \in look.boxes : \E n \in DOMAIN look.kept :
            look.kept[n] = b \/ (reach(look.kept[n], b) /\ look.kept[n].conf >= b.conf)

(* An element of the query is clicked in the capture and, when it is the      *)
(* control, on the control as captured, within a pixel of the square, even    *)
(* when the window moves meanwhile, unless it has moved when its rectangle is *)
(* read again; a control detected in the capture is not lost; the best        *)
(* elements asked for come first and none is left out for a lesser one.       *)
(* (A control of less than two pixels of the square may be lost.)             *)
ClickedWhereShown ==
  Done("query") =>
    LET a == look.answer
        asked == {e \in Range(look.elements) : /\ e.trust >= Greater(look.ask.least, MinTrust) /\ (look.ask.clickableOnly => e.clickable)
                                               /\ look.ask.source # "region"}
    IN /\ \A n \in DOMAIN a :
            /\ OnImage(Middle(a[n].image))
            /\ (look.ask.source = "window" => look.readAt = look.aimed) /\ a[n].of = "control" =>
                 LET p == Middle(a[n].screen)  c == Shift(look.shown, look.aim.x, look.aim.y)
                 IN p.x \in (c.x - Pixel)..(c.x + c.w - 1 + Pixel) /\ p.y \in (c.y - Pixel)..(c.y + c.h - 1 + Pixel)
       /\ (\E b \in look.boxes : b.of = "control") /\ OnImage(Middle(look.shown)) => \E n \in DOMAIN look.elements : look.elements[n].of = "control"
       /\ \A e \in asked, n \in DOMAIN a : e.trust > a[n].trust => \E k \in 1..(n - 1) : a[k].image = e.image
       /\ Len(a) < Lesser(look.ask.max, ElementLimit) => Cardinality({e.image : e \in asked}) <= Len(a) \/ look.ask.source = "region"
(* A crop covers what was detected and stays on the screen.                   *)
CropsCover ==
  Done("classify") => \A n \in DOMAIN look.answer :
    LET c == look.answer[n].crop  r == Shift(look.answer[n].image, Virtual.x, Virtual.y)
    IN look.ask.source = "screen" =>
         /\ c.x <= r.x /\ c.y <= r.y /\ r.x + r.w <= c.x + c.w /\ r.y + r.h <= c.y + c.h
         /\ Virtual.x <= c.x /\ c.x + c.w <= Virtual.x + Virtual.w /\ c.y + c.h <= Virtual.y + Virtual.h
(* Both tools agree on the best match; the others follow by falling score,    *)
(* and a candidate that overlaps no other is never missing.                   *)
MatchesBestFirst ==
  LET a == look.answer
      good == {p \in DOMAIN look.scores : look.scores[p] >= Threshold}
  IN Done("find") \/ Done("find_all") =>
       /\ good # {} => /\ \A p \in good : look.scores[p] < a[1].score \/ (look.scores[p] = a[1].score /\ a[1].at <= p)
                       /\ \A i, j \in DOMAIN a : i < j => a[i].score >= a[j].score /\ a[i].at # a[j].at
       /\ Done("find_all") => \A p \in good : (\A q \in good \ {p} : ~MatchesOverlap([at |-> p], [at |-> q])) => \E n \in DOMAIN a : a[n].at = p
(* Every stored element is counted once, and one called valid is where the    *)
(* control is in a window that was only moved since.                          *)
LayoutFollows ==
  LET r == look.answer  kept(how) == {n \in DOMAIN r : r[n].how = how /\ r[n].valid}
  IN Done("layout") =>
       /\ Cardinality(kept("ok")) + Cardinality(kept("drifted")) + Cardinality({n \in DOMAIN r : ~r[n].valid}) = Len(look.ask.stored)
       /\ \A n \in DOMAIN r : LET s == look.ask.stored[n].window
                               IN r[n].valid /\ look.readAt.w = s.w /\ look.readAt.h = s.h =>
                                    r[n].at = [x |-> look.ask.stored[n].at.x + look.readAt.x - s.x, y |-> look.ask.stored[n].at.y + look.readAt.y - s.y]
(* Taking the lines removed from the text before, and adding those added,     *)
(* gives the lines after; the region read holds the place acted on.           *)
DiffBalances ==
  Done("verify") =>
    /\ \A l \in (Range(look.before) \cup Range(look.after)) \ {BlankLine} :
         Repeats(l, look.before) - Repeats(l, look.answer.removed) + Repeats(l, look.answer.added) = Repeats(l, look.after)
    /\ Holds(Virtual, look.ask.x, look.ask.y) => Holds(look.aim, look.ask.x, look.ask.y)

(* What the screen tools compare (boxes with boxes, crops with the screen,    *)
(* places with a template, a layout with a window, lines with lines) comes    *)
(* out as what they looked at has it (onnx.go:489, watcher.go:259,            *)
(* template.go:158, validate_layout.go:46, verify.go:142).                    *)
ComparedAsSeen == DetectionsApart /\ CropsCover /\ MatchesBestFirst /\ LayoutFollows /\ DiffBalances
=============================================================================
