---------------------------- MODULE MCComponents ----------------------------
(* The components checked for safety only: what the server keeps in memory    *)
(* and on disk while tools run (the chain_abort tool, the background watcher, *)
(* the OCR bridge, tasks, statistics and priors, the transformer) and the tools that act on *)
(* the machine (files, input, windows, what they take from Windows and give   *)
(* back, recordings replayed, what is found on the screen, the clipboard).    *)
(* They share no state, so each behaviour exercises one of them, and their    *)
(* states add up instead of multiplying.                                      *)
EXTENDS AbortTool, Watcher, MLEngine, Learnt,
        Files, DesktopInput, NativeResources, WindowTools, MCReplay, Vision, Clipboard, TLC

\* The watcher, the statistics and the abort tool.
MCWatchRequests == {<<"off", "none">>, <<"on", "slow">>}
MCContexts == {<<"save", "file", "save">>}
MCPlaces == {-7, 2}

\* The priors': two titles of one window, and a place that is not the first.
Icon(x) == [class |-> "icon", at |-> x]
MCFrames == {<<>>, <<Icon(10)>>, <<Icon(190), Icon(10)>>}
MCNormal == [t \in {"Code - a", "Code - b", "Mail"} |-> IF t = "Mail" THEN "mail" ELSE "code"]

\* The tasks'.
MCCommands == {[tool |-> "click", success |-> TRUE], [tool |-> "type", success |-> FALSE]}

\* One start for the components that are not exercised.
MCQuiet == CHOOSE c \in Config : ~c.enabled
MCFirstCaller == CHOOSE w \in WatchCallers : TRUE

\* The file tools.
Rel(path) == [abs |-> FALSE, path |-> path]
NoExpectation == [kind |-> "none", arg |-> Rel(<<"d">>)]
Request(tool, src, dst) == [tool |-> tool, src |-> src, dst |-> dst, rows |-> <<1>>, overwrite |-> FALSE,
                            pre |-> NoExpectation, post |-> NoExpectation]
MCFileRequests ==
  {Request("write", Rel(<<"d">>), Rel(<<>>)),
   [Request("write", [abs |-> TRUE, path |-> <<"d", "x">>], Rel(<<>>)) EXCEPT !.overwrite = TRUE, !.post = [kind |-> "there", arg |-> Rel(<<"x">>)]],
   [Request("copy", Rel(<<"d">>), Rel(<<"x">>)) EXCEPT !.pre = [kind |-> "gone", arg |-> Rel(<<"x">>)]],
   [Request("move", Rel(<<"d">>), Rel(<<"x">>)) EXCEPT !.pre.kind = "change"],
   Request("delete", Rel(<<"d">>), Rel(<<>>)),
   Request("create", Rel(<<"x", "d">>), Rel(<<>>)),
   Request("chdir", Rel(<<"d">>), Rel(<<>>))}
MCFormats == [n \in FileNames |-> IF n = "x" THEN "xlsx" ELSE "text"]
MCFirstTree == [p \in Paths |-> IF p = <<"d">> THEN Dir ELSE IF p \in {<<"d", "d">>, <<"d", "x">>} THEN TextFile(<<1, 2>>) ELSE NoNode]
MCProcessDir == <<>>

Look(kind, word) == [kind |-> kind, word |-> word]
Input(tool) == [tool |-> tool, pre |-> Look("none", ""), post |-> Look("none", "")]
MCInputRequests ==
  {[Input("click") EXCEPT !.pre = Look("text", "old"), !.post = Look("change", "")] @@ [at |-> 2, times |-> 1],
   Input("scroll") @@ [at |-> 2],
   Input("drag") @@ [at |-> 2, to |-> 3],
   Input("key_down") @@ [key |-> "ctrl"],
   Input("key_press") @@ [keys |-> <<<<"ctrl", "a">>, <<"1">>>>],
   Input("type_and_submit") @@ [text |-> <<"A", "tab">>],
   [Input("select_all_and_type") EXCEPT !.post = Look("text", "new")] @@ [text |-> <<"!">>]}

WindowRequest(kind, hint, h) == [kind |-> kind, hint |-> hint, h |-> h]
MCWindowRequests ==
  {WindowRequest("list", "", "no"), WindowRequest("wait", "Gone", "no"), WindowRequest("find", "Mail", "no"),
   WindowRequest("lock", "", "w2"), WindowRequest("screen", "", "no"), WindowRequest("browse", "Web", "no")}
MCTitles == [w \in {"w2", "w3"} |-> IF w = "w2" THEN {"Mail", " - "} ELSE {}]
MCOrder == <<"w3", "w2">>

\* The screen's: a second monitor on the left, a window that lies half on it.
MCVirtual == Rectangle(-2, 0, 8, 4)
MCWindowPlaces == {Rectangle(-3, 1, 7, 3), Rectangle(1, 0, 5, 3)}
MCControl == Rectangle(3, 1, 2, 2)
ElementsQuery(source, least, only, max) ==
  [tool |-> "query", source |-> source, region |-> Rectangle(0, 0, 4, 4), least |-> least, clickableOnly |-> only, max |-> max]
Stored(x, y, window, words) == [at |-> [x |-> x, y |-> y], window |-> window, words |-> words]
MCVisionRequests ==
  {ElementsQuery("window", 2, TRUE, 5), ElementsQuery("region", 2, FALSE, 1), ElementsQuery("screen", 0, FALSE, 5)}
  \cup {[tool |-> t, source |-> "screen"] : t \in {"classify", "find", "find_all"}}
  \cup {[tool |-> "layout", by |-> by, tolerance |-> 2,
          stored |-> <<Stored(3, 2, Rectangle(1, 0, 5, 3), TRUE), Stored(1, 3, Rectangle(-1, 1, 7, 3), FALSE)>>] : by \in {"title", "handle"}}
  \cup {[tool |-> "verify", x |-> -2, y |-> 3, size |-> 3, want |-> w] : w \in {"text", "not_text", "change"}}
MCLines == UNION {[1..n -> {"a", "b"}] : n \in 1..3} \cup {<<"a", "", "b">>, <<"">>}

\* The clipboard's.
MCClipRequests == {[tool |-> "get", text |-> ""]} \cup {[tool |-> "set", text |-> t] : t \in {"a", "longer"}}
MCCut(t) == IF t = "longer" THEN "long" ELSE t

VARIABLE active
componentVars ==
  <<active, tvars, watchVars, mlVars, bridgeVars, adaptVars,
   fileVars, inputVars, nativeVars, windowVars, replayVars, visionVars, clipVars, priorVars, taskVars>>
ComponentsInit ==
  /\ active \in {"abort", "watcher", "ml", "bridge", "statistics", "files", "input", "native", "windows", "replay", "vision", "clipboard", "priors", "tasks"}
  /\ ToolInit /\ (active # "abort" => cfg = MCQuiet)
  /\ WatchInit /\ (active # "watcher" => setter[MCFirstCaller].at = "auto")
  /\ MLInit /\ BridgeInit /\ AdaptInit /\ FilesInit /\ InputInit /\ NativeInit /\ WindowInit
  /\ ReplayInit /\ (active # "replay" => pointer = "p" /\ front = "n")
  /\ VisionInit /\ (active # "vision" => place = Rectangle(1, 0, 5, 3))
  /\ ClipInit /\ (active # "clipboard" => clip = "x")
  /\ PriorsInit /\ TaskInit
ComponentsNext ==
  \/ active = "abort" /\ ToolNext /\ UNCHANGED <<active, watchVars, mlVars, bridgeVars, adaptVars, fileVars, inputVars, nativeVars, windowVars, replayVars, visionVars, clipVars, priorVars, taskVars>>
  \/ active = "watcher" /\ WatchNext /\ UNCHANGED <<active, tvars, mlVars, bridgeVars, adaptVars, fileVars, inputVars, nativeVars, windowVars, replayVars, visionVars, clipVars, priorVars, taskVars>>
  \/ active = "ml" /\ MLNext /\ UNCHANGED <<active, tvars, watchVars, bridgeVars, adaptVars, fileVars, inputVars, nativeVars, windowVars, replayVars, visionVars, clipVars, priorVars, taskVars>>
  \/ active = "bridge" /\ BridgeNext /\ UNCHANGED <<active, tvars, watchVars, mlVars, adaptVars, fileVars, inputVars, nativeVars, windowVars, replayVars, visionVars, clipVars, priorVars, taskVars>>
  \/ active = "statistics" /\ AdaptNext /\ UNCHANGED <<active, tvars, watchVars, mlVars, bridgeVars, fileVars, inputVars, nativeVars, windowVars, replayVars, visionVars, clipVars, priorVars, taskVars>>
  \/ active = "files" /\ FilesNext /\ UNCHANGED <<active, tvars, watchVars, mlVars, bridgeVars, adaptVars, inputVars, nativeVars, windowVars, replayVars, visionVars, clipVars, priorVars, taskVars>>
  \/ active = "input" /\ InputNext /\ UNCHANGED <<active, tvars, watchVars, mlVars, bridgeVars, adaptVars, fileVars, nativeVars, windowVars, replayVars, visionVars, clipVars, priorVars, taskVars>>
  \/ active = "native" /\ NativeNext /\ UNCHANGED <<active, tvars, watchVars, mlVars, bridgeVars, adaptVars, fileVars, inputVars, windowVars, replayVars, visionVars, clipVars, priorVars, taskVars>>
  \/ active = "windows" /\ WindowNext /\ UNCHANGED <<active, tvars, watchVars, mlVars, bridgeVars, adaptVars, fileVars, inputVars, nativeVars, replayVars, visionVars, clipVars, priorVars, taskVars>>
  \/ active = "replay" /\ ReplayNext /\ UNCHANGED <<active, tvars, watchVars, mlVars, bridgeVars, adaptVars, fileVars, inputVars, nativeVars, windowVars, visionVars, clipVars, priorVars, taskVars>>
  \/ active = "vision" /\ VisionNext /\ UNCHANGED <<active, tvars, watchVars, mlVars, bridgeVars, adaptVars, fileVars, inputVars, nativeVars, windowVars, replayVars, clipVars, priorVars, taskVars>>
  \/ active = "clipboard" /\ ClipNext /\ UNCHANGED <<active, tvars, watchVars, mlVars, bridgeVars, adaptVars, fileVars, inputVars, nativeVars, windowVars, replayVars, visionVars, priorVars, taskVars>>
  \/ active = "priors" /\ PriorsNext /\ UNCHANGED <<active, tvars, watchVars, mlVars, bridgeVars, adaptVars, fileVars, inputVars, nativeVars, windowVars, replayVars, visionVars, clipVars, taskVars>>
  \/ active = "tasks" /\ TaskNext /\ UNCHANGED <<active, tvars, watchVars, mlVars, bridgeVars, adaptVars, fileVars, inputVars, nativeVars, windowVars, replayVars, visionVars, clipVars, priorVars>>
ComponentsSpec == ComponentsInit /\ [][ComponentsNext]_componentVars

ComponentsTypeOK ==
  /\ active = "abort" => ToolTypeOK
  /\ active = "watcher" => WatchTypeOK
  /\ active = "ml" => MLTypeOK
  /\ active = "bridge" => BridgeTypeOK
  /\ active = "statistics" => AdaptTypeOK
  /\ active = "priors" => PriorsTypeOK
  /\ active = "tasks" => TaskTypeOK
  /\ active = "clipboard" => ClipTypeOK
=============================================================================
