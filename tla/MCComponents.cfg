SPECIFICATION ComponentsSpec
CONSTANTS
  SetRequests = {r1}
  Chains = {c1}
  Combos = {k1}
  Intervals = {m1, m2}
  MaxStarts = 2
  MaxChans = 2
  ResetUsed = FALSE
  WatchCallers = {w1, w2}
  WatchIntervals = {"fast", "slow"}
  DefaultInterval = "fast"
  WatchRequests <- MCWatchRequests
  MaxWatchStarts = 2
  MaxCache = 1
  MaxCrashes = 1
  Trains = 2
  Resets = 1
  Rounds = 1
  Restarts = 1
  MaxUpsets = 2
  MaxTrainers = 1
  Recent = 2
  Agents = {a1, a2}
  MaxLogged = 3
  MaxRecent = 2
  Window = 0
  MaxClock = 1
  Words = {"save", "file"}
  Contexts <- MCContexts
  Places <- MCPlaces
  Enough = 2
  TopRows = 1
  MaxUses = 3
  FileCallers = {f1, f2}
  FileNames = {"d", "x"}
  FileRows = {1, 2}
  Formats <- MCFormats
  ProcessDir <- MCProcessDir
  FirstTree <- MCFirstTree
  FileRequests <- MCFileRequests
  MaxDepth = 2
  MaxFileCalls = 3
  InputCallers = {i1, i2}
  InputRequests <- MCInputRequests
  ScreenPoints = {1, 2}
  MaxInputCalls = 2
  MaxChanges = 1
  NativeTools = {"ocrFromBase64", "OcrLanguages", "UIAFindElement", "UIAGetText", "UIASetText", "UIAInvoke", "UIAElementFromPoint", "UIAGetAllElements", "WaitForUIElement", "WarmupUIA", "CaptureRegion", "ListProcesses", "KillProcess", "ONNXDetect", "ClassifyImage"}
  MaxItems = 2
  MaxNativeCalls = 2
  WindowCallers = {u1, u2}
  WindowRequests <- MCWindowRequests
  Titles <- MCTitles
  AppWindows = {"w2"}
  FirstOrder <- MCOrder
  NoWindow = "no"
  AutoFocus = TRUE
  FocusAttempts = 2
  MaxWindowCalls = 2
  MaxUserMoves = 1
  Hands <- MCHands
  CodeOrder <- MCCodeOrder
  CodesOf <- MCCodesOf
  Chars <- MCChars
  ShiftedChars <- MCShiftedChars
  NamedKeys <- MCNamedKeys
  Spots = {"p", "q"}
  Desktop <- MCDesktop
  Predicted = "p"
  FrontWindows = {"n", "m"}
  WindowsAtStart <- MCWindows
  MenuTexts <- MCMenus
  ClientSessions <- MCSessions
  Loops = {1, 2}
  MaxActs = 3
  MaxMenus = 2
  Virtual <- MCVirtual
  WindowPlaces <- MCWindowPlaces
  Control <- MCControl
  VisionRequests <- MCVisionRequests
  ModelSize = 6
  IouNum = 1
  IouDen = 2
  ElementLimit = 1
  MinTrust = 2
  CropPadding = 1
  TemplateWidth = 3
  Threshold = 1
  MaxScore = 2
  MatchPlaces = 5
  Lines <- MCLines
  MaxWindowMoves = 1
  MaxLooks = 1
  ClipCalls = {g1, g2}
  ClipRequests <- MCClipRequests
  ClipTexts = {"x", "longer"}
  Cut <- MCCut
  MaxTries = 2
  DetectorLabels = {"icon"}
  UILabels = {"button"}
  WindowTitles = {"Code - a", "Code - b", "Mail"}
  normalizeWindowTitle <- MCNormal
  Frames <- MCFrames
  PlacesOf = {10, 190}
  Cent = 100
  ScreenPixels = 200
  Tolerance = 15
  KnownCount = 2
  SureCount = 2
  UsualCount = 2
  MaxStd = 2
  MaxSaved = 3
  MaxPriorStarts = 1
  MaxLoadFaults = 1
  TaskCallers = {t1, t2}
  Commands <- MCCommands
  Shortest = 1
  Longest = 2
  PatternsFrom = 2
  MaxTasks = 2
  MaxCommands = 2
  MaxSecond = 1
  MaxTaskFaults = 1
  MaxCopies = 1
  MaxRefusals = 1
INVARIANTS ComponentsTypeOK AbortAnswers WatcherInForce  LogTells    GivenBack WindowsAsNamed    ClipboardAnswers
CHECK_DEADLOCK FALSE
