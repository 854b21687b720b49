\* The ledger: two predictions and two clicks, on and off the screen.  Facts: one
\* key in two scopes over two hours.  Search: a window partly off the screen.
\* Log: two backups, two processes.
SPECIFICATION StoresSpec
CONSTANTS
  Preds = {p1, p2}
  Clicks = {c1, c2}
  Predictions <- MCPredictions
  Targets = {2, 3, 5}
  OnScreen = {0, 1, 2, 3, 4}
  ClickFamily = {"click", "hover"}
  Radius = 1
  RecoverWindow = 0
  PendingWindow = 0
  UnknownAfter = 1
  MaxTime = 2
  NoClick = none
  Keys = {"save"}
  Scopes = {"default", "ui"}
  DefaultScope = "default"
  UIScope = "ui"
  FactTags = {"ui", "b"}
  UITags = {"ui"}
  TagTexts <- MCTagTexts
  Elements = {"e1"}
  Notes = {"n"}
  TTLs = {0, 1}
  UITTL = 1
  Limits = {1, 2}
  Finders = {"p"}
  MaxHour = 2
  ScreenLeft <- MCScreenLeft
  ScreenWidth = 80
  Lefts <- MCLefts
  WinWidth = 40
  TextAt = 25
  Hidden = 1
  MaxScrolls = 2
  MaxPolls = 4
  TemplateKeys = {"t"}
  Seekers = {"s1", "s2"}
  MaxHits = 3
  Servers = {v1, v2}
  Keep = 2
  MaxLines = 2
  MaxLog = 7
  MaxLogFaults = 1
INVARIANTS StoresTypeOK Evidence  TaughtHits  LatestKept
PROPERTIES LabelsStay StoreCallsEnd  ForgottenStays
CHECK_DEADLOCK FALSE
