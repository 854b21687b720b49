SPECIFICATION ReplaySpec
CONSTANTS
  Hands <- MCHands
  CodeOrder <- MCCodeOrder
  CodesOf <- MCCodesOf
  Chars <- MCChars
  ShiftedChars <- MCShiftedChars
  NamedKeys <- MCNamedKeys
  Spots = {"p", "q"}
  Desktop <- MCDesktop
  Predicted = "p"
  FrontWindows = {"n", "m"}
  WindowsAtStart <- MCWindows
  MenuTexts <- MCMenus
  ClientSessions <- MCSessions
  Loops = {1, 2}
  MaxActs = 3
  MaxMenus = 2
INVARIANT ReplaysWhatWasRecorded
CHECK_DEADLOCK FALSE
