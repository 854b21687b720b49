\* One prediction, missed by one click and hit by the next.
CONSTANTS
    Preds = {p1}
    Clicks = {c1, c2}
    Predictions <- MCPredictions
    Targets = {2, 3, 5}
    OnScreen = {0, 1, 2, 3, 4}
    ClickFamily = {"click", "hover"}
    Radius = 1
    RecoverWindow = 0
    PendingWindow = 0
    UnknownAfter = 1
    MaxTime = 2
    NoClick = none
SPECIFICATION Spec
PROPERTY MissesRecovered
CHECK_DEADLOCK FALSE
CONSTRAINT Sequential
