SPECIFICATION NodeSpec
CONSTANTS
    x = x
    y = y
    Requests = {x, y}
    Window = 3
    PerSecond = 2
    Horizon = 3
    MaxPieces = 0
CHECK_DEADLOCK FALSE
INVARIANT HistoryChronological
