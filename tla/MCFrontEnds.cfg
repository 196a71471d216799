SPECIFICATION Spec
CONSTANTS
    Toolkits = {"gtk", "winui"}
    MaxCalls = 7
    MaxPumps = 1
    MaxLoops = 2
    MaxUpset = 1
    CharHeight = 2
    Heights = {3}
\* GTK's nested loops hang when the window is gone and the wrong loop was told to quit.
CHECK_DEADLOCK FALSE
INVARIANTS
    AnswersAreOwn
    FocusFollowsQuestion
    NothingStaysStale
    CaretIsWhereKeysGo
    ViewShowsTheDocument
PROPERTIES
    ExitEnds
