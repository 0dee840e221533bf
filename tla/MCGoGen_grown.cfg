\* A project with --auth that grows: interrupted runs, edits, deletions, another api.
CONSTANTS
    Api <- Grown
    Group = {"user", "users", "errors"}
    NoGroup = NoGroup
    Handler = {"list", "List", "ban"}
    Middleware = {"Trace"}
    HandlerFile <- MCHandlerFile
    AuthFile <- MCAuthFile
    MiddlewareFile <- MCMiddlewareFile
    Once = {}
    Auth = TRUE
    ErrSpan = 1
    MaxTears = 1
    MaxKept = 1
    MaxUserSteps = 2
    None = None
SPECIFICATION FairSpec
INVARIANTS TypeOK CompleteUnlessTorn RegeneratedFresh AuthCovers ErrCodesDistinct
PROPERTIES EditsSurvive RunsEnd
