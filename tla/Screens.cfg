\* Every screen and the sign-in of both applications, each for itself.
SPECIFICATION Spec
CONSTANTS
    Parts = {"client", "form", "result", "feedback", "console", "activation", "auth", "serving", "catalog"}
    a1 = a1
    u1 = u1
    t1 = t1
    t2 = t2
    o1 = o1
    o2 = o2
    c1 = c1
    c2 = c2
    Accounts = {u1}
    MaxSessions = 2
    MaxTries = 1
    MaxLinks = 1
    NULL = NULL
    Questions = {1, 2, 3}
    Choosable = {1, 2, 3, 4}
    OptionsFor <- MCOptionsFor
    SortOrders = {0, 1}
    Retired = {2}
    Keys = {0, 1, 2}
    Series = {"t", "p"}
    Candidates <- MCCandidates
    Missing = Missing
    Null = Null
    Toasts = {t1, t2}
    Persistent = {t2}
    Overlays = {o1, o2}
    MinDuration = 1
    None = None
    Diagnostics = {1, 2}
    Versions = {1, 2, 3}
    DiagnosticOf <- MCDiagnosticOf
    Nil = Nil
    Inactive = {2}
    Existing0 = {1, 3}
    MaxRevision = 1
    MaxWrites = 1
    MaxRequests = 1
    LateKinds = {"detail"}
    MaxActivations = 1
    MaxOpenings = 2
    Realms = {"user", "admin"}
    Calls = {c1, c2}
    MaxTokens = 3
    s1 = s1
    s2 = s2
    s3 = s3
    Slots = {s1, s2, s3}
    PoolSize = 2
    Threads = 2
    Nobody = Nobody
    k1 = k1
    k2 = k2
    k3 = k3
    OptCodes = {k1, k2, k3}
    Orders = {1, 2, 3}
    MaxRows = 2
    MaxImports = 1
INVARIANTS
    ScreensTypeOK UnlinkedResultsAreGenuine LinkedMeansOwned
    SentIsComplete NothingSkipped
    RankingsAreTheAnswer SelectionIsShown
    ScrollFollowsOverlays
    ShownIsSelected OwnWritesShown SavedTextIsOwn FinalizedUnderItsDiagnostic
    ActiveIsOwn OwnActivationsShown
    RotationRetires
    OnlyLoopAndThreadsStall
    SheetIsShown
PROPERTIES
    SubmitStartsNothing SubmitEnds LoadingEnds
    ShownLongEnough FeedbackGoes
    RevokedIsFinal
