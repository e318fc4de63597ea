\* Answers sent again share one with the first, two requests at a time.
SPECIFICATION Spec
CONSTANTS
    Sessions = {s1, s2}
    Users = {}
    Versions = {v1}
    Options = {o1, o2}
    OptionsOf <- OneVersion
    Prompted = {v1}
    WithOp = {o1, o2}
    Fallback = NULL
    Providers = {g, b}
    Requests = {r1, r2}
    ResendsOverlap = TRUE
    NULL = NULL
    v1 = v1
    v2 = v2
    o1 = o1
    o2 = o2
SYMMETRY Symmetry
INVARIANTS CacheInv ReplyMatchesAnswers
PROPERTIES ImplementsContract
