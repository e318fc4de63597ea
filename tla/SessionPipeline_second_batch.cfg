\* A second batch of answers against 00_common.md.
SPECIFICATION Spec
CONSTANTS
    Sessions = {s1, s2}
    Users = {}
    Versions = {v1}
    Options = {o1, o2}
    OptionsOf <- OneVersion
    Prompted = {v1}
    WithOp = {o1, o2}
    Fallback = NULL
    Providers = {g}
    Requests = {r1}
    ResendsOverlap = FALSE
    NULL = NULL
    v1 = v1
    v2 = v2
    o1 = o1
    o2 = o2
INVARIANTS ReplyMatchesAnswers
