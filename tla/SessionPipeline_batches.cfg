\* Several batches, overlapping with links, two versions, and every request is answered.
SPECIFICATION OneActivationSpec
CONSTANTS
    Sessions = {s1}
    Users = {u1}
    Versions = {v1, v2}
    Options = {o1, o2, o3}
    OptionsOf <- TwoVersions
    Prompted = {v1}
    WithOp = {o1, o2}
    Fallback = v2
    Providers = {g}
    Requests = {r1, r2}
    ResendsOverlap = FALSE
    NULL = NULL
    v1 = v1
    v2 = v2
    o1 = o1
    o2 = o2
INVARIANTS IInv
PROPERTIES NothingLost EveryRequestAnswered
