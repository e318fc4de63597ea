\* Overlapping links against 24_user_link_session.md.
SPECIFICATION Spec
CONSTANTS
    Sessions = {s1}
    Users = {u1, u2}
    Versions = {v1}
    Options = {o1}
    OptionsOf <- OneVersion
    Prompted = {v1}
    WithOp = {o1}
    Fallback = NULL
    Providers = {g}
    Requests = {r1, r2}
    ResendsOverlap = TRUE
    NULL = NULL
    v1 = v1
    v2 = v2
    o1 = o1
    o2 = o2
PROPERTIES OwnerNeverChanges
