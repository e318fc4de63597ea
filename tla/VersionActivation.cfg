\* Drafts and finalized versions of one or two diagnostics, two overlapping requests.
SPECIFICATION PreparedFairSpec
CONSTANTS
    Requests = {r1, r2}
    Diagnostics = {1, 2}
    Versions = {v1, v2}
    Names = {v1, v2}
    Prompts = {}
    Questions = {q1}
    Outcomes = {o1}
    Sheets <- FullSheets
    NULL = NULL
    MaxAudit = 9
INVARIANTS ActivationChain
PROPERTIES EveryRequestAnswered
