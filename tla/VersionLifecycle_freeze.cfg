\* One version under three overlapping requests.
SPECIFICATION Spec
CONSTANTS
    Requests = {r1, r2, r3}
    Diagnostics = {1}
    Versions = {v1}
    Names = {n1}
    Prompts = {p1}
    Questions = {q1}
    Outcomes = {o1}
    Sheets <- AllSheets
    NULL = NULL
    MaxAudit = 5
SYMMETRY Symmetry
INVARIANTS IInv AuditOrder
PROPERTIES StructureFrozen SrcHashWriteOnce ImplementsContract
