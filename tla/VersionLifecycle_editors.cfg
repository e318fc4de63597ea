\* Overlapping requests, each version edited by one of them at a time: what
\* the API documents promise holds.
SPECIFICATION OneEditorSpec
CONSTANTS
    Requests = {r1, r2}
    Diagnostics = {1}
    Versions = {v1, v2}
    Names = {n1, n2}
    Prompts = {p1}
    Questions = {q1}
    Outcomes = {o1}
    Sheets <- AllSheets
    NULL = NULL
    MaxAudit = 5
SYMMETRY EditorSymmetry
INVARIANTS FinalizedIsComplete HashIsOfContent AuditShowsPrompt
PROPERTIES PromptFrozen
