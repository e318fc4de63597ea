\* Overlapping requests against the API documents.
SPECIFICATION Spec
CONSTANTS
    Requests = {r1, r2}
    Diagnostics = {1}
    Versions = {v1}
    Names = {n1}
    Prompts = {p1}
    Questions = {q1}
    Outcomes = {o1}
    Sheets <- AllSheets
    NULL = NULL
    MaxAudit = 5
PROPERTIES PromptFrozen
