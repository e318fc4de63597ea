----------------------------- MODULE VersionData ----------------------------
(***************************************************************************)
(* The rows of a diagnostic version and what the handlers compute of them, *)
(* shared by the modules about versions.                                   *)
(***************************************************************************)
EXTENDS Naturals

CONSTANTS
    Diagnostics,   \* primary keys of diagnostics
    Versions,      \* primary keys of diagnostic_versions
    Names,         \* version names
    Prompts,       \* non-empty system prompts
    Questions,     \* q_code values
    Outcomes,      \* keys of the outcome master
    Sheets,        \* workbooks whose cells the parser accepts
    NULL

\* version_options, up to what finalize counts.
OptionRow == [q_code : Questions, is_active : BOOLEAN]

\* The questions, options and outcomes of a version, or of a workbook.
Structure == [questions : SUBSET Questions,
              options   : SUBSET OptionRow,
              outcomes  : SUBSET Outcomes]

Prompt == Prompts \cup {NULL}

\* SHA-256 of the content, taken to be injective.
SrcHash == [prompt : Prompt, structure : Structure]

VersionRow == [diagnostic : Diagnostics, name : Names, prompt : Prompt,
               src_hash : SrcHash \cup {NULL}]

ASSUME DiagnosticsAreKeys == Diagnostics \subseteq Nat
ASSUME NullIsFresh == NULL \notin Diagnostics \cup Versions \cup Prompts
ASSUME NullIsNoRecord == NULL \notin SrcHash \cup VersionRow
ASSUME SheetsAreStructures == Sheets \subseteq Structure

EmptyStructure == [questions |-> {}, options |-> {}, outcomes |-> {}]

BuildSrcHash(prompt, s) == [prompt |-> prompt, structure |-> s]

\* The dependency checks of finalize.
Complete(s) ==
    /\ s.questions # {}
    /\ \A q \in s.questions : [q_code |-> q, is_active |-> TRUE] \in s.options
    /\ s.outcomes # {}

\* The importer refuses an option whose question the sheet does not list.
WellFormed(sheet) == \A o \in sheet.options : o.q_code \in sheet.questions

\* uq_diagnostic_versions_diagnostic_name over the version table rows.
NameTaken(rows, d, n) ==
    \E v \in Versions : /\ rows[v] # NULL
                        /\ rows[v].diagnostic = d
                        /\ rows[v].name = n
=============================================================================
