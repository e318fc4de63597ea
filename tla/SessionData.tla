----------------------------- MODULE SessionData ----------------------------
(***************************************************************************)
(* The constants and values shared by the modules about the sessions of    *)
(* one diagnostic.                                                         *)
(***************************************************************************)

CONSTANTS
    Sessions,      \* session codes
    Users,
    Versions,      \* finalized versions of the diagnostic
    Options,       \* primary keys of version_options
    OptionsOf,     \* the options of each version
    Providers,     \* values of settings.mode
    NULL

ASSUME OptionsOfVersions == OptionsOf \in [Versions -> SUBSET Options]
ASSUME NullIsNoValue == NULL \notin Sessions \cup Users \cup Versions

\* llm_result: the answers it was generated from, and its provider.
Document == [options : SUBSET Options, provider : Providers]

\* compute_version_options_hash, taken to be injective: the sorted option ids
\* stand for the set.  Every comparison is between hashes of one version.
Hash == SUBSET Options

SessionRow == [version : Versions, user : Users \cup {NULL}, hash : Hash,
               result : Document \cup {NULL}, ended : BOOLEAN]

\* A session as its user sees it: without the hash.
SessionView == [version : Versions, user : Users \cup {NULL},
                result : Document \cup {NULL}, ended : BOOLEAN]

ASSUME NullIsNoRecord == NULL \notin Document \cup SessionRow \cup SessionView
=============================================================================
