--------------------------- MODULE VersionContract --------------------------
(***************************************************************************)
(* What the admin API promises of diagnostic versions, without requests,   *)
(* snapshots or locks: every operation is one atomic step on the tables.   *)
(* VersionLifecycle implements it.                                         *)
(*                                                                         *)
(* It states what overlapping requests leave true.  A finalized version    *)
(* keeps its structure and its src_hash, and src_hash covers a complete    *)
(* structure that was imported into this version; it need not be the       *)
(* structure the version has (FreezeVersion), and the prompt may still     *)
(* change after finalization (SetPrompt).                                  *)
(***************************************************************************)
EXTENDS VersionData

VARIABLES
    version,    \* the row of each version, or NULL
    structure,  \* the structure of each version
    active,     \* the active version of each diagnostic, or NULL
    imported    \* every structure ever imported into each version

vars == <<version, structure, active, imported>>

Draft(v)  == version[v] # NULL /\ version[v].src_hash = NULL
Final(v)  == version[v] # NULL /\ version[v].src_hash # NULL

Init ==
    /\ version = [v \in Versions |-> NULL]
    /\ structure = [v \in Versions |-> EmptyStructure]
    /\ active = [d \in Diagnostics |-> NULL]
    /\ imported = [v \in Versions |-> {}]

CreateVersion(v, d, n, p) ==
    /\ version[v] = NULL
    /\ ~NameTaken(version, d, n)
    /\ version' = [version EXCEPT ![v] =
           [diagnostic |-> d, name |-> n, prompt |-> p, src_hash |-> NULL]]
    /\ UNCHANGED <<structure, active, imported>>

SetPrompt(v, p) ==
    /\ version[v] # NULL
    /\ version' = [version EXCEPT ![v].prompt = p]
    /\ UNCHANGED <<structure, active, imported>>

ImportStructure(v, s) ==
    /\ Draft(v)
    /\ structure' = [structure EXCEPT ![v] = s]
    /\ imported' = [imported EXCEPT ![v] = @ \cup {s}]
    /\ UNCHANGED <<version, active>>

FreezeVersion(v, s) ==
    /\ Draft(v)
    /\ s \in imported[v]
    /\ Complete(s)
    /\ version' = [version EXCEPT ![v].src_hash = BuildSrcHash(version[v].prompt, s)]
    /\ UNCHANGED <<structure, active, imported>>

ActivateVersion(v) ==
    /\ Final(v)
    /\ active' = [active EXCEPT ![version[v].diagnostic] = v]
    /\ UNCHANGED <<version, structure, imported>>

Next ==
    \E v \in Versions :
        \/ \E d \in Diagnostics, n \in Names, p \in Prompt : CreateVersion(v, d, n, p)
        \/ \E p \in Prompt : SetPrompt(v, p)
        \/ \E s \in Sheets : ImportStructure(v, s)
        \/ \E s \in Structure : FreezeVersion(v, s)
        \/ ActivateVersion(v)

Spec == Init /\ [][Next]_vars
=============================================================================
