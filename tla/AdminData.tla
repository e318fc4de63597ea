------------------------------ MODULE AdminData ------------------------------
(* What the modules of the admin's dashboard have in common. *)
CONSTANTS
    Diagnostics,   \* diagnostics, naturals in the order of their codes
    Versions,      \* ids of versions, positive, in the order of their creation
    DiagnosticOf,  \* the diagnostic of each version
    Nil
=============================================================================
