-------------------------- MODULE SessionPipelineMC -------------------------
(* Instances of SessionPipeline for TLC. *)
EXTENDS SessionPipeline, TLC

CONSTANTS v1, v2, o1, o2

\* Every option is one of the only version.
OneVersion == [v \in Versions |-> Options]

\* Two versions with options of their own.
TwoVersions == [v \in Versions |-> IF v = v1 THEN {o1, o2} ELSE Options \ {o1, o2}]

\* Only v1 is activated: sessions started before that are of the fallback version.
OneActivation ==
    \/ \E r \in Requests : Arrive(r) \/ BodyRefused(r) \/ Serve(r) \/ Fail(r)
    \/ Activate(v1)
    \/ \E p \in Providers : Redeploy(p)

OneActivationSpec == Init /\ [][OneActivation]_vars /\ \A r \in Requests : SF_vars(Serve(r))

Symmetry == Permutations(Requests) \cup Permutations(Users)
=============================================================================
