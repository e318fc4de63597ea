--------------------------- MODULE SessionContract --------------------------
(***************************************************************************)
(* What a session promises its user when answers that are sent again share *)
(* one with the first: it is answered once, and every result it shows was  *)
(* generated from its own answers, with no cache in sight.                 *)
(* SessionPipeline implements it.                                          *)
(***************************************************************************)
EXTENDS SessionData

VARIABLES
    session,    \* NULL, or the version, owner, result and end of a session
    answered    \* the options a session was answered with

vars == <<session, answered>>

Init ==
    /\ session = [s \in Sessions |-> NULL]
    /\ answered = [s \in Sessions |-> {}]

StartSession(s, v, u) ==
    /\ session[s] = NULL
    /\ session' = [session EXCEPT ![s] =
           [version |-> v, user |-> u, result |-> NULL, ended |-> FALSE]]
    /\ UNCHANGED answered

AnswerSession(s, ids) ==
    /\ session[s] # NULL
    /\ answered[s] = {}
    /\ ids # {}
    /\ ids \subseteq OptionsOf[session[s].version]
    /\ answered' = [answered EXCEPT ![s] = ids]
    /\ UNCHANGED session

ShowResult(s, p) ==
    /\ session[s] # NULL
    /\ answered[s] # {}
    /\ session' = [session EXCEPT
           ![s].result = [options |-> answered[s], provider |-> p],
           ![s].ended  = TRUE]
    /\ UNCHANGED answered

EndSession(s) ==
    /\ session[s] # NULL
    /\ session' = [session EXCEPT ![s].ended = TRUE]
    /\ UNCHANGED answered

\* Some or all of the sessions change owner, and all of them together; two
\* overlapping claims of a session may both succeed.
ClaimSessions(claimed, u) ==
    /\ \A s \in claimed : session[s] # NULL
    /\ session' = [s \in Sessions |->
           IF s \in claimed THEN [session[s] EXCEPT !.user = u, !.ended = TRUE]
           ELSE session[s]]
    /\ UNCHANGED answered

Next ==
    \/ \E s \in Sessions :
          \/ \E v \in Versions, u \in Users \cup {NULL} : StartSession(s, v, u)
          \/ \E ids \in SUBSET Options : AnswerSession(s, ids)
          \/ \E p \in Providers : ShowResult(s, p)
          \/ EndSession(s)
    \/ \E claimed \in SUBSET Sessions, u \in Users : ClaimSessions(claimed, u)

Spec == Init /\ [][Next]_vars
=============================================================================
