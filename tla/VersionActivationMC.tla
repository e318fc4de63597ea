------------------------- MODULE VersionActivationMC ------------------------
(***************************************************************************)
(* Activation under overlapping requests.  The behaviours start from a     *)
(* database that create, import and finalize, one version after another,   *)
(* leave behind: drafts and finalized versions, of one diagnostic or of    *)
(* several without an active version, whose rows would share a gap.        *)
(***************************************************************************)
EXTENDS VersionLifecycle, SequencesExt, TLC

FullSheet == [questions |-> Questions,
              options   |-> [q_code : Questions, is_active : {TRUE}],
              outcomes  |-> Outcomes]
FullSheets == {FullSheet}

Hash == BuildSrcHash(NULL, FullSheet)

\* The audit entries of a version that goes from creation to finalization.
Published(v) == << [action |-> "CREATE", version |-> v, value |-> NULL],
                   [action |-> "IMPORT", version |-> v, value |-> FullSheet],
                   [action |-> "FINALIZE", version |-> v, value |-> Hash] >>

\* The stage and the diagnostic of each version: all of one diagnostic and at most one a
\* draft, or of different ones and at the same stage.
FirstVersion == CHOOSE v \in Versions : TRUE
OfOne == {<<stage, owner>> \in [Versions -> {2, 3}] \X [Versions -> {1}] :
              \A v \in Versions \ {FirstVersion} : stage[v] = 3}
OfSeveral == {<<stage, owner>> \in [Versions -> {2, 3}] \X [Versions -> Diagnostics] :
                  \A v, w \in Versions : stage[v] = stage[w] /\ (v = FirstVersion <=> owner[v] = 1)}

\* A draft has the first two entries.  Each version is named by a name of its
\* own: Names contains Versions here.
PreparedInit ==
    \E <<stage, owner>> \in OfOne \cup OfSeveral :
    /\ version = [v \in Versions |->
           [diagnostic |-> owner[v], name |-> v, prompt |-> NULL,
            src_hash |-> IF stage[v] = 3 THEN Hash ELSE NULL]]
    /\ audit = FlattenSeq(SetToSeq({SubSeq(Published(v), 1, stage[v]) : v \in Versions}))
    /\ structure = [v \in Versions |-> FullSheet]
    /\ active = [d \in Diagnostics |-> NULL]
    /\ pc = [r \in Requests |-> "idle"]
    /\ op = [r \in Requests |-> "none"]
    /\ target = [r \in Requests |-> NULL]
    /\ snap = [r \in Requests |-> NoSnapshot]
    /\ previous = [r \in Requests |-> NULL]
    /\ answer = [r \in Requests |-> "none"]

\* The requests that take locks, and those that only read.
LockingNext ==
    \E r \in Requests :
        \/ \E o \in {"import", "finalize", "activate", "detail"}, v \in Versions :
              Begin(r, o, v)
        \/ BodyRefused(r)
        \/ Serve(r)
        \/ Fail(r)

PreparedFairSpec == PreparedInit /\ [][LockingNext]_vars /\ Fairness
=============================================================================
