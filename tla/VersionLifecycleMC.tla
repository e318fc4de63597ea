------------------------- MODULE VersionLifecycleMC -------------------------
(* Instances of VersionLifecycle for TLC. *)
EXTENDS VersionLifecycle, TLC

\* A question with an active option and an outcome: finalize accepts it.
FullSheet  == [questions |-> Questions,
               options   |-> [q_code : Questions, is_active : {TRUE}],
               outcomes  |-> Outcomes]
\* The only option is inactive: imported, but not finalizable.
InactiveSheet == [FullSheet EXCEPT !.options = [q_code : Questions, is_active : {FALSE}]]
\* An option of a question the sheet does not list: the importer refuses it.
OrphanSheet == [FullSheet EXCEPT !.questions = {}]

FullSheets == {FullSheet}
AllSheets  == {FullSheet, InactiveSheet, OrphanSheet}

Symmetry == Permutations(Requests)
EditorSymmetry == Symmetry \cup Permutations(Versions) \cup Permutations(Names)

\* The behaviours in which no two requests edit one version at a time.
OneEditorSpec == Init /\ [][Next /\ OneEditorPerVersion']_vars
=============================================================================
