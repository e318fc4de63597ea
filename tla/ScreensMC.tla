------------------------------ MODULE ScreensMC ------------------------------
(***************************************************************************)
(* The parts of the two browser applications, and two of the server's, one *)
(* at a time: `part` is chosen in the initial state and only that part     *)
(* moves.  The parts share no state, so a property of one of them holds    *)
(* here exactly when it holds of that part alone.                          *)
(***************************************************************************)
EXTENDS ClientSession, QuestionForm, ResultDocument, UiFeedback,
        AdminConsole, ActivationDialog, AuthTokens, RequestServing,
        OptionCatalog, TLC

CONSTANTS Parts, a1, u1, t1, t2, o1, o2, c1, c2, s1, s2, s3, k1, k2, k3

VARIABLE part

MCDiagnosticOf == [v \in Versions |-> IF v = 3 THEN 2 ELSE 1]
MCOptionsFor == [q \in Questions |-> IF q = 1 THEN {1, 2} ELSE {q + 1}]
MCCandidates == {[name |-> a1, scores |-> ("t" :> 120 @@ "p" :> 40)],
                 [name |-> Null, scores |-> ("t" :> Missing @@ "p" :> -5)]}

vars == <<part, clientVars, formVars, resultVars, uiVars, adminVars, activationVars, authVars,
          servingVars, catalogVars>>

Init ==
    /\ part \in Parts
    /\ ClientInit /\ FormInit /\ ResultInit /\ UiInit
    /\ ConsoleInit /\ ActivationInit /\ AuthInit /\ ServingInit /\ CatalogInit
    /\ part # "auth" => realm = CHOOSE r \in Realms : TRUE

\* What does not move with a part of the browser.
RestOf(browserVars) == UNCHANGED <<part, browserVars, servingVars, catalogVars>>
Browsers == UNCHANGED <<part, clientVars, formVars, resultVars, uiVars, adminVars, activationVars,
                        authVars>>

ClientPart ==
    /\ part = "client" /\ ClientNext
    /\ RestOf(<<formVars, resultVars, uiVars, adminVars, activationVars, authVars>>)
FormPart ==
    /\ part = "form" /\ FormNext
    /\ RestOf(<<clientVars, resultVars, uiVars, adminVars, activationVars, authVars>>)
ResultPart ==
    /\ part = "result" /\ ResultNext
    /\ RestOf(<<clientVars, formVars, uiVars, adminVars, activationVars, authVars>>)
UiPart ==
    /\ part = "feedback" /\ (ToastStep \/ OverlayStep)
    /\ RestOf(<<clientVars, formVars, resultVars, adminVars, activationVars, authVars>>)
ConsolePart ==
    /\ part = "console" /\ ConsoleNext
    /\ RestOf(<<clientVars, formVars, resultVars, uiVars, activationVars, authVars>>)
ActivationPart ==
    /\ part = "activation" /\ ActivationNext
    /\ RestOf(<<clientVars, formVars, resultVars, uiVars, adminVars, authVars>>)
AuthPart ==
    /\ part = "auth" /\ AuthNext
    /\ RestOf(<<clientVars, formVars, resultVars, uiVars, adminVars, activationVars>>)
ServingPart == part = "serving" /\ ServingNext /\ Browsers /\ UNCHANGED catalogVars
CatalogPart == part = "catalog" /\ CatalogNext /\ Browsers /\ UNCHANGED servingVars

Next == \/ ClientPart \/ FormPart \/ ResultPart \/ UiPart
        \/ ConsolePart \/ ActivationPart \/ AuthPart \/ ServingPart \/ CatalogPart

\* Every part stays within its types.
ScreensTypeOK == ClientTypeOK /\ UiTypeOK /\ ActivationTypeOK /\ AuthTypeOK /\ ServingTypeOK

Spec == Init /\ [][Next]_vars /\ ClientFairness /\ UiFairness
=============================================================================
