---------------------------- MODULE Screens_proofs ----------------------------
(***************************************************************************)
(* The composition of the screens is each of its parts: whichever part     *)
(* moves, the specification of every part holds of that part's variables,  *)
(* so that the theorems about the parts are theorems about the             *)
(* composition that TLC checks.                                            *)
(***************************************************************************)
EXTENDS ScreensMC, ClientSession_proofs, VisitorScreens_proofs, AdminScreens_proofs,
        AuthTokens_proofs, ServerParts_proofs

\* The specifications of the parts, each over its own variables.
PartSpecs ==
    /\ ClientSpec /\ FormSpec /\ ResultSpec /\ UiSpec
    /\ ConsoleSpec /\ ActivationSpec /\ AuthSpec /\ ServingSpec /\ CatalogSpec

\* What each part promises of its states, but its types.
PartsAreSafe ==
    /\ UnlinkedResultsAreGenuine /\ LinkedMeansOwned
    /\ SentIsComplete /\ NothingSkipped
    /\ RankingsAreTheAnswer /\ SelectionIsShown
    /\ ScrollFollowsOverlays
    /\ ShownIsSelected /\ OwnWritesShown /\ SavedTextIsOwn /\ FinalizedUnderItsDiagnostic
    /\ ActiveIsOwn /\ OwnActivationsShown
    /\ RotationRetires
    /\ OnlyLoopAndThreadsStall
    /\ SheetIsShown

-----------------------------------------------------------------------------
\* Every part starts in an initial state of its own.
LEMMA PartsStart ==
    ASSUME Init
    PROVE  /\ ClientInit /\ FormInit /\ ResultInit /\ UiInit
           /\ ConsoleInit /\ ActivationInit /\ AuthInit /\ ServingInit /\ CatalogInit
BY DEF Init

\* A step is one of a part, and leaves the variables of the others alone.
LEMMA PartsStep ==
    ASSUME [Next]_vars
    PROVE  /\ [ClientNext]_clientVars
           /\ [FormNext]_formVars
           /\ [ResultNext]_resultVars
           /\ [ToastStep \/ OverlayStep]_uiVars
           /\ [ConsoleNext]_adminVars
           /\ [ActivationNext]_activationVars
           /\ [AuthNext]_authVars
           /\ [ServingNext]_servingVars
           /\ [CatalogNext]_catalogVars
<1>1. CASE UNCHANGED vars
  BY <1>1 DEF vars
<1>2. CASE ClientPart
  BY <1>2 DEF ClientPart, RestOf
<1>3. CASE FormPart
  BY <1>3 DEF FormPart, RestOf
<1>4. CASE ResultPart
  BY <1>4 DEF ResultPart, RestOf
<1>5. CASE UiPart
  BY <1>5 DEF UiPart, RestOf
<1>6. CASE ConsolePart
  BY <1>6 DEF ConsolePart, RestOf
<1>7. CASE ActivationPart
  BY <1>7 DEF ActivationPart, RestOf
<1>8. CASE AuthPart
  BY <1>8 DEF AuthPart, RestOf
<1>9. CASE ServingPart
  BY <1>9 DEF ServingPart, Browsers
<1>10. CASE CatalogPart
  BY <1>10 DEF CatalogPart, Browsers
<1>11. QED
  BY <1>1, <1>2, <1>3, <1>4, <1>5, <1>6, <1>7, <1>8, <1>9, <1>10 DEF Next

\* The composition implements every part of it (the parts share no state).
THEOREM ScreensAreTheirParts == Spec => PartSpecs
<1>1. Init => /\ ClientInit /\ FormInit /\ ResultInit /\ UiInit
              /\ ConsoleInit /\ ActivationInit /\ AuthInit /\ ServingInit /\ CatalogInit
  BY PartsStart
<1>2. [Next]_vars => /\ [ClientNext]_clientVars
                     /\ [FormNext]_formVars
                     /\ [ResultNext]_resultVars
                     /\ [ToastStep \/ OverlayStep]_uiVars
                     /\ [ConsoleNext]_adminVars
                     /\ [ActivationNext]_activationVars
                     /\ [AuthNext]_authVars
                     /\ [ServingNext]_servingVars
                     /\ [CatalogNext]_catalogVars
  BY PartsStep
<1>3. QED
  BY <1>1, <1>2, PTL DEF Spec, PartSpecs, ClientSpec, FormSpec, ResultSpec, UiSpec,
                         ConsoleSpec, ActivationSpec, AuthSpec, ServingSpec, CatalogSpec

\* Every part stays within its types, whichever parts there are.
THEOREM ScreensTypeCorrect == Spec => []ScreensTypeOK
<1>1. ActivationInv => ActivationTypeOK
  BY DEF ActivationInv
<1>2. AuthInv => AuthTypeOK
  BY DEF AuthInv
<1>3. ServingInv => ServingTypeOK
  BY DEF ServingInv
<1>4. ClientTypeOK /\ UiTypeOK /\ ActivationTypeOK /\ AuthTypeOK /\ ServingTypeOK
        => ScreensTypeOK
  BY DEF ScreensTypeOK
<1>5. QED
  BY <1>1, <1>2, <1>3, <1>4, ScreensAreTheirParts, ClientTypeCorrect, UiTypeCorrect,
     ActivationInvHolds, AuthInvHolds, ServingInvHolds, PTL DEF PartSpecs

\* Every safety invariant of a screen, of the sign-in, of the server's scheduling and of the
\* importer holds in the composition.
THEOREM ScreensAreSafe == Spec => []PartsAreSafe
<1>1. Spec => /\ []UnlinkedResultsAreGenuine /\ []LinkedMeansOwned
              /\ []SentIsComplete /\ []NothingSkipped
              /\ []RankingsAreTheAnswer /\ []SelectionIsShown /\ []ScrollFollowsOverlays
  BY ScreensAreTheirParts, ResultsAreGenuine, LinksAreOwned, SendsAllAnswers, SkipsNothing,
     ShowsTheAnswer, ScreenShowsTheSelection, ScrollIsRestored, PTL DEF PartSpecs
<1>2. Spec => /\ []ShownIsSelected /\ []OwnWritesShown /\ []SavedTextIsOwn
              /\ []FinalizedUnderItsDiagnostic /\ []ActiveIsOwn /\ []OwnActivationsShown
  BY ScreensAreTheirParts, ShowsTheSelection, ShowsItsOwnWrites, SavesItsOwnText,
     FinalizesUnderItsDiagnostic, ActiveOwnHolds, ActivationsShownHolds, PTL DEF PartSpecs
<1>3. Spec => []RotationRetires /\ []OnlyLoopAndThreadsStall /\ []SheetIsShown
  BY ScreensAreTheirParts, RotationHolds, OnlyLoopAndThreadsStallHolds, ImportShowsTheSheet,
     PTL DEF PartSpecs
<1>4. /\ UnlinkedResultsAreGenuine /\ LinkedMeansOwned
      /\ SentIsComplete /\ NothingSkipped
      /\ RankingsAreTheAnswer /\ SelectionIsShown /\ ScrollFollowsOverlays
      /\ ShownIsSelected /\ OwnWritesShown /\ SavedTextIsOwn
      /\ FinalizedUnderItsDiagnostic /\ ActiveIsOwn /\ OwnActivationsShown
      /\ RotationRetires /\ OnlyLoopAndThreadsStall /\ SheetIsShown
      => PartsAreSafe
  BY DEF PartsAreSafe
<1>5. QED
  BY <1>1, <1>2, <1>3, <1>4, PTL

\* What no step of a screen or of the sign-in may do, no step of the composition does.
THEOREM ScreensStepsAreSafe == Spec => SubmitStartsNothing /\ ShownLongEnough /\ RevokedIsFinal
BY ScreensAreTheirParts, SubmitStartsNone, NoFlash, RevocationHolds, PTL DEF PartSpecs
=============================================================================
