------------------------------ MODULE WebProofs -------------------------------
(***************************************************************************)
(* The modules of the web application together, for any values of the      *)
(* constants.  WebSpec moves one module, the scene, and leaves the others  *)
(* where they began: each module therefore takes only steps of its own     *)
(* specification, and what is proved of the modules one by one holds of    *)
(* the whole.                                                              *)
(***************************************************************************)
EXTENDS MCWeb, RequestProofs, EditProofs, AgentStepProofs, BoardProofs, TLAPS

\* Whatever the scene, every module behaves as it does alone.
THEOREM EachAsAlone ==
  WebSpec => /\ WorkspaceSpec /\ RecordsSpec /\ EditsSpec /\ SearchSpec /\ BoardSpec
             /\ OnboardingSpec /\ DigestSpec /\ WorkersSpec /\ ToolsSpec
<1>1. WebInit => /\ WorkspaceInit /\ RecordsInit /\ EditsInit /\ SearchInit /\ BoardInit
                 /\ OnboardingInit /\ DigestInit /\ WorkersInit /\ ToolsInit
  BY DEF WebInit
<1>2. [WebNext]_webVars =>
        /\ [WorkspaceNext]_workspaceVars /\ [RecordsNext]_recordVars /\ [EditsNext]_editVars
        /\ [SearchNext]_searchVars /\ [BoardNext]_boardVars /\ [OnboardingNext]_onboardingVars
        /\ [DigestNext]_digestVars /\ [WorkersNext]_workersVars /\ [ToolsNext]_toolVars
  BY DEF WebNext, WorkspaceSteps, RecordsSteps, SearchesNext, webVars
<1> QED
  BY <1>1, <1>2, PTL DEF WebSpec, WorkspaceSpec, RecordsSpec, EditsSpec, SearchSpec, BoardSpec,
     OnboardingSpec, DigestSpec, WorkersSpec, ToolsSpec

\* The variables of every module stay within their domains.
THEOREM WebStaysTyped == WebSpec => []WebTypeOK
<1>1. WebTypeOK <=> /\ WorkspaceTypeOK /\ RecordsTypeOK /\ EditsTypeOK /\ SearchTypeOK /\ BoardTypeOK
                    /\ OnboardingTypeOK /\ DigestTypeOK /\ WorkersTypeOK /\ ToolsTypeOK
  BY DEF WebTypeOK
<1> QED
  BY <1>1, EachAsAlone, WorkspaceTyped, RecordsStayTyped, EditsStayTyped, SearchTyped, BoardStaysTyped,
     OnboardingStaysTyped, DigestTyped, WorkersTyped, ToolsTyped, PTL

\* Whatever is clicked, answered late, retried or lost: what was saved is
\* stored, the screen and the row agree, what is shown belongs together, and
\* no digest, attempt or move is counted that did not happen.
WebSafe ==
  /\ SavedMeansStored /\ ScreenMeetsRow /\ DismissalsMatch /\ StrategiesWellFormed
  /\ ShownTogether /\ RestoreYields /\ LineageEarned /\ StepHasItsData
  /\ OneDigestAWeek /\ MarkedMeansDelivered /\ AttemptsCharged /\ BatchesSuffice
  /\ PreparedMeansComplete /\ MovesAreRecorded /\ MovesLead
THEOREM WebStaysSafe == WebSpec => []WebSafe
<1>1. WebSafe <=> /\ SavedMeansStored /\ ScreenMeetsRow /\ DismissalsMatch /\ StrategiesWellFormed
                  /\ ShownTogether /\ RestoreYields /\ LineageEarned /\ StepHasItsData
                  /\ OneDigestAWeek /\ MarkedMeansDelivered /\ AttemptsCharged /\ BatchesSuffice
                  /\ PreparedMeansComplete /\ MovesAreRecorded /\ MovesLead
  BY DEF WebSafe
<1> QED
  BY <1>1, EachAsAlone, SavedIsStored, ScreenAndRowMeet, DismissalsFollow, StrategiesAreSound,
     ResultsOfTheSearchShown, RestoringYields, VerifiedIsEarned, StepsHaveTheirData,
     DigestsAWeekApart, GateClosesOnDelivery, AttemptsAreCharged, BatchesAreEnough,
     PreparedIsComplete, MovesRecorded, MovesLeadToTheStage, PTL

\* However the modules move: the saved document changes as a versioned one, a
\* tab's save takes no other's place unseen, a digest is delivered only to who
\* wants one, and a worker's result is undone only by who has it in hand.
THEOREM WebStepsSafe ==
  WebSpec => ImplementsDocument /\ SavedEditsStay /\ OnlyWantedDigests /\ ResultsKept
BY EachAsAlone, WorkspaceIsDocument, SavedEditsAreKept, DigestsAreWanted, ResultsAreKept
=============================================================================
