------------------------------- MODULE MCWeb --------------------------------
(***************************************************************************)
(* Small instances, for TLC, of the modules of the web application that    *)
(* share no state: in a behaviour one of them, the scene, moves, and the   *)
(* others stay as they begin.  What is checked of a module in its scene is *)
(* what would be checked in a run of its own.                              *)
(***************************************************************************)
EXTENDS DailyWorkspace, ApplicationRecords, WorkspaceEdits, SearchClient, MCBoard,
        Onboarding, WeeklyDigest, AgentWorkers, AgentTools

VARIABLE scene

workspaceScene  == scene = "workspace"
recordsScene    == scene = "records"
editsScene      == scene = "edits"
searchScene     == scene = "search"
searchesScene   == scene = "searches"
boardScene      == scene = "board"
onboardingScene == scene = "onboarding"
digestScene     == scene = "digest"
workersScene    == scene = "workers"
toolsScene      == scene = "tools"

\* With the last edit, which is one more than there are tabs, nothing fails and
\* no agent writes.
WorkspaceSteps == WorkspaceNext /\ (made' = MaxEdits => lost' = 0 /\ tables' \subseteq Edit)

\* With the last change nothing is lost and no page is reloaded.
RecordsSteps == RecordsNext /\ (changes' = MaxChanges => failures' = 0 /\ reloads' = 0)

\* The searches come in two scenes.  In one there is one session, whose sources
\* end and whose requests and rankings fail; in the other there are two, of one
\* page each, whose requests overlap, but nothing fails and no source ends.
SearchesNext ==
  \/ searchScene /\ SearchNext /\ created' = 1
  \/ searchesScene /\ SearchNext /\ coordinator'.at = "idle" /\ drops' = 0
       /\ \A s \in SearchSession : pages'[s] <= 1

WebInit ==
  /\ scene \in {"workspace", "records", "edits", "search", "searches", "board",
               "onboarding", "digest", "workers", "tools"}
  /\ WorkspaceInit /\ RecordsInit /\ EditsInit /\ SearchInit /\ BoardInit
  /\ OnboardingInit /\ DigestInit /\ WorkersInit /\ ToolsInit
  /\ workspaceScene \/ revision = 0
  /\ sources[1] \in IF searchScene \/ searchesScene THEN {"active", "checked"} ELSE {"failed"}
  /\ boardScene \/ sourceStatus.failed = {}
  /\ workersScene \/ concurrency = 1

WebNext ==
  /\ UNCHANGED scene
  /\ IF workspaceScene THEN WorkspaceSteps ELSE UNCHANGED workspaceVars
  /\ IF recordsScene THEN RecordsSteps ELSE UNCHANGED recordVars
  /\ IF editsScene THEN EditsNext ELSE UNCHANGED editVars
  /\ IF searchScene \/ searchesScene THEN SearchesNext ELSE UNCHANGED searchVars
  /\ IF boardScene THEN BoardNext ELSE UNCHANGED boardVars
  /\ IF onboardingScene THEN OnboardingNext ELSE UNCHANGED onboardingVars
  /\ IF digestScene THEN DigestNext ELSE UNCHANGED digestVars
  /\ IF workersScene THEN WorkersNext ELSE UNCHANGED workersVars
  /\ IF toolsScene THEN ToolsNext ELSE UNCHANGED toolVars
webVars ==
  <<scene, workspaceVars, recordVars, editVars, searchVars, boardVars, onboardingVars,
    digestVars, workersVars, toolVars>>

\* Each module's fairness, in its scene.
WebFairness ==
  /\ \A t \in Tab : WF_workspaceVars(workspaceScene /\ Progress(t))
  /\ WF_searchVars((searchScene \/ searchesScene) /\ Poll)
  /\ WF_searchVars(searchScene /\ CoordinatorStep)
  /\ \A i \in 1 .. MaxCalls : WF_searchVars((searchScene \/ searchesScene) /\ CallMoves(i))
WebSpec == WebInit /\ [][WebNext]_webVars /\ WebFairness

\* Every module's variables stay within their domains.
WebTypeOK ==
  /\ WorkspaceTypeOK /\ RecordsTypeOK /\ EditsTypeOK /\ SearchTypeOK /\ BoardTypeOK
  /\ OnboardingTypeOK /\ DigestTypeOK /\ WorkersTypeOK /\ ToolsTypeOK
=============================================================================
