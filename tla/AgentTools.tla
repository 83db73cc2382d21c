----------------------------- MODULE AgentTools -----------------------------
(***************************************************************************)
(* What the agent's tools leave behind, and what they report, when their   *)
(* steps are interrupted and retried: CoreAgentToolExecutor                *)
(* (lib/agent/tools.ts) under the retries of lib/agent/runtime.ts and      *)
(* postgres-store.ts.                                                      *)
(*                                                                         *)
(* Ids are derived from the tool call's idempotency key, and the key from  *)
(* the step and the attempt.  An attempt that timed out is abandoned, not  *)
(* stopped: its statements may still run beside those of the next attempt. *)
(*                                                                         *)
(* Abstractions.  One step for each tool; an id is its key.  Which step is *)
(* next is the subject of AgentRuntime: here any may be, within the run's  *)
(* steps.  The reading tools are alike, one request or one statement that  *)
(* keeps nothing, but for the one that reads twice.                        *)
(*                                                                         *)
(* Faulty variants, used by nothing: SkipsFailedInserts, MovesUnrecorded.  *)
(***************************************************************************)
EXTENDS Naturals, FiniteSets, Sequences

CONSTANTS
  ToolStep,           \* the steps that may run: names of tools
  RunSteps,           \* max_steps of the run
  ArtifactType,       \* artifactTypes of prepare_application
  MaxTries,           \* max_attempts of a step
  MaxHitches          \* bound: statements and requests that fail

ReadingTool ==
  {"search_jobs", "get_job", "compare_jobs", "rank_jobs", "analyze_job", "get_search_strategy",
   "get_search_coverage", "get_source_scan_status", "get_followups", "get_notifications",
   "research_company", "research_compensation", "find_contact"}
ASSUME ToolsAssumption ==
  /\ ToolStep \subseteq ReadingTool \cup
       {"create_search_strategy", "revise_search_strategy", "prepare_application",
        "prepare_interview", "get_application_state", "update_application_state",
        "request_source_scan"}
  /\ MaxTries \in Nat \ {0} /\ {RunSteps, MaxHitches} \subseteq Nat

VARIABLES
  tries,              \* attempt_count of each step
  outcome,            \* the step: "pending", "running", "succeeded", "failed"
  progress,           \* per step and attempt: "none", "begun", "ended"
  strategies,         \* search_strategies the agent made, by key
  revisions,          \* revisions of the revised strategy, in their versions' order
  activeRevision,     \* its active_revision_id, a key
  artifacts,          \* generated_application_artifacts: key and type
  applicationStage,   \* the application's stage: who set it
  activity,           \* application_activities, by key
  scans,              \* source runs, by key
  stageRead,          \* what each attempt of get_application_state read first
  reported,           \* and the stages and histories it reported
  hitches             \* bound counter

kept == <<strategies, revisions, activeRevision, artifacts, applicationStage, activity, scans>>
readings == <<stageRead, reported>>
toolVars == <<tries, outcome, progress, kept, readings, hitches>>

Key == ToolStep \X (1 .. MaxTries)
First == <<"person", 1>>
Unread == <<"nobody", 0>>

ToolsInit ==
  /\ tries = [s \in ToolStep |-> 0] /\ outcome = [s \in ToolStep |-> "pending"]
  /\ progress = [k \in Key |-> "none"]
  /\ strategies = {} /\ artifacts = {} /\ activity = {} /\ hitches = 0
  /\ revisions = <<First>> /\ activeRevision = First
  /\ applicationStage = First /\ scans = {}
  /\ stageRead = [i \in 1 .. MaxTries |-> Unread] /\ reported = {}
-----------------------------------------------------------------------------
\* createToolCall: a call whose idempotency key ends in the attempt.  A run
\* executes one step at a time, and pays for each attempt.
StartAttempt(s) ==
  /\ Cardinality({k \in Key : progress[k] # "none"}) < RunSteps
  /\ outcome[s] = "pending" /\ tries[s] < MaxTries
  /\ \A other \in ToolStep : outcome[other] # "running"
  /\ tries' = [tries EXCEPT ![s] = @ + 1]
  /\ outcome' = [outcome EXCEPT ![s] = "running"]
  /\ progress' = [progress EXCEPT ![<<s, tries'[s]>>] = "begun"]
  /\ UNCHANGED <<kept, readings, hitches>>

Current(k) == k[2] = tries[k[1]] /\ outcome[k[1]] = "running"
Retried(s) == IF tries[s] < MaxTries THEN "pending" ELSE "failed"

\* The tool's deadline passes, or the run is interrupted and recovered: the
\* step is retried, its attempt goes on or is lost with the process.
AbandonAttempt(k) ==
  /\ Current(k) /\ progress[k] = "begun" /\ hitches < MaxHitches /\ hitches' = hitches + 1
  /\ outcome' = [outcome EXCEPT ![k[1]] = Retried(k[1])]
  /\ progress' \in {progress, [progress EXCEPT ![k] = "ended"]}
  /\ UNCHANGED <<tries, kept, readings>>

\* The attempt ends with an answer, or with a tool failure; an abandoned one
\* is not listened to any more.
Ends(k, answer) ==
  /\ progress' = [progress EXCEPT ![k] = "ended"]
  /\ outcome' = IF Current(k) THEN [outcome EXCEPT ![k[1]] = answer] ELSE outcome
  /\ UNCHANGED <<tries, hitches>>

\* A statement or a request fails, what its transaction did is undone.
FailAttempt(k) ==
  /\ hitches < MaxHitches /\ hitches' = hitches + 1
  /\ progress[k] = "begun"
  /\ progress' = [progress EXCEPT ![k] = "ended"]
  /\ outcome' = IF Current(k) THEN [outcome EXCEPT ![k[1]] = Retried(k[1])] ELSE outcome
  /\ UNCHANGED <<tries, kept, readings>>

Running(k, tool) == k[1] = tool /\ progress[k] = "begun"
-----------------------------------------------------------------------------
\* One transaction: the strategy and its first revision.
CreateSearchStrategy(k) ==
  /\ Running(k, "create_search_strategy")
  /\ strategies' = strategies \cup {k} /\ Ends(k, "succeeded")
  /\ UNCHANGED <<revisions, activeRevision, artifacts, applicationStage, activity, scans, readings>>

\* One transaction that locks the strategy: the next version becomes active.
ReviseSearchStrategy(k) ==
  /\ Running(k, "revise_search_strategy")
  /\ revisions' = Append(revisions, k) /\ activeRevision' = k /\ Ends(k, "succeeded")
  /\ UNCHANGED <<strategies, artifacts, applicationStage, activity, scans, readings>>

\* One statement for each artifact, no transaction around them.
Missing(k) == {t \in ArtifactType : <<k, t>> \notin artifacts}
SkipsFailedInserts(k) == Cardinality(Missing(k)) < 2
AllInserted(k) == Missing(k) = {}
PrepareApplication(k) ==
  /\ Running(k, "prepare_application")
  /\ UNCHANGED <<strategies, revisions, activeRevision, applicationStage, activity, scans, readings>>
  /\ \/ /\ AllInserted(k) /\ Ends(k, "succeeded") /\ UNCHANGED artifacts
     \/ \E t \in Missing(k) :
          artifacts' = artifacts \cup {<<k, t>>} /\ UNCHANGED <<tries, outcome, progress, hitches>>

PrepareInterview(k) ==
  /\ Running(k, "prepare_interview")
  /\ artifacts' = artifacts \cup {<<k, "interview">>} /\ Ends(k, "succeeded")
  /\ UNCHANGED <<strategies, revisions, activeRevision, applicationStage, activity, scans, readings>>

\* One transaction: the stage and the activity that records it.
MovesUnrecorded(k) == IF Current(k) THEN activity \cup {k} ELSE activity
Recorded(k) == activity \cup {k}
UpdateApplicationState(k) ==
  /\ Running(k, "update_application_state")
  /\ applicationStage' = k /\ activity' = Recorded(k) /\ Ends(k, "succeeded")
  /\ UNCHANGED <<strategies, revisions, activeRevision, artifacts, scans, readings>>

\* Scout begins the source run named by the key, or answers what it found.
RequestSourceScan(k) ==
  /\ Running(k, "request_source_scan") /\ Ends(k, "succeeded")
  /\ scans' = scans \cup {k}
  /\ UNCHANGED <<strategies, revisions, activeRevision, artifacts, applicationStage, activity,
                 readings>>

\* One statement, or one request to Scout: nothing is kept.
ReadTool(k) ==
  /\ k[1] \in ReadingTool /\ progress[k] = "begun" /\ Ends(k, "succeeded")
  /\ UNCHANGED <<kept, readings>>

\* The application, then its activities: two statements, no transaction.
GetApplicationState(k) ==
  /\ Running(k, "get_application_state")
  /\ UNCHANGED kept
  /\ \/ /\ stageRead[k[2]] = Unread /\ stageRead' = [stageRead EXCEPT ![k[2]] = applicationStage]
        /\ UNCHANGED <<reported, tries, outcome, progress, hitches>>
     \/ /\ stageRead[k[2]] # Unread /\ Ends(k, "succeeded") /\ UNCHANGED stageRead
        /\ reported' = reported \cup {[stage |-> stageRead[k[2]], history |-> activity]}

\* The person moves the application too.
PersonMoves ==
  /\ applicationStage' = First
  /\ UNCHANGED <<tries, outcome, progress, strategies, revisions, activeRevision, artifacts,
                 activity, scans, readings, hitches>>
-----------------------------------------------------------------------------
ToolsNext ==
  \/ PersonMoves
  \/ \E s \in ToolStep : StartAttempt(s)
  \/ \E k \in Key :
       \/ AbandonAttempt(k) \/ FailAttempt(k)
       \/ CreateSearchStrategy(k) \/ ReviseSearchStrategy(k) \/ PrepareApplication(k)
       \/ PrepareInterview(k) \/ UpdateApplicationState(k) \/ RequestSourceScan(k)
       \/ ReadTool(k) \/ GetApplicationState(k)

ToolsSpec == ToolsInit /\ [][ToolsNext]_toolVars
-----------------------------------------------------------------------------
\* Steps, attempts and what they kept stay within their domains.
ToolsTypeOK ==
  /\ tries \in [ToolStep -> 0 .. MaxTries] /\ progress \in [Key -> {"none", "begun", "ended"}]
  /\ outcome \in [ToolStep -> {"pending", "running", "succeeded", "failed"}]
  /\ strategies \cup activity \cup scans \subseteq Key
  /\ artifacts \subseteq Key \X (ArtifactType \cup {"interview"})
  /\ {applicationStage, activeRevision} \subseteq Key \cup {First}
  /\ stageRead \in [1 .. MaxTries -> Key \cup {First, Unread}]

\* A step that reports its application prepared has every artifact it names,
\* though they are inserted one by one and earlier attempts left some.
PreparedMeansComplete ==
  \A s \in ToolStep : s = "prepare_application" /\ outcome[s] = "succeeded"
    => {<<s, tries[s]>>} \X ArtifactType \subseteq artifacts

\* No move of an application by the agent is missing from its history, also
\* when it comes from an attempt that was given up; nor from the history that
\* is reported with the stage, though the two are read apart.
MovesAreRecorded ==
  /\ applicationStage \in activity \cup {First}
  /\ \A answer \in reported : answer.stage \in answer.history \cup {First}
=============================================================================
