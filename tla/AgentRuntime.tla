---------------------------- MODULE AgentRuntime ----------------------------
(***************************************************************************)
(* One persistent career-agent run and the requests that advance it.       *)
(*                                                                         *)
(* Every resume() request (lib/agent/runtime.ts) claims a lease on the run *)
(* and then performs a sequence of separate database transactions          *)
(* (lib/agent/postgres-store.ts).  Each transaction is one action here, so *)
(* the interleavings of two requests whose leases overlap, and a crash     *)
(* between any two transactions, are behaviours of the model.  What a      *)
(* request remembers between transactions (its snapshot) is kept in loc.   *)
(*                                                                         *)
(* Abstractions.  Goals, arguments, outputs and messages are not           *)
(* represented; a tool is its kind.  A tool's outcome is any outcome.  The *)
(* parallel workers of a delegation are only the budget they charge.       *)
(* Times are "the lease/approval/run deadline has passed" flags.           *)
(*                                                                         *)
(* A few operators stand directly before the one they are a faulty variant *)
(* of: InterruptedWithCall, InterruptedOrWaiting, ReadyAnyhow,             *)
(* ConclusionOfTheUndone, BudgetExceeded, CancelsRunning,                  *)
(* FailedInThisPlan, SpentTwice, PendingAlone, ChargeNewCall,              *)
(* CancelAtOnce and EverAsked.  Nothing uses them; put in the place of the *)
(* real one, each breaks the property the README pairs it with.            *)
(***************************************************************************)
EXTENDS Integers, FiniteSets, Sequences

CONSTANTS
  Resumer,          \* resume() requests that may be in progress at one time
  Key,              \* step keys
  InitialPlan,      \* what planner.createPlan returns: a sequence of plan steps
  RevisedPlan,      \* what planner.revisePlan returns
  MaxPlans,         \* bound: plan versions the model can hold
  MaxSteps,         \* budget.maxSteps
  MaxToolCalls,     \* budget.maxToolCalls
  MaxCallAttempts,  \* CHECK (attempt BETWEEN 1 AND 10): 10 in the code
  MaxFaults,        \* bound: crashes and failed transactions
  SlowHolders,      \* TRUE: a lease may expire under a request still at work
  DeadlineMayPass,  \* TRUE: the run's wall-clock budget may run out
  None, Orphan      \* no lease owner; a lease whose holder is gone

Version == 1 .. MaxPlans
StepId  == Version \X Key
CallId  == StepId \X (1 .. MaxCallAttempts)

\* Tool kinds: "none" is a message step; "unregistered" is a name the registry
\* does not know.  send_external_message is the one tool of kind "external".
IdempotentTool == {"read", "compare", "scan", "delegate"}
Tool           == IdempotentTool \cup {"none", "external", "unregistered"}
PlanStep == [key : Key, tool : Tool, deps : SUBSET Key, reads : SUBSET Key,
             maxAttempts : 1 .. 10]

\* A plan is parsed by AgentPlanSchema, which refuses a key that occurs twice.
DistinctKeys(plan) == \A i, j \in DOMAIN plan : plan[i].key = plan[j].key => i = j

ASSUME RuntimeAssumption ==
  /\ InitialPlan \in Seq(PlanStep) /\ RevisedPlan \in Seq(PlanStep)
  /\ DistinctKeys(InitialPlan) /\ DistinctKeys(RevisedPlan)
  /\ MaxPlans \in Nat \ {0} /\ MaxSteps \in Nat \ {0}
  /\ MaxToolCalls \in Nat \ {0} /\ MaxCallAttempts \in Nat \ {0}
  /\ MaxFaults \in Nat /\ SlowHolders \in BOOLEAN /\ DeadlineMayPass \in BOOLEAN
  /\ None \notin Resumer \cup StepId \cup CallId /\ Orphan \notin Resumer /\ None # Orphan

RunStatus  == {"queued", "planning", "running", "waiting_for_approval",
               "waiting_for_tool", "paused", "completed", "failed", "cancelled"}
Terminal   == {"completed", "failed", "cancelled"}
StepStatus == {"absent", "pending", "running", "waiting", "succeeded", "failed"}
CallStatus == {"absent", "running", "waiting_for_approval", "succeeded",
               "failed", "rejected"}
ApprovalStatus == {"none", "pending", "approved", "rejected", "expired", "consumed"}

\* The plan of a version, the step of a plan with a key, and a step row's tool.
PlanAt(v)   == IF v = 1 THEN InitialPlan ELSE RevisedPlan
PlanKeys(v) == {PlanAt(v)[i].key : i \in DOMAIN PlanAt(v)}
StepAt(s)   == LET plan == PlanAt(s[1])
               IN  plan[CHOOSE i \in DOMAIN plan : plan[i].key = s[2]]
ToolOf(s)   == IF s[2] \in PlanKeys(s[1]) THEN StepAt(s).tool ELSE "none"

VARIABLES
  status,           \* agent_runs.status
  planVersion,      \* agent_runs.plan_version
  stepsUsed,        \* agent_runs.steps_used
  callsUsed,        \* agent_runs.tool_calls_used
  cancelRequested,  \* agent_runs.cancellation_requested_at IS NOT NULL
  deadlinePassed,   \* elapsedMs >= maxWallTimeMs
  lease,            \* agent_runs.lease_owner
  leaseLive,        \* lease_expires_at >= NOW()
  stepStatus,       \* agent_steps.status, "absent" before savePlan
  attempts,         \* agent_steps.attempt_count
  call,             \* agent_tool_calls.status by idempotency key
  approval,         \* agent_approvals.status by tool call (UNIQUE)
  lapsed,           \* calls whose approval's expires_at has passed
  observed,         \* steps with a persisted observation row
  pc, loc,          \* per request: where it is, and what it remembers
  executed,         \* history: executor invocations per idempotency key
  done, failed,     \* history: steps that were ever completed, ever failed
  overlap,          \* history: was a request let in beside another one?
  faults            \* bound counter

runVars  == <<status, planVersion, stepsUsed, callsUsed>>
envVars  == <<cancelRequested, deadlinePassed>>
rowVars  == <<stepStatus, attempts, call, approval, observed>>
history  == <<executed, done, failed, overlap>>
vars == <<runVars, envVars, lease, leaseLive, rowVars, lapsed, pc, loc,
          history, faults>>

\* What a request remembers: the step and attempt count of its snapshot, the
\* plan version it plans against, whether the tool already failed in a step,
\* whether the step's references resolve, the call in hand, how it came to
\* it, the status it is about to write, and a pending scan observation.
Blank == [step |-> None, attempt |-> 0, version |-> 0, repeated |-> FALSE,
          resolved |-> FALSE, call |-> None, kind |-> "planned",
          verdict |-> "paused", pending |-> FALSE]
Local == [step : StepId \cup {None}, attempt : Nat, version : Nat,
          repeated : BOOLEAN, resolved : BOOLEAN, call : CallId \cup {None},
          kind : {"planned", "approved", "denied"}, verdict : RunStatus,
          pending : BOOLEAN]

WithVerdict(l, v) == [l EXCEPT !.verdict = v]
WithCall(l, c)    == [l EXCEPT !.call = c]
AsDenied(l)       == [l EXCEPT !.kind = "denied"]
AsPending(l)      == [l EXCEPT !.pending = TRUE]
Holding(c)        == [Blank EXCEPT !.step = c[1], !.call = c, !.kind = "approved"]

PC == {"idle", "recover", "top", "next", "planning", "savePlan", "take",
       "recheck", "start", "createCall", "requestApproval", "execute",
       "completeCall", "deferStep", "completeStep", "observe", "failCall",
       "retryStep", "failStep", "revise", "setStatus", "release", "limit"}

Init ==
  /\ status = "queued" /\ planVersion = 0 /\ stepsUsed = 0 /\ callsUsed = 0
  /\ cancelRequested = FALSE /\ deadlinePassed = FALSE
  /\ lease = None /\ leaseLive = FALSE
  /\ stepStatus = [s \in StepId |-> "absent"]
  /\ attempts = [s \in StepId |-> 0]
  /\ call = [c \in CallId |-> "absent"]
  /\ approval = [c \in CallId |-> "none"]
  /\ lapsed = {} /\ observed = {}
  /\ pc = [r \in Resumer |-> "idle"] /\ loc = [r \in Resumer |-> Blank]
  /\ executed = [c \in CallId |-> 0] /\ done = {} /\ failed = {} /\ overlap = "never"
  /\ faults = 0

-----------------------------------------------------------------------------
\* Control helpers.
Goto(r, label)       == pc' = [pc EXCEPT ![r] = label]
Remember(r, l)       == loc' = [loc EXCEPT ![r] = l]
Finish(r, verdict)   == Goto(r, "setStatus") /\ Remember(r, WithVerdict(loc[r], verdict))
SetStep(s, st)       == stepStatus' = [stepStatus EXCEPT ![s] = st]
SetCall(c, st)       == call' = [call EXCEPT ![c] = st]
NoEnv                == UNCHANGED <<envVars, lapsed, faults>>

\* claim: any non-terminal run whose lease is free or expired.  A request's
\* owner id is fresh, so "lease_owner = $3" never helps another request.
Claimable == status \notin Terminal /\ (lease = None \/ ~leaseLive)

Claim(r) ==
  /\ pc[r] = "idle" /\ Claimable
  /\ lease' = r /\ leaseLive' = TRUE
  /\ Goto(r, "recover") /\ Remember(r, Blank)
  /\ overlap' = IF \E q \in Resumer \ {r} : pc[q] # "idle" THEN "now"
                ELSE IF overlap = "never" THEN "never" ELSE "past"
  /\ NoEnv /\ UNCHANGED <<runVars, rowVars, executed, done, failed>>

\* release: only if the lease is still this request's.
Release(r) ==
  /\ pc[r] \in {"release", "limit"}
  /\ lease' = IF lease = r THEN None ELSE lease
  /\ leaseLive' = IF lease = r THEN FALSE ELSE leaseLive
  /\ Goto(r, "idle") /\ Remember(r, Blank)
  /\ NoEnv /\ UNCHANGED <<runVars, rowVars, history>>

InterruptedOrWaiting == {s \in StepId : stepStatus[s] \in {"running", "waiting"}}
Interrupted == {s \in StepId : stepStatus[s] = "running"}
InterruptedCalls == {c \in CallId : c[1] \in Interrupted /\ call[c] = "running"}
Unknown == {c[1] : c \in {d \in InterruptedCalls : ToolOf(d[1]) \notin IdempotentTool}}

Recover(r) ==
  /\ pc[r] = "recover"
  /\ IF Interrupted = {}
     THEN /\ Goto(r, "top")
          /\ UNCHANGED <<status, stepStatus, call>>
     ELSE /\ call' = [c \in CallId |->
                        IF c \in InterruptedCalls THEN "failed" ELSE call[c]]
          /\ stepStatus' = [s \in StepId |->
                              IF s \in Unknown THEN "waiting"
                              ELSE IF s \in Interrupted THEN "pending"
                              ELSE stepStatus[s]]
          /\ status' = IF Unknown = {} THEN "running" ELSE "paused"
          /\ Goto(r, IF Unknown = {} THEN "top" ELSE "release")
  /\ NoEnv
  /\ UNCHANGED <<planVersion, stepsUsed, callsUsed, lease, leaseLive, attempts,
                 approval, observed, loc, history>>

\* nextStep: the first pending step of the current plan whose dependencies
\* have succeeded under any plan version.
SucceededKeys == {s[2] : s \in {t \in StepId : stepStatus[t] = "succeeded"}}
ObservedKeys  == {s[2] : s \in observed}
ReadyAnyhow == {i \in DOMAIN PlanAt(planVersion) :
                  stepStatus[<<planVersion, PlanAt(planVersion)[i].key>>] = "pending"}
Ready == {i \in DOMAIN PlanAt(planVersion) :
            /\ stepStatus[<<planVersion, PlanAt(planVersion)[i].key>>] = "pending"
            /\ PlanAt(planVersion)[i].deps \subseteq SucceededKeys}
NextSteps == {<<planVersion, PlanAt(planVersion)[i].key>> :
                i \in {k \in Ready : \A j \in Ready : k <= j}}

\* What the loop concludes when no step is ready: only the current plan counts.
CurrentStatuses == {stepStatus[<<planVersion, k>>] : k \in PlanKeys(planVersion)}
ConclusionOfTheUndone ==
  IF CurrentStatuses \cap {"pending", "running", "waiting"} # {} THEN "paused" ELSE "completed"
Conclusion == IF CurrentStatuses \cap {"pending", "running", "waiting", "failed"} # {}
              THEN "paused" ELSE "completed"

BudgetViolated == \/ stepsUsed >= MaxSteps
                  \/ callsUsed >= MaxToolCalls
                  \/ deadlinePassed

\* concurrency_limit: as many workers run as the run may have.  Those of a
\* delegation that failed, or of another request's, may or may not still run.
WorkersMayRun == \E c \in CallId : ToolOf(c[1]) = "delegate" /\ call[c] \in {"running", "failed"}

CancelsRunning == cancelRequested /\ status = "running"
MustCancel == cancelRequested

\* The top of the loop: a repeatable-read snapshot and every decision taken
\* from it.  Later transactions act on these decisions, however stale.
FailedInThisPlan(tool) ==
  \E s \in StepId : s[1] = planVersion /\ stepStatus[s] = "failed" /\ ToolOf(s) = tool
FailedBefore(tool) == \E s \in StepId : stepStatus[s] = "failed" /\ ToolOf(s) = tool
SnapshotOf(s) ==
  [Blank EXCEPT !.step = s, !.attempt = attempts[s], !.version = planVersion,
                !.repeated = FailedBefore(ToolOf(s)),
                !.resolved = StepAt(s).reads \subseteq ObservedKeys]
Snapshot(r) ==
  /\ pc[r] \in {"top", "next"}
  /\ \/ /\ status \in Terminal
        /\ Goto(r, "release") /\ UNCHANGED loc
     \/ /\ status \notin Terminal /\ MustCancel
        /\ Finish(r, "cancelled")
     \/ /\ status \notin Terminal /\ ~MustCancel /\ (BudgetViolated \/ WorkersMayRun)
        /\ Finish(r, "failed")
     \/ /\ status \notin Terminal /\ ~MustCancel /\ ~BudgetViolated
        /\ planVersion = 0
        /\ Goto(r, "planning") /\ Remember(r, Blank)
     \/ /\ status \notin Terminal /\ ~MustCancel /\ ~BudgetViolated
        /\ planVersion > 0
        /\ Goto(r, "take")
        /\ \/ Ready = {} /\ Remember(r, WithVerdict(Blank, Conclusion))
           \/ \E s \in NextSteps : Remember(r, SnapshotOf(s))
  /\ NoEnv /\ UNCHANGED <<runVars, lease, leaseLive, rowVars, history>>

\* transitionLimit is the caller's choice in 1..50: after any full transition
\* the request may be done.
Yield(r) ==
  /\ pc[r] = "next"
  /\ Goto(r, "limit")
  /\ NoEnv /\ UNCHANGED <<runVars, lease, leaseLive, rowVars, loc, history>>

\* setRunStatus: unconditional, as every caller but "planning" uses it.
SetRunStatus(r) ==
  /\ pc[r] = "setStatus"
  /\ status' = loc[r].verdict
  /\ Goto(r, "release")
  /\ NoEnv
  /\ UNCHANGED <<planVersion, stepsUsed, callsUsed, lease, leaseLive, rowVars,
                 loc, history>>

SetPlanning(r) ==
  /\ pc[r] = "planning"
  /\ status' = "planning"
  /\ Goto(r, "savePlan")
  /\ NoEnv
  /\ UNCHANGED <<planVersion, stepsUsed, callsUsed, lease, leaseLive, rowVars,
                 loc, history>>

\* savePlan: refuses a plan whose version is not the next one.
StalePlan(r) == loc[r].version # planVersion
SavePlan(r) ==
  /\ pc[r] \in {"savePlan", "revise"}
  /\ planVersion < MaxPlans
  /\ IF StalePlan(r)
     THEN /\ Goto(r, "release")
          /\ UNCHANGED <<status, planVersion, stepStatus>>
     ELSE /\ planVersion' = planVersion + 1
          /\ stepStatus' = [s \in StepId |->
               IF s[1] = planVersion + 1 /\ s[2] \in PlanKeys(planVersion + 1)
               THEN "pending" ELSE stepStatus[s]]
          /\ status' = "running"
          /\ Goto(r, "next")
  /\ NoEnv
  /\ UNCHANGED <<stepsUsed, callsUsed, lease, leaseLive, attempts, call,
                 approval, observed, loc, history>>

-----------------------------------------------------------------------------
\* takeApprovedToolCall: expire what is overdue, then consume one approved,
\* unexpired approval and start its call, all in one transaction.  The code
\* takes the oldest; which of several is taken is left open here.
Overdue   == {c \in lapsed : approval[c] \in {"pending", "approved"}}
Swept     == [c \in CallId |-> IF c \in Overdue THEN "expired" ELSE approval[c]]
SpentTwice == {c \in CallId : approval[c] \in {"approved", "consumed"} /\ c \notin lapsed}
Takeable  == {c \in CallId : approval[c] = "approved" /\ c \notin lapsed}

TakeApproved(r) ==
  /\ pc[r] = "take"
  /\ \E c \in Takeable :
       /\ approval' = [Swept EXCEPT ![c] = "consumed"]
       /\ SetCall(c, "running") /\ SetStep(c[1], "running")
       /\ Remember(r, Holding(c))
  /\ status' = "running"
  /\ Goto(r, "recheck")
  /\ NoEnv
  /\ UNCHANGED <<planVersion, stepsUsed, callsUsed, lease, leaseLive, attempts,
                 observed, history>>

NothingApproved(r) ==
  /\ pc[r] = "take" /\ Takeable = {}
  /\ approval' = Swept
  /\ Goto(r, IF loc[r].step = None THEN "setStatus" ELSE "start")
  /\ NoEnv
  /\ UNCHANGED <<runVars, lease, leaseLive, stepStatus, attempts, call,
                 observed, loc, history>>

\* The policy is evaluated again with the approval's expiry before execution.
RecheckPolicy(r) ==
  /\ pc[r] = "recheck"
  /\ Goto(r, IF loc[r].call \in lapsed THEN "failCall" ELSE "execute")
  /\ NoEnv
  /\ UNCHANGED <<runVars, lease, leaseLive, rowVars, loc, history>>

\* startStep: throws unless the step is still pending and the CHECK on
\* steps_used holds.  A message step needs no tool; a comparison of fewer than
\* two jobs, or an analysis of none, is skipped; the policy denies an unknown
\* tool and arguments whose reference did not resolve.
AfterStart(r) ==
  LET tool == ToolOf(loc[r].step) IN
  IF tool = "none" THEN {"completeStep"}
  ELSE IF tool = "unregistered" \/ ~loc[r].resolved THEN {"failStep"}
  ELSE IF tool \in {"compare", "delegate"} THEN {"createCall", "completeStep"}
  ELSE {"createCall"}

PendingAlone(s) == stepStatus[s] = "pending"
Startable(s) == stepStatus[s] = "pending" /\ stepsUsed < MaxSteps

StartStep(r) ==
  LET s == loc[r].step IN
  /\ pc[r] = "start"
  /\ IF Startable(s)
     THEN /\ SetStep(s, "running")
          /\ attempts' = [attempts EXCEPT ![s] = @ + 1]
          /\ status' = "running" /\ stepsUsed' = stepsUsed + 1
          /\ \E label \in AfterStart(r) :
               /\ Goto(r, label)
               /\ IF label = "failStep" THEN Remember(r, AsDenied(loc[r]))
                                        ELSE UNCHANGED loc
     ELSE /\ Goto(r, "release")
          /\ UNCHANGED <<stepStatus, attempts, status, stepsUsed, loc>>
  /\ NoEnv
  /\ UNCHANGED <<planVersion, callsUsed, lease, leaseLive, call, approval,
                 observed, history>>

\* createToolCall: the idempotency key is the step and the attempt number of
\* the snapshot; a call that already has the key is returned as it is.
ChargeNewCall(c) == callsUsed' = IF call[c] = "absent" THEN callsUsed + 1 ELSE callsUsed
ChargeCall(c) == callsUsed' = callsUsed + 1

CreateToolCall(r) ==
  LET n == loc[r].attempt + 1
      c == <<loc[r].step, n>>
  IN
  /\ pc[r] = "createCall"
  /\ IF n <= MaxCallAttempts /\ callsUsed < MaxToolCalls
     THEN /\ call' = IF call[c] = "absent" THEN [call EXCEPT ![c] = "running"] ELSE call
          /\ ChargeCall(c)
          /\ Remember(r, WithCall(loc[r], c))
          /\ Goto(r, IF ToolOf(c[1]) = "external" THEN "requestApproval" ELSE "execute")
     ELSE /\ Goto(r, "release")
          /\ UNCHANGED <<call, callsUsed, loc>>
  /\ NoEnv
  /\ UNCHANGED <<status, planVersion, stepsUsed, lease, leaseLive, stepStatus,
                 attempts, approval, observed, history>>

\* requestApproval: throws, changing nothing, if the call already has one.
RequestApproval(r) ==
  LET c == loc[r].call IN
  /\ pc[r] = "requestApproval"
  /\ IF approval[c] = "none"
     THEN /\ SetCall(c, "waiting_for_approval")
          /\ approval' = [approval EXCEPT ![c] = "pending"]
          /\ SetStep(c[1], "waiting")
          /\ Finish(r, "waiting_for_approval")
     ELSE /\ Goto(r, "release")
          /\ UNCHANGED <<call, approval, stepStatus, loc>>
  /\ NoEnv
  /\ UNCHANGED <<runVars, lease, leaseLive, attempts, observed, history>>

-----------------------------------------------------------------------------
\* executeTool: the tool runs, and answers, fails, times out or is aborted by
\* the cancellation poll.  A failure does not mean the tool had no effect.
ExecuteTool(r) ==
  /\ pc[r] = "execute"
  /\ executed' = [executed EXCEPT ![loc[r].call] = @ + 1]
  /\ \/ Goto(r, "failCall") /\ UNCHANGED loc
     \/ Goto(r, "completeCall") /\ UNCHANGED loc
     \/ /\ ToolOf(loc[r].step) = "scan" /\ loc[r].kind = "planned"
        /\ Goto(r, "completeCall") /\ Remember(r, AsPending(loc[r]))
  /\ NoEnv /\ UNCHANGED <<runVars, lease, leaseLive, rowVars, done, failed, overlap>>

\* startWorker's charge: each worker attempt of a delegation takes one step
\* and one tool call of the parent's budget, while both remain.
ChargeWorker(r) ==
  /\ pc[r] = "execute" /\ ToolOf(loc[r].step) = "delegate"
  /\ stepsUsed < MaxSteps /\ callsUsed < MaxToolCalls
  /\ stepsUsed' = stepsUsed + 1 /\ callsUsed' = callsUsed + 1
  /\ NoEnv
  /\ UNCHANGED <<status, planVersion, lease, leaseLive, rowVars, pc, loc, history>>

CompleteToolCall(r) ==
  /\ pc[r] = "completeCall"
  /\ SetCall(loc[r].call, "succeeded")
  /\ Goto(r, IF loc[r].pending THEN "deferStep" ELSE "completeStep")
  /\ NoEnv
  /\ UNCHANGED <<runVars, lease, leaseLive, stepStatus, attempts, approval,
                 observed, loc, history>>

\* deferStep: a scan still queued or running returns the step to pending.
DeferStep(r) ==
  /\ pc[r] = "deferStep"
  /\ SetStep(loc[r].step, "pending") /\ status' = "waiting_for_tool"
  /\ Goto(r, "observe")
  /\ NoEnv
  /\ UNCHANGED <<planVersion, stepsUsed, callsUsed, lease, leaseLive, attempts,
                 call, approval, observed, loc, history>>

CompleteStep(r) ==
  /\ pc[r] = "completeStep"
  /\ SetStep(loc[r].step, "succeeded") /\ done' = done \cup {loc[r].step}
  /\ Goto(r, "observe")
  /\ NoEnv
  /\ UNCHANGED <<runVars, lease, leaseLive, attempts, call, approval, observed,
                 loc, executed, failed, overlap>>

AppendObservation(r) ==
  /\ pc[r] = "observe"
  /\ observed' = observed \cup {loc[r].step}
  /\ Goto(r, IF loc[r].pending THEN "release" ELSE "next")
  /\ NoEnv
  /\ UNCHANGED <<runVars, lease, leaseLive, stepStatus, attempts, call,
                 approval, loc, history>>

\* The catch clause: retry an idempotent tool while the snapshot's attempt
\* count allows, else fail the step.
Retryable(r) == /\ loc[r].kind = "planned"
                /\ loc[r].attempt + 1 < StepAt(loc[r].step).maxAttempts
                /\ ToolOf(loc[r].step) \in IdempotentTool
FailToolCall(r) ==
  /\ pc[r] = "failCall"
  /\ SetCall(loc[r].call, "failed")
  /\ Goto(r, IF Retryable(r) THEN "retryStep" ELSE "failStep")
  /\ NoEnv
  /\ UNCHANGED <<runVars, lease, leaseLive, stepStatus, attempts, approval,
                 observed, loc, history>>

RetryStep(r) ==
  /\ pc[r] = "retryStep"
  /\ SetStep(loc[r].step, "pending")
  /\ Goto(r, "next")
  /\ NoEnv
  /\ UNCHANGED <<runVars, lease, leaseLive, attempts, call, approval, observed,
                 loc, history>>

\* failStep, and what follows it: an approved call pauses the run, a denied
\* one fails it, a second failure of the same tool fails it, any other
\* failure makes a new plan.
FailStep(r) ==
  /\ pc[r] = "failStep"
  /\ SetStep(loc[r].step, "failed") /\ failed' = failed \cup {loc[r].step}
  /\ \/ loc[r].kind = "approved" /\ Finish(r, "paused")
     \/ loc[r].kind = "denied" /\ Finish(r, "failed")
     \/ loc[r].kind = "planned" /\ loc[r].repeated /\ Finish(r, "failed")
     \/ loc[r].kind = "planned" /\ ~loc[r].repeated /\ Goto(r, "revise") /\ UNCHANGED loc
  /\ NoEnv
  /\ UNCHANGED <<runVars, lease, leaseLive, attempts, call, approval, observed,
                 executed, done, overlap>>

-----------------------------------------------------------------------------
\* Faults.  A crash abandons the request and orphans its lease.  A failed
\* transaction throws: inside the try block into the catch clause, elsewhere
\* out of resume(), whose finally clause releases the lease.
InTry(r) == loc[r].call # None /\ pc[r] \in {"completeCall", "deferStep",
                                             "completeStep", "observe"}
Orphaned(r) == lease' = IF lease = r THEN Orphan ELSE lease

Crash(r) ==
  /\ pc[r] # "idle" /\ faults < MaxFaults
  /\ Orphaned(r) /\ Goto(r, "idle") /\ Remember(r, Blank)
  /\ faults' = faults + 1
  /\ UNCHANGED <<runVars, envVars, leaseLive, rowVars, lapsed, history>>

StoreFails(r) ==
  /\ pc[r] \notin {"idle", "recheck", "execute"} /\ faults < MaxFaults
  /\ \/ InTry(r) /\ Goto(r, "failCall") /\ UNCHANGED <<lease, loc>>
     \/ /\ pc[r] \in {"release", "limit"}
        /\ Goto(r, "idle") /\ Orphaned(r) /\ Remember(r, Blank)
     \/ /\ ~InTry(r) /\ pc[r] \notin {"release", "limit"}
        /\ Goto(r, "release") /\ UNCHANGED <<lease, loc>>
  /\ faults' = faults + 1
  /\ UNCHANGED <<runVars, envVars, leaseLive, rowVars, lapsed, history>>

LeaseExpires ==
  /\ leaseLive /\ (SlowHolders \/ lease = Orphan)
  /\ leaseLive' = FALSE
  /\ UNCHANGED <<runVars, envVars, lease, rowVars, lapsed, pc, loc, history, faults>>

\* An approval's ten minutes are over.
ApprovalLapses(c) ==
  /\ approval[c] \in {"pending", "approved"} /\ c \notin lapsed
  /\ lapsed' = lapsed \cup {c}
  /\ UNCHANGED <<runVars, envVars, lease, leaseLive, rowVars, pc, loc, history, faults>>

DeadlinePasses ==
  /\ DeadlineMayPass /\ ~deadlinePassed /\ deadlinePassed' = TRUE
  /\ UNCHANGED <<runVars, cancelRequested, lease, leaseLive, rowVars, lapsed,
                 pc, loc, history, faults>>

\* The user.  requestAgentCancellation only flags a run that is not finished;
\* decideAgentApproval looks at the approval and never at the run's status.
CancelAtOnce ==
  /\ status \notin Terminal /\ ~cancelRequested
  /\ cancelRequested' = TRUE /\ status' = "cancelled"
  /\ UNCHANGED <<planVersion, stepsUsed, callsUsed, deadlinePassed, lease, leaseLive,
                 rowVars, lapsed, pc, loc, history, faults>>
RequestCancellation ==
  /\ status \notin Terminal /\ ~cancelRequested
  /\ cancelRequested' = TRUE
  /\ UNCHANGED <<runVars, deadlinePassed, lease, leaseLive, rowVars, lapsed, pc,
                 loc, history, faults>>

EverAsked(c) == approval[c] # "none"
Undecided(c) == approval[c] = "pending"

Approve(c) ==
  /\ Undecided(c)
  /\ IF c \in lapsed
     THEN approval' = [approval EXCEPT ![c] = "expired"] /\ UNCHANGED status
     ELSE approval' = [approval EXCEPT ![c] = "approved"] /\ status' = "running"
  /\ UNCHANGED <<planVersion, stepsUsed, callsUsed, envVars, lease, leaseLive,
                 stepStatus, attempts, call, observed, lapsed, pc, loc, history, faults>>

Reject(c) ==
  /\ Undecided(c) /\ c \notin lapsed
  /\ approval' = [approval EXCEPT ![c] = "rejected"]
  /\ SetCall(c, "rejected") /\ SetStep(c[1], "failed")
  /\ status' = "paused"
  /\ UNCHANGED <<planVersion, stepsUsed, callsUsed, envVars, lease, leaseLive,
                 attempts, observed, lapsed, pc, loc, history, faults>>

-----------------------------------------------------------------------------
\* The transactions of a request that holds control.
Work(r) ==
  \/ Release(r) \/ Recover(r) \/ Snapshot(r) \/ Yield(r) \/ SetRunStatus(r)
  \/ SetPlanning(r) \/ SavePlan(r) \/ TakeApproved(r) \/ NothingApproved(r)
  \/ RecheckPolicy(r) \/ StartStep(r) \/ CreateToolCall(r) \/ RequestApproval(r)
  \/ ExecuteTool(r) \/ CompleteToolCall(r) \/ DeferStep(r) \/ CompleteStep(r)
  \/ AppendObservation(r) \/ FailToolCall(r) \/ RetryStep(r) \/ FailStep(r)

User == \/ RequestCancellation
        \/ \E c \in CallId : Approve(c) \/ Reject(c)

Next ==
  \/ \E r \in Resumer : Claim(r) \/ Work(r) \/ ChargeWorker(r) \/ Crash(r) \/ StoreFails(r)
  \/ LeaseExpires \/ DeadlinePasses
  \/ \E c \in CallId : ApprovalLapses(c)
  \/ User

Spec == Init /\ [][Next]_vars

\* A request that was let in keeps running until it ends or the process dies.
\* Nothing in the repository promises that another request ever comes: "runs
\* currently advance when the authenticated client or a future scheduler calls
\* resume" (docs/AGENT_RUNTIME.md:71).  So nothing is assumed of Claim, of the
\* user or of the clock, and the liveness properties speak of one request.
Fairness == \A r \in Resumer : WF_vars(Work(r))

FairSpec == Spec /\ Fairness
-----------------------------------------------------------------------------
(***************************************************************************)
(* Properties.                                                             *)
(***************************************************************************)
ExternalCall == {c \in CallId : ToolOf(c[1]) = "external"}

\* Every column and every request's memory stays within its domain.
TypeOK ==
  /\ status \in RunStatus /\ planVersion \in 0 .. MaxPlans
  /\ stepsUsed \in 0 .. MaxSteps /\ callsUsed \in 0 .. MaxToolCalls
  /\ cancelRequested \in BOOLEAN /\ deadlinePassed \in BOOLEAN
  /\ lease \in Resumer \cup {None, Orphan} /\ leaseLive \in BOOLEAN
  /\ stepStatus \in [StepId -> StepStatus] /\ attempts \in [StepId -> Nat]
  /\ call \in [CallId -> CallStatus] /\ approval \in [CallId -> ApprovalStatus]
  /\ lapsed \subseteq CallId /\ observed \subseteq StepId
  /\ pc \in [Resumer -> PC] /\ loc \in [Resumer -> Local]
  /\ executed \in [CallId -> Nat] /\ done \subseteq StepId /\ failed \subseteq StepId
  /\ overlap \in {"never", "past", "now"} /\ faults \in 0 .. MaxFaults

\* "Approval records authorize exactly one persisted tool call": whatever
\* crashes, expired leases and overlapping requests do, an external call is
\* attempted at most once, and only under its own consumed approval.
ApprovalSpentOnce ==
  \A c \in CallId :
    ToolOf(c[1]) = "external" /\ executed[c] > 0 =>
      executed[c] = 1 /\ approval[c] = "consumed"

\* Every executor invocation was charged to the run's tool-call budget before,
\* one charge for one invocation, though two requests may hold the same call.
Executions == UNION {{c} \X (1 .. executed[c]) : c \in CallId}
ExecutionsCharged == Cardinality(Executions) <= callsUsed

\* The inductive form of ApprovalSpentOnce: which requests hold which call.
HasStep == {"start", "createCall", "requestApproval", "recheck", "execute",
            "completeCall", "deferStep", "completeStep", "observe", "failCall",
            "retryStep", "failStep"}
HasCall == {"requestApproval", "recheck", "execute", "completeCall",
            "deferStep", "failCall"}
Planning == {"take", "start", "createCall"}
InHand(r) == /\ pc[r] \in HasStep => loc[r].step \in StepId
             /\ pc[r] \in HasCall => loc[r].call \in CallId
             /\ loc[r].call # None => loc[r].call[1] = loc[r].step
             /\ pc[r] = "requestApproval" => ToolOf(loc[r].step) = "external"
             /\ pc[r] \in Planning => loc[r].kind # "approved"
             /\ pc[r] = "recheck" => loc[r].kind = "approved"
             /\ pc[r] = "execute" /\ loc[r].kind # "approved" => ToolOf(loc[r].step) # "external"
Spending(r) == pc[r] \in {"recheck", "execute"} /\ loc[r].kind = "approved"

ExternalAsked   == \A c \in CallId : approval[c] # "none" => ToolOf(c[1]) = "external"
AttemptedOnce   == \A c \in CallId : ToolOf(c[1]) = "external" =>
                     executed[c] \in {0, 1} /\ (executed[c] = 1 => approval[c] = "consumed")
HandsFull       == \A r \in Resumer : InHand(r)
SpendingIsFresh == \A r \in Resumer : Spending(r) =>
                     approval[loc[r].call] = "consumed" /\ executed[loc[r].call] = 0
SpendersDiffer  == \A r, q \in Resumer :
                     Spending(r) /\ Spending(q) /\ r # q => loc[r].call # loc[q].call

SpendInv == ExternalAsked /\ AttemptedOnce /\ HandsFull /\ SpendingIsFresh /\ SpendersDiffer

\* The runtime implements the abstract approval ledger: no interleaving asks
\* twice, decides twice, spends an undecided or overdue approval, or attempts
\* an external call before its approval is spent.
Entry  == [c \in ExternalCall |-> approval[c]]
Sent   == [c \in ExternalCall |-> executed[c]]
Ledger == INSTANCE ApprovalLedger WITH Call <- ExternalCall, entry <- Entry, sent <- Sent
ImplementsLedger == Ledger!Spec

\* A run is recorded as completed only after some plan of it was carried out:
\* each of that plan's steps was completed, whichever requests overlapped,
\* retried, failed or replanned beside it.  Until a request is let in beside
\* one still at work, that plan is the current one, and its rows still say so.
CompletedMeansDone ==
  status = "completed" =>
    /\ \E v \in 1 .. planVersion : \A k \in PlanKeys(v) : <<v, k>> \in done
    /\ overlap = "never" =>
         \A k \in PlanKeys(planVersion) : stepStatus[<<planVersion, k>>] = "succeeded"

\* A finished run is reopened only by the user deciding an approval that
\* outlived it, or while requests that overlapped are still the last ones: a
\* request that worked alone leaves nobody behind to write over its end.
OnlyADecisionReopens ==
  [][status' # status /\ status \in Terminal
       => \/ \E c \in CallId : approval[c] = "pending" /\ approval'[c] # "pending"
          \/ overlap = "now"]_vars

\* When a step begins, each of its dependencies has been completed, in this
\* plan version or an earlier one, whatever crashed or overlapped since; and
\* until requests overlap it is still recorded as completed.
DoneKeys == {s[2] : s \in done}
DependenciesFirst ==
  [][\A s \in StepId : attempts'[s] # attempts[s] =>
       /\ StepAt(s).deps \subseteq DoneKeys
       /\ overlap = "never" => StepAt(s).deps \subseteq SucceededKeys]_vars

\* "The agent stopped after the same tool failed in two plan revisions": a plan
\* is replaced only when a step of it has failed, by whatever request; and until
\* requests overlap, every plan after the first was made for the failure of
\* another tool, so that replanning ends with the tools, whatever crashes,
\* rejected approvals and reopened runs come between.
FailedTools == IdempotentTool \cap {ToolOf(s) : s \in {t \in StepId : stepStatus[t] = "failed"}}
LoopPrevented ==
  /\ \A v \in 1 .. planVersion - 1 : \E s \in failed : s[1] = v
  /\ overlap = "never" => planVersion <= 1 + Cardinality(FailedTools)

\* A failed step of a tool the registry knows has a recorded call: the policy
\* never turns away a step of the plan for an input the run itself produced.
FailedStepWasTried ==
  \A s \in StepId :
    stepStatus[s] = "failed" /\ ToolOf(s) # "unregistered" =>
      \E n \in 1 .. MaxCallAttempts : call[<<s, n>>] # "absent"

\* docs/AGENT_RUNTIME.md:17 "Every transition is lease-protected": a request
\* changes the run's records only while it owns the lease.
EveryTransitionLeaseProtected ==
  [][\A r \in Resumer :
       pc'[r] # pc[r] /\ <<runVars, rowVars>>' # <<runVars, rowVars>> => lease = r]_vars

\* "An unknown non-idempotent outcome remains paused for human review": a step
\* left waiting by recovery, with no approval to decide, is never started or
\* put back again.  Only a request that was still working on it, when another
\* was let in beside it, may yet record how it ended.
OutcomeUnknown(s) ==
  /\ stepStatus[s] = "waiting"
  /\ \A n \in 1 .. MaxCallAttempts : call[<<s, n>>] # "waiting_for_approval"
LateAnswer(s) ==
  /\ overlap # "never"
  /\ \E r \in Resumer : /\ pc[r] \in {"completeStep", "failStep"} /\ pc'[r] # pc[r]
                         /\ loc[r].step = s
UnknownOutcomeAwaitsReview ==
  [][\A s \in StepId :
       OutcomeUnknown(s) /\ stepStatus'[s] # "waiting" => LateAnswer(s)]_vars

\* docs/AGENT_RUNTIME.md:64 "a later resume polls again": a request that starts
\* a step within the run's budget can always record its call.
PollNeverRefused ==
  \A r \in Resumer : pc[r] = "createCall" => loc[r].attempt + 1 <= MaxCallAttempts

\* The liveness properties are promises of one request r, let in when there
\* had been n faults: it keeps them unless a fault hits it, or another request
\* is let in beside it.
Let(r, n) == pc[r] = "recover" /\ faults = n
Disturbed(n) == faults > n \/ overlap = "now"

\* The first request let in after the user asked to cancel ends the run,
\* whatever approvals, ready steps and interrupted calls it finds, unless the
\* outcome of an external call is unknown and has to be reviewed first.
CancellationHonoured ==
  \A r \in Resumer, n \in 0 .. MaxFaults :
    (Let(r, n) /\ cancelRequested /\ Unknown = {}) ~> (status \in Terminal \/ Disturbed(n))

\* A request ends by itself, though its transition limit never cuts it off: the
\* budgets end retries, replanning and polling.  And it leaves the run at rest:
\* finished, waiting, or with a call the user has approved meanwhile.
Settled == \/ status \in Terminal \cup {"paused", "waiting_for_approval", "waiting_for_tool"}
           \/ \E c \in CallId : approval[c] = "approved"

=============================================================================
