------------------------- MODULE AgentRuntimeProofs -------------------------
(***************************************************************************)
(* Proofs about AgentRuntime, for any plans, budgets, number of requests   *)
(* and faults, with or without leases that expire under their holder.      *)
(*                                                                         *)
(* Type correctness needs to know that a request that acts on a step or a  *)
(* call holds one, and the approval theorem needs to know which requests   *)
(* are about to spend which approval, so the two are proved together as    *)
(* the inductive invariant TypeOK /\ SpendInv.  SpendInv says: an approval *)
(* exists only for a call of an external tool; such a call has been        *)
(* attempted at most once and then its approval is consumed; a request on  *)
(* its way to execute under an approval holds a consumed approval with no  *)
(* attempt; and no two requests hold the same one.                         *)
(***************************************************************************)
EXTENDS AgentRuntime, TLAPS

USE DEF history

\* The ways of updating a request's memory stay in Local.
LEMMA LocalTypes ==
  /\ Blank \in Local
  /\ \A l \in Local, v \in RunStatus : WithVerdict(l, v) \in Local
  /\ \A l \in Local, c \in CallId : WithCall(l, c) \in Local
  /\ \A l \in Local : AsDenied(l) \in Local /\ AsPending(l) \in Local
<1>1. Blank \in Local
  BY DEF Local, Blank, RunStatus
<1>2. ASSUME NEW l \in Local, NEW v \in RunStatus PROVE WithVerdict(l, v) \in Local
  BY DEF Local, WithVerdict
<1>3. ASSUME NEW l \in Local, NEW c \in CallId PROVE WithCall(l, c) \in Local
  BY DEF Local, WithCall
<1>4. ASSUME NEW l \in Local PROVE AsDenied(l) \in Local
  BY DEF Local, AsDenied
<1>5. ASSUME NEW l \in Local PROVE AsPending(l) \in Local
  BY DEF Local, AsPending
<1> QED BY <1>1, <1>2, <1>3, <1>4, <1>5

\* A request that takes an approved call remembers it.
LEMMA HoldingType ==
  ASSUME NEW c \in CallId
  PROVE  Holding(c) \in Local
<1>1. c[1] \in StepId
  BY DEF CallId
<1> QED BY <1>1 DEF Holding, Blank, Local, RunStatus

\* A snapshot of a step is a memory.
LEMMA SnapshotType ==
  ASSUME TypeOK, NEW s \in StepId
  PROVE  SnapshotOf(s) \in Local
<1>1. attempts[s] \in Nat /\ planVersion \in Nat
  BY DEF TypeOK
<1>2. FailedBefore(ToolOf(s)) \in BOOLEAN /\ (StepAt(s).reads \subseteq ObservedKeys) \in BOOLEAN
  BY DEF FailedBefore
<1> QED BY <1>1, <1>2 DEF SnapshotOf, Blank, Local, RunStatus

\* nextStep returns a row of the current plan.
LEMMA NextStepType ==
  ASSUME TypeOK, planVersion > 0
  PROVE  NextSteps \subseteq StepId
<1>1. planVersion \in Version
  BY RuntimeAssumption DEF TypeOK, Version
<1>2. PlanAt(planVersion) \in Seq(PlanStep)
  BY RuntimeAssumption DEF PlanAt
<1>3. ASSUME NEW i \in Ready PROVE PlanAt(planVersion)[i].key \in Key
  <2>1. i \in DOMAIN PlanAt(planVersion)
    BY DEF Ready
  <2>2. PlanAt(planVersion)[i] \in PlanStep
    BY <1>2, <2>1
  <2> QED BY <2>2 DEF PlanStep
<1> QED BY <1>1, <1>3 DEF NextSteps, StepId

\* Where moving and remembering lead.
LEMMA Moves ==
  ASSUME TypeOK, NEW r \in Resumer
  PROVE  /\ \A label \in PC : Goto(r, label) => pc' \in [Resumer -> PC]
         /\ \A l \in Local : Remember(r, l) => loc' \in [Resumer -> Local]
         /\ UNCHANGED pc => pc' \in [Resumer -> PC]
         /\ UNCHANGED loc => loc' \in [Resumer -> Local]
  BY DEF TypeOK, Goto, Remember

\* The same for moving to setRunStatus with a verdict.
LEMMA FinishMoves ==
  ASSUME TypeOK, NEW r \in Resumer, NEW v \in RunStatus, Finish(r, v)
  PROVE  pc' \in [Resumer -> PC] /\ loc' \in [Resumer -> Local]
<1>1. loc[r] \in Local /\ "setStatus" \in PC
  BY DEF TypeOK, PC
<1>2. WithVerdict(loc[r], v) \in Local
  BY <1>1, LocalTypes
<1> QED BY <1>1, <1>2, Moves DEF Finish

\* What a request holds, by where it is.
LEMMA LocalFacts ==
  ASSUME TypeOK, SpendInv, NEW r \in Resumer
  PROVE  /\ loc[r] \in Local /\ pc[r] \in PC
         /\ loc[r].verdict \in RunStatus /\ loc[r].attempt \in Nat
         /\ pc[r] \in HasStep => loc[r].step \in StepId
         /\ pc[r] \in HasCall => loc[r].call \in CallId /\ loc[r].call[1] \in StepId
<1>1. loc[r] \in Local /\ pc[r] \in PC
  BY DEF TypeOK
<1>2. loc[r].verdict \in RunStatus /\ loc[r].attempt \in Nat
  BY <1>1 DEF Local
<1>3. /\ pc[r] \in HasStep => loc[r].step \in StepId
      /\ pc[r] \in HasCall => loc[r].call \in CallId
  BY DEF SpendInv, HandsFull, InHand
<1>4. ASSUME NEW c \in CallId PROVE c[1] \in StepId
  BY DEF CallId
<1>5. pc[r] \in HasCall => loc[r].call[1] \in StepId
  BY <1>3, <1>4
<1> QED BY <1>1, <1>2, <1>3, <1>5

\* Every transaction keeps the types, the budgets (the CHECKs of agent_runs)
\* and the domains of what requests remember.
LEMMA TypeStep ==
  ASSUME TypeOK, SpendInv, [Next]_vars
  PROVE  TypeOK'
<1> USE RuntimeAssumption
<1> USE DEF TypeOK, Goto, Remember, Finish, SetStep, SetCall, NoEnv,
        runVars, envVars, rowVars, PC, RunStatus, StepStatus, CallStatus, ApprovalStatus
<1>1. ASSUME NEW r \in Resumer, Claim(r) PROVE TypeOK'
  BY <1>1, LocalTypes DEF Claim
<1>2. ASSUME NEW r \in Resumer, Release(r) PROVE TypeOK'
  BY <1>2, LocalTypes DEF Release
<1>3. ASSUME NEW r \in Resumer, Recover(r) PROVE TypeOK'
  <2>1. call' \in [CallId -> CallStatus]
    <3>1. CASE Interrupted = {}
      BY <1>3, <3>1 DEF Recover
    <3>2. CASE call' = [c \in CallId |-> IF c \in InterruptedCalls THEN "failed" ELSE call[c]]
      BY <3>2
    <3> QED BY <1>3, <3>1, <3>2 DEF Recover
  <2>2. stepStatus' \in [StepId -> StepStatus]
    BY <1>3 DEF Recover
  <2>3a. status' \in RunStatus
    BY <1>3 DEF Recover
  <2>3b. \E p \in PC : pc' = [pc EXCEPT ![r] = p]
    BY <1>3 DEF Recover
  <2>3. status' \in RunStatus /\ pc' \in [Resumer -> PC]
    BY <2>3a, <2>3b
  <2>4. UNCHANGED <<planVersion, stepsUsed, callsUsed, cancelRequested, deadlinePassed, lease,
                    leaseLive, attempts, approval, lapsed, observed, loc, history, faults>>
    BY <1>3 DEF Recover
  <2> QED BY <2>1, <2>2, <2>3, <2>4
<1>4. ASSUME NEW r \in Resumer, Snapshot(r) PROVE TypeOK'
  <2>1. Conclusion \in RunStatus
    BY DEF Conclusion
  <2>2. planVersion # 0 => NextSteps \subseteq StepId
    BY NextStepType
  <2>3. ASSUME NEW s \in StepId PROVE SnapshotOf(s) \in Local
    BY SnapshotType
  <2>4. loc' \in [Resumer -> Local]
    <3> HIDE DEF TypeOK, PC, Goto, Remember, Finish
    <3>1. \/ \E v \in RunStatus : Finish(r, v)
          \/ \E l \in Local : Remember(r, l)
          \/ UNCHANGED loc
      <4>1. WithVerdict(Blank, Conclusion) \in Local /\ Blank \in Local
        BY <2>1, LocalTypes
      <4> QED BY <1>4, <2>2, <2>3, <4>1 DEF Snapshot
    <3> QED BY <3>1, Moves, FinishMoves
  <2>5. pc' \in [Resumer -> PC]
    <3> HIDE DEF TypeOK, PC, Goto, Remember, Finish
    <3>1. \E label \in {"release", "setStatus", "planning", "take"} : Goto(r, label)
      BY <1>4 DEF Snapshot, Finish
    <3>2. {"release", "setStatus", "planning", "take"} \subseteq PC
      BY DEF PC
    <3> QED BY <3>1, <3>2, Moves
  <2> QED BY <1>4, <2>4, <2>5 DEF Snapshot
<1>5. ASSUME NEW r \in Resumer, Yield(r) PROVE TypeOK'
  BY <1>5, LocalTypes DEF Yield
<1>6. ASSUME NEW r \in Resumer, SetRunStatus(r) PROVE TypeOK'
  BY <1>6, LocalFacts DEF SetRunStatus
<1>7. ASSUME NEW r \in Resumer, SetPlanning(r) PROVE TypeOK'
  BY <1>7, LocalTypes DEF SetPlanning
<1>8. ASSUME NEW r \in Resumer, SavePlan(r) PROVE TypeOK'
  <2>1. stepStatus' \in [StepId -> StepStatus]
    BY <1>8 DEF SavePlan
  <2>2. planVersion' \in 0 .. MaxPlans
    BY <1>8 DEF SavePlan
  <2>3. status' \in RunStatus /\ pc' \in [Resumer -> PC]
    BY <1>8 DEF SavePlan
  <2>4. UNCHANGED <<stepsUsed, callsUsed, cancelRequested, deadlinePassed, lease, leaseLive,
                    attempts, call, approval, lapsed, observed, loc, history, faults>>
    BY <1>8 DEF SavePlan
  <2> QED BY <2>1, <2>2, <2>3, <2>4
<1>9. ASSUME NEW r \in Resumer, TakeApproved(r) PROVE TypeOK'
  <2>1. PICK c \in Takeable :
          /\ approval' = [Swept EXCEPT ![c] = "consumed"]
          /\ SetCall(c, "running") /\ SetStep(c[1], "running")
          /\ Remember(r, Holding(c))
    BY <1>9 DEF TakeApproved
  <2>2. c \in CallId
    BY DEF Takeable
  <2>3. Holding(c) \in Local
    BY <2>2, HoldingType
  <2>4. approval' \in [CallId -> ApprovalStatus]
    BY <2>1, <2>2 DEF Swept
  <2>5. loc' \in [Resumer -> Local] /\ call' \in [CallId -> CallStatus]
        /\ stepStatus' \in [StepId -> StepStatus]
    BY <2>1, <2>2, <2>3
  <2> QED BY <1>9, <2>4, <2>5 DEF TakeApproved
<1>10. ASSUME NEW r \in Resumer, NothingApproved(r) PROVE TypeOK'
  BY <1>10, LocalTypes DEF NothingApproved, Swept, Takeable
<1>11. ASSUME NEW r \in Resumer, RecheckPolicy(r) PROVE TypeOK'
  BY <1>11, LocalTypes DEF RecheckPolicy
<1>12. ASSUME NEW r \in Resumer, StartStep(r) PROVE TypeOK'
  <2>1. AfterStart(r) \subseteq PC
    BY DEF AfterStart
  <2>2. loc' \in [Resumer -> Local] /\ pc' \in [Resumer -> PC]
    <3> HIDE DEF TypeOK, PC, Goto, Remember
    <3>1. AsDenied(loc[r]) \in Local /\ "release" \in PC
      BY LocalFacts, LocalTypes DEF PC
    <3>2. \/ Remember(r, AsDenied(loc[r])) \/ UNCHANGED loc
      BY <1>12 DEF StartStep
    <3>3. \E label \in AfterStart(r) \cup {"release"} : Goto(r, label)
      BY <1>12 DEF StartStep
    <3> QED BY <2>1, <3>1, <3>2, <3>3, Moves
  <2>3. stepStatus' \in [StepId -> StepStatus]
    <3>1. \/ stepStatus' = stepStatus
          \/ stepStatus' = [stepStatus EXCEPT ![loc[r].step] = "running"]
      BY <1>12 DEF StartStep
    <3> QED BY <3>1
  <2>5. attempts' \in [StepId -> Nat]
    <3>1. attempts' = attempts \/ attempts' = [attempts EXCEPT ![loc[r].step] = @ + 1]
      BY <1>12 DEF StartStep
    <3>2. loc[r].step \in StepId
      BY <1>12, LocalFacts DEF StartStep, HasStep
    <3>3. attempts \in [StepId -> Nat]
      OBVIOUS
    <3> QED BY ONLY <3>1, <3>2, <3>3
  <2>4. status' \in RunStatus /\ stepsUsed' \in 0 .. MaxSteps
    BY <1>12 DEF StartStep, Startable
  <2> QED BY <1>12, <2>2, <2>3, <2>4, <2>5 DEF StartStep
<1>13. ASSUME NEW r \in Resumer, CreateToolCall(r) PROVE TypeOK'
  <2> DEFINE c == <<loc[r].step, loc[r].attempt + 1>>
  <2>1. loc[r].step \in StepId /\ loc[r].attempt \in Nat
    BY <1>13, LocalFacts DEF CreateToolCall, HasStep
  <2>2. loc[r].attempt + 1 <= MaxCallAttempts => c \in CallId
    BY <2>1 DEF CallId
  <2>3. call' \in [CallId -> CallStatus]
    <3>1. call' = call \/ call' = [call EXCEPT ![c] = "running"]
      BY <1>13 DEF CreateToolCall
    <3> HIDE DEF c
    <3> QED BY <3>1
  <2>5. callsUsed' \in 0 .. MaxToolCalls
    BY <1>13 DEF CreateToolCall, ChargeCall
  <2>4. loc' \in [Resumer -> Local] /\ pc' \in [Resumer -> PC]
    <3> HIDE DEF TypeOK, PC, Goto, Remember
    <3>1. \/ c \in CallId /\ Remember(r, WithCall(loc[r], c))
          \/ UNCHANGED loc
      BY <1>13, <2>2 DEF CreateToolCall
    <3>2. \E label \in {"requestApproval", "execute", "release"} : Goto(r, label)
      BY <1>13 DEF CreateToolCall
    <3>3. {"requestApproval", "execute", "release"} \subseteq PC
      BY DEF PC
    <3>4. c \in CallId => WithCall(loc[r], c) \in Local
      BY LocalFacts, LocalTypes
    <3> QED BY <3>1, <3>2, <3>3, <3>4, Moves
  <2> QED BY <1>13, <2>3, <2>4, <2>5 DEF CreateToolCall
<1>14. ASSUME NEW r \in Resumer, RequestApproval(r) PROVE TypeOK'
  <2>1. loc' \in [Resumer -> Local] /\ pc' \in [Resumer -> PC]
    <3> HIDE DEF TypeOK, PC, Goto, Remember, Finish
    <3>1. Finish(r, "waiting_for_approval") \/ (Goto(r, "release") /\ UNCHANGED loc)
      BY <1>14 DEF RequestApproval
    <3>2. "release" \in PC
      BY DEF PC
    <3> QED BY <3>1, <3>2, Moves, FinishMoves
  <2>2. approval' \in [CallId -> ApprovalStatus]
    <3>1. approval' = approval \/ approval' = [approval EXCEPT ![loc[r].call] = "pending"]
      BY <1>14 DEF RequestApproval
    <3> QED BY <3>1
  <2>3. call' \in [CallId -> CallStatus]
    <3>1. call' = call \/ call' = [call EXCEPT ![loc[r].call] = "waiting_for_approval"]
      BY <1>14 DEF RequestApproval
    <3> QED BY <3>1
  <2>4. stepStatus' \in [StepId -> StepStatus]
    <3>1. \/ stepStatus' = stepStatus
          \/ stepStatus' = [stepStatus EXCEPT ![loc[r].call[1]] = "waiting"]
      BY <1>14 DEF RequestApproval
    <3> QED BY <3>1
  <2> QED BY <1>14, <2>1, <2>2, <2>3, <2>4 DEF RequestApproval
<1>15. ASSUME NEW r \in Resumer, ExecuteTool(r) PROVE TypeOK'
  <2>1. loc[r].call \in CallId
    BY <1>15, LocalFacts DEF ExecuteTool, HasCall
  <2>2. executed' \in [CallId -> Nat]
    BY <1>15, <2>1 DEF ExecuteTool
  <2>3. loc' \in [Resumer -> Local] /\ pc' \in [Resumer -> PC]
    <3> HIDE DEF TypeOK, PC, Goto, Remember
    <3>1. AsPending(loc[r]) \in Local /\ {"failCall", "completeCall"} \subseteq PC
      BY LocalFacts, LocalTypes DEF PC
    <3>2. \/ Remember(r, AsPending(loc[r])) \/ UNCHANGED loc
      BY <1>15 DEF ExecuteTool
    <3>3. \E label \in {"failCall", "completeCall"} : Goto(r, label)
      BY <1>15 DEF ExecuteTool
    <3> QED BY <3>1, <3>2, <3>3, Moves
  <2> QED BY <1>15, <2>2, <2>3 DEF ExecuteTool
<1>16. ASSUME NEW r \in Resumer, ChargeWorker(r) PROVE TypeOK'
  BY <1>16, LocalTypes DEF ChargeWorker
<1>17. ASSUME NEW r \in Resumer, CompleteToolCall(r) PROVE TypeOK'
  BY <1>17, LocalTypes DEF CompleteToolCall
<1>18. ASSUME NEW r \in Resumer, DeferStep(r) PROVE TypeOK'
  BY <1>18, LocalTypes DEF DeferStep
<1>19. ASSUME NEW r \in Resumer, CompleteStep(r) PROVE TypeOK'
  <2>1. loc[r].step \in StepId
    BY <1>19, LocalFacts DEF CompleteStep, HasStep
  <2> QED BY <1>19, <2>1 DEF CompleteStep
<1>20. ASSUME NEW r \in Resumer, AppendObservation(r) PROVE TypeOK'
  <2>1. loc[r].step \in StepId
    BY <1>20, LocalFacts DEF AppendObservation, HasStep
  <2> QED BY <1>20, <2>1 DEF AppendObservation
<1>21. ASSUME NEW r \in Resumer, FailToolCall(r) PROVE TypeOK'
  BY <1>21, LocalTypes DEF FailToolCall
<1>22. ASSUME NEW r \in Resumer, RetryStep(r) PROVE TypeOK'
  BY <1>22, LocalTypes DEF RetryStep
<1>23. ASSUME NEW r \in Resumer, FailStep(r) PROVE TypeOK'
  <2>1. loc' \in [Resumer -> Local] /\ pc' \in [Resumer -> PC]
    <3> HIDE DEF TypeOK, PC, Goto, Remember, Finish
    <3>1. \/ \E v \in {"paused", "failed"} : Finish(r, v)
          \/ Goto(r, "revise") /\ UNCHANGED loc
      BY <1>23 DEF FailStep
    <3>2. "revise" \in PC
      BY DEF PC
    <3> QED BY <3>1, <3>2, Moves, FinishMoves
  <2>2. loc[r].step \in StepId
    BY <1>23, LocalFacts DEF FailStep, HasStep
  <2> QED BY <1>23, <2>1, <2>2 DEF FailStep
<1>24. ASSUME NEW r \in Resumer, Crash(r) PROVE TypeOK'
  BY <1>24, LocalTypes DEF Crash, Orphaned
<1>25. ASSUME NEW r \in Resumer, StoreFails(r) PROVE TypeOK'
  <2>1. loc' \in [Resumer -> Local] /\ pc' \in [Resumer -> PC]
    <3> HIDE DEF TypeOK, PC, Goto, Remember
    <3>1. Remember(r, Blank) \/ UNCHANGED loc
      BY <1>25 DEF StoreFails
    <3>2. \E label \in {"failCall", "idle", "release"} : Goto(r, label)
      BY <1>25 DEF StoreFails
    <3>3. Blank \in Local /\ {"failCall", "idle", "release"} \subseteq PC
      BY LocalTypes DEF PC
    <3> QED BY <3>1, <3>2, <3>3, Moves
  <2>2. lease' \in Resumer \cup {None, Orphan}
    BY <1>25 DEF StoreFails, Orphaned
  <2> QED BY <1>25, <2>1, <2>2 DEF StoreFails
<1>26. ASSUME LeaseExpires PROVE TypeOK'
  BY <1>26 DEF LeaseExpires
<1>27. ASSUME DeadlinePasses PROVE TypeOK'
  BY <1>27 DEF DeadlinePasses
<1>28. ASSUME RequestCancellation PROVE TypeOK'
  BY <1>28 DEF RequestCancellation
<1>29. ASSUME NEW c \in CallId, ApprovalLapses(c) PROVE TypeOK'
  BY <1>29 DEF ApprovalLapses
<1>30. ASSUME NEW c \in CallId, Approve(c) PROVE TypeOK'
  <2>1. approval' \in [CallId -> ApprovalStatus] /\ status' \in RunStatus
    BY <1>30 DEF Approve
  <2> QED BY <1>30, <2>1 DEF Approve
<1>31. ASSUME NEW c \in CallId, Reject(c) PROVE TypeOK'
  BY <1>31 DEF Reject, Undecided
<1>32. CASE UNCHANGED vars
  BY <1>32 DEF vars
<1> QED
  BY <1>1, <1>2, <1>3, <1>4, <1>5, <1>6, <1>7, <1>8, <1>9, <1>10, <1>11, <1>12, <1>13, <1>14, <1>15, <1>16, <1>17, <1>18, <1>19, <1>20, <1>21, <1>22, <1>23, <1>24, <1>25, <1>26, <1>27, <1>28, <1>29, <1>30, <1>31, <1>32 DEF Next, Work, User

-----------------------------------------------------------------------------
\* What each way of remembering does to the fields SpendInv reads.
LEMMA Memories ==
  /\ Blank.step = None /\ Blank.call = None /\ Blank.kind = "planned"
  /\ \A l \in Local, v \in RunStatus :
       LET m == WithVerdict(l, v)
       IN  m.step = l.step /\ m.call = l.call /\ m.kind = l.kind
  /\ \A l \in Local, c \in CallId :
       LET m == WithCall(l, c)
       IN  m.step = l.step /\ m.call = c /\ m.kind = l.kind
  /\ \A l \in Local :
       /\ AsDenied(l).step = l.step /\ AsDenied(l).call = l.call
       /\ AsDenied(l).kind = "denied"
       /\ AsPending(l).step = l.step /\ AsPending(l).call = l.call
       /\ AsPending(l).kind = l.kind
  /\ \A s \in StepId : SnapshotOf(s).step = s /\ SnapshotOf(s).call = None
                       /\ SnapshotOf(s).kind = "planned"
  /\ \A c \in CallId : Holding(c).step = c[1] /\ Holding(c).call = c
                       /\ Holding(c).kind = "approved"
<1>1. Blank.step = None /\ Blank.call = None /\ Blank.kind = "planned"
  BY DEF Blank
<1>2. ASSUME NEW l \in Local, NEW v \in RunStatus
      PROVE  LET m == WithVerdict(l, v)
             IN  m.step = l.step /\ m.call = l.call /\ m.kind = l.kind
  BY DEF WithVerdict, Local
<1>3. ASSUME NEW l \in Local, NEW c \in CallId
      PROVE  LET m == WithCall(l, c)
             IN  m.step = l.step /\ m.call = c /\ m.kind = l.kind
  BY DEF WithCall, Local
<1>4. ASSUME NEW l \in Local
      PROVE  /\ AsDenied(l).step = l.step /\ AsDenied(l).call = l.call
             /\ AsDenied(l).kind = "denied"
             /\ AsPending(l).step = l.step /\ AsPending(l).call = l.call
             /\ AsPending(l).kind = l.kind
  BY DEF AsDenied, AsPending, Local
<1>5. ASSUME NEW s \in StepId
      PROVE  SnapshotOf(s).step = s /\ SnapshotOf(s).call = None /\ SnapshotOf(s).kind = "planned"
  BY DEF SnapshotOf, Blank
<1>6. ASSUME NEW c \in CallId
      PROVE  Holding(c).step = c[1] /\ Holding(c).call = c /\ Holding(c).kind = "approved"
  BY DEF Holding, Blank
<1> QED BY <1>1, <1>2, <1>3, <1>4, <1>5, <1>6

\* A step of one request that attempts nothing and begins no spending keeps
\* SpendInv as long as no consumed approval changes.
LEMMA QuietRequest ==
  ASSUME SpendInv, NEW r \in Resumer,
         \A q \in Resumer \ {r} : pc'[q] = pc[q] /\ loc'[q] = loc[q],
         UNCHANGED executed,
         ExternalAsked',
         \A c \in CallId : approval[c] = "consumed" => approval'[c] = "consumed",
         InHand(r)',
         Spending(r)' => Spending(r) /\ loc'[r].call = loc[r].call
  PROVE  SpendInv'
<1>1. AttemptedOnce'
  BY DEF SpendInv, AttemptedOnce
<1>2. HandsFull'
  BY DEF SpendInv, HandsFull, InHand
<1>3. ASSUME NEW q \in Resumer, Spending(q)'
      PROVE  Spending(q) /\ loc'[q].call = loc[q].call /\ loc[q].call \in CallId
  BY <1>3 DEF Spending, SpendInv, HandsFull, InHand, HasCall
<1>4. SpendingIsFresh'
  BY <1>3 DEF SpendInv, SpendingIsFresh
<1>5. SpendersDiffer'
  BY <1>3 DEF SpendInv, SpendersDiffer
<1> QED BY <1>1, <1>2, <1>4, <1>5 DEF SpendInv

\* The same for a step of the user or the clock.
LEMMA QuietWorld ==
  ASSUME SpendInv, UNCHANGED <<pc, loc, executed>>, ExternalAsked',
         \A c \in CallId : approval[c] = "consumed" => approval'[c] = "consumed"
  PROVE  SpendInv'
<1>1. ASSUME NEW q \in Resumer, Spending(q)
      PROVE  loc[q].call \in CallId
  BY <1>1 DEF Spending, SpendInv, HandsFull, InHand, HasCall
<1>2. AttemptedOnce' /\ HandsFull' /\ SpendersDiffer'
  BY DEF SpendInv, AttemptedOnce, HandsFull, InHand, SpendersDiffer, Spending
<1>3. SpendingIsFresh'
  BY <1>1 DEF SpendInv, SpendingIsFresh, Spending
<1> QED BY <1>2, <1>3 DEF SpendInv

\* A request that keeps its memory and moves on.
LEMMA MovesOn ==
  ASSUME TypeOK, SpendInv, NEW r \in Resumer, NEW label, Goto(r, label),
         UNCHANGED <<loc, approval, executed>>,
         label \in HasStep => loc[r].step \in StepId,
         label \in HasCall => loc[r].call \in CallId,
         label \notin {"requestApproval", "recheck"},
         label \in Planning => loc[r].kind # "approved",
         label = "execute" => pc[r] = "recheck"
  PROVE  SpendInv'
<1>1. pc'[r] = label /\ \A q \in Resumer \ {r} : pc'[q] = pc[q]
  BY DEF Goto, TypeOK
<1>2. InHand(r)
  BY DEF SpendInv, HandsFull
<1>3. InHand(r)'
  BY <1>1, <1>2 DEF InHand
<1>4. Spending(r)' => Spending(r) /\ loc'[r].call = loc[r].call
  BY <1>1 DEF Spending
<1> QED BY <1>1, <1>3, <1>4, QuietRequest DEF SpendInv, ExternalAsked

\* A request that puts its step down.
LEMMA PutsDown ==
  ASSUME TypeOK, SpendInv, NEW r \in Resumer, NEW label \in PC \ HasStep, NEW l,
         Goto(r, label), Remember(r, l), l.call # None => l.call[1] = l.step,
         ExternalAsked', UNCHANGED executed, label \in Planning => l.kind # "approved",
         \A c \in CallId : approval[c] = "consumed" => approval'[c] = "consumed"
  PROVE  SpendInv'
<1>1. /\ pc'[r] = label /\ loc'[r] = l
      /\ \A q \in Resumer \ {r} : pc'[q] = pc[q] /\ loc'[q] = loc[q]
  BY DEF Goto, Remember, TypeOK
<1>2. InHand(r)' /\ ~Spending(r)'
  BY <1>1 DEF InHand, Spending, HasStep, HasCall, Planning
<1> QED BY <1>1, <1>2, QuietRequest

\* ... and leaves the approvals alone.
LEMMA PutsDownQuietly ==
  ASSUME TypeOK, SpendInv, NEW r \in Resumer, NEW label \in PC \ HasStep, NEW l,
         Goto(r, label), Remember(r, l), l.call # None => l.call[1] = l.step,
         UNCHANGED <<approval, executed>>, label \in Planning => l.kind # "approved"
  PROVE  SpendInv'
  BY PutsDown DEF SpendInv, ExternalAsked

\* A request that goes to write a run status puts its step down.
LEMMA PutsDownWithVerdict ==
  ASSUME TypeOK, SpendInv, NEW r \in Resumer, NEW v \in RunStatus, Finish(r, v),
         UNCHANGED <<approval, executed>>
  PROVE  SpendInv'
<1>1. loc[r] \in Local /\ "setStatus" \in PC \ HasStep
  BY DEF TypeOK, PC, HasStep
<1>2. loc[r].call # None => loc[r].call[1] = loc[r].step
  BY DEF SpendInv, HandsFull, InHand
<1> QED BY <1>1, <1>2, Memories, PutsDownQuietly DEF Planning, Finish

\* Every step keeps the inductive invariant.
LEMMA SpendStep ==
  ASSUME TypeOK, SpendInv, [Next]_vars
  PROVE  SpendInv'
<1> USE RuntimeAssumption DEF NoEnv, runVars, envVars, rowVars
<1>1. ASSUME NEW r \in Resumer, Claim(r) PROVE SpendInv'
  <2>1. "recover" \in PC \ HasStep
    BY DEF PC, HasStep
  <2> QED BY <1>1, <2>1, Memories, PutsDownQuietly DEF Planning, Claim
<1>2. ASSUME NEW r \in Resumer, Release(r) PROVE SpendInv'
  <2>1. "idle" \in PC \ HasStep
    BY DEF PC, HasStep
  <2> QED BY <1>2, <2>1, Memories, PutsDownQuietly DEF Planning, Release
<1>3. ASSUME NEW r \in Resumer, Recover(r) PROVE SpendInv'
  <2>1. PICK label \in {"top", "release"} : Goto(r, label)
    BY <1>3 DEF Recover
  <2> QED BY <1>3, <2>1, MovesOn DEF Planning, Recover, HasStep, HasCall, Planning
<1>4. ASSUME NEW r \in Resumer, Snapshot(r) PROVE SpendInv'
  <2>1. CASE Goto(r, "release") /\ UNCHANGED loc
    BY <1>4, <2>1, MovesOn DEF Planning, Snapshot, HasStep, HasCall, Planning
  <2>2. CASE \E v \in {"cancelled", "failed"} : Finish(r, v)
    BY <1>4, <2>2, PutsDownWithVerdict DEF Snapshot, RunStatus
  <2>3. CASE Goto(r, "planning") /\ Remember(r, Blank)
    <3>1. "planning" \in PC \ HasStep
      BY DEF PC, HasStep
    <3> QED BY <1>4, <2>3, <3>1, Memories, PutsDownQuietly DEF Planning, Snapshot
  <2>4. ASSUME planVersion > 0, Goto(r, "take"), NEW l, Remember(r, l),
               l = WithVerdict(Blank, Conclusion) \/ \E s \in NextSteps : l = SnapshotOf(s)
        PROVE  SpendInv'
    <3>1. "take" \in PC \ HasStep /\ Conclusion \in RunStatus
      BY DEF PC, HasStep, Conclusion, RunStatus
    <3>2. l.call = None /\ l.kind = "planned"
      <4>1. CASE l = WithVerdict(Blank, Conclusion)
        BY <4>1 DEF WithVerdict, Blank
      <4>2. ASSUME NEW s \in NextSteps, l = SnapshotOf(s) PROVE l.call = None /\ l.kind = "planned"
        BY <2>4, <4>2, NextStepType, Memories
      <4> QED BY <2>4, <4>1, <4>2
    <3> QED BY <1>4, <2>4, <3>1, <3>2, PutsDownQuietly DEF Planning, Snapshot
  <2>5. CASE /\ planVersion > 0 /\ Goto(r, "take")
             /\ \/ Remember(r, WithVerdict(Blank, Conclusion))
                \/ \E s \in NextSteps : Remember(r, SnapshotOf(s))
    BY <2>4, <2>5
  <2> QED BY <1>4, <2>1, <2>2, <2>3, <2>5 DEF Snapshot
<1>5. ASSUME NEW r \in Resumer, Yield(r) PROVE SpendInv'
  BY <1>5, MovesOn DEF Planning, Yield, HasStep, HasCall, Planning
<1>6. ASSUME NEW r \in Resumer, SetRunStatus(r) PROVE SpendInv'
  BY <1>6, MovesOn DEF Planning, SetRunStatus, HasStep, HasCall, Planning
<1>7. ASSUME NEW r \in Resumer, SetPlanning(r) PROVE SpendInv'
  BY <1>7, MovesOn DEF Planning, SetPlanning, HasStep, HasCall, Planning
<1>8. ASSUME NEW r \in Resumer, SavePlan(r) PROVE SpendInv'
  <2>1. PICK label \in {"next", "release"} : Goto(r, label)
    BY <1>8 DEF SavePlan
  <2> QED BY <1>8, <2>1, MovesOn DEF Planning, SavePlan, HasStep, HasCall, Planning
<1>9. ASSUME NEW r \in Resumer, TakeApproved(r) PROVE SpendInv'
  <2>1. PICK c \in Takeable :
          approval' = [Swept EXCEPT ![c] = "consumed"] /\ Remember(r, Holding(c))
    BY <1>9 DEF TakeApproved
  <2>2. c \in CallId /\ approval[c] = "approved" /\ c[1] \in StepId
    BY DEF Takeable, CallId
  <2>3. /\ pc'[r] = "recheck" /\ loc'[r] = Holding(c)
        /\ \A q \in Resumer \ {r} : pc'[q] = pc[q] /\ loc'[q] = loc[q]
    BY <1>9, <2>1 DEF TakeApproved, Goto, Remember, TypeOK
  <2>4. /\ approval'[c] = "consumed"
        /\ \A d \in CallId \ {c} :
             approval'[d] = IF d \in Overdue THEN "expired" ELSE approval[d]
    BY <2>1, <2>2 DEF Swept
  <2>5. executed' = executed /\ executed[c] = 0
    BY <1>9, <2>2 DEF TakeApproved, SpendInv, AttemptedOnce, ExternalAsked
  <2>6. ExternalAsked' /\ AttemptedOnce'
    BY <2>2, <2>4, <2>5 DEF SpendInv, ExternalAsked, AttemptedOnce, Overdue
  <2>7. InHand(r)'
    BY <2>2, <2>3, Memories DEF InHand, HasStep, HasCall, Planning
  <2>8. HandsFull'
    BY <2>3, <2>7 DEF SpendInv, HandsFull, InHand
  <2>9. ASSUME NEW q \in Resumer \ {r}, Spending(q)'
        PROVE  /\ Spending(q) /\ loc'[q].call = loc[q].call /\ loc[q].call # c
               /\ loc[q].call \in CallId /\ approval'[loc[q].call] = "consumed"
               /\ executed[loc[q].call] = 0
    <3>1. Spending(q) /\ loc'[q].call = loc[q].call
      BY <2>3, <2>9 DEF Spending
    <3>2. loc[q].call \in CallId
      BY <3>1 DEF Spending, SpendInv, HandsFull, InHand, HasCall
    <3>3. approval[loc[q].call] = "consumed" /\ executed[loc[q].call] = 0
      BY <3>1 DEF SpendInv, SpendingIsFresh
    <3> QED BY <2>2, <2>4, <3>1, <3>2, <3>3 DEF Overdue
  <2>10. loc'[r].call = c
    BY <2>2, <2>3, Memories
  <2>11. SpendingIsFresh'
    BY <2>4, <2>5, <2>9, <2>10 DEF SpendingIsFresh
  <2>12. SpendersDiffer'
    BY <2>9, <2>10 DEF SpendInv, SpendersDiffer
  <2> QED BY <2>6, <2>8, <2>11, <2>12 DEF SpendInv
<1>10. ASSUME NEW r \in Resumer, NothingApproved(r) PROVE SpendInv'
  <2>1. pc[r] = "take" /\ approval' = Swept /\ UNCHANGED <<loc, executed>>
        /\ Goto(r, IF loc[r].step = None THEN "setStatus" ELSE "start")
    BY <1>10 DEF NothingApproved
  <2>2. \A d \in CallId : approval'[d] = IF d \in Overdue THEN "expired" ELSE approval[d]
    BY <2>1 DEF Swept
  <2>3. ExternalAsked' /\ \A d \in CallId : approval[d] = "consumed" => approval'[d] = "consumed"
    BY <2>2 DEF SpendInv, ExternalAsked, Overdue
  <2>4. loc[r].step \in StepId \cup {None}
    BY DEF TypeOK, Local
  <2>5. /\ pc'[r] = IF loc[r].step = None THEN "setStatus" ELSE "start"
        /\ \A q \in Resumer \ {r} : pc'[q] = pc[q] /\ loc'[q] = loc[q]
    BY <2>1 DEF Goto, TypeOK
  <2>6. InHand(r)' /\ ~Spending(r)'
    BY <2>1, <2>4, <2>5 DEF SpendInv, HandsFull, InHand, Spending, HasStep, HasCall, Planning
  <2> QED BY <2>1, <2>3, <2>5, <2>6, QuietRequest
<1>11. ASSUME NEW r \in Resumer, RecheckPolicy(r) PROVE SpendInv'
  <2>1. PICK label \in {"failCall", "execute"} : Goto(r, label)
    BY <1>11 DEF RecheckPolicy
  <2>2. loc[r].step \in StepId /\ loc[r].call \in CallId
    BY <1>11, LocalFacts DEF RecheckPolicy, HasStep, HasCall, Planning
  <2> QED BY <1>11, <2>1, <2>2, MovesOn DEF Planning, RecheckPolicy
<1>12. ASSUME NEW r \in Resumer, StartStep(r) PROVE SpendInv'
  <2>1. pc[r] = "start" /\ UNCHANGED <<approval, executed>>
    BY <1>12 DEF StartStep
  <2>2. loc[r] \in Local /\ loc[r].step \in StepId
    BY <2>1, LocalFacts DEF HasStep
  <2>6. loc[r].kind # "approved"
    BY <2>1 DEF SpendInv, HandsFull, InHand, Planning
  <2>3. PICK label \in {"completeStep", "failStep", "createCall", "release"} : Goto(r, label)
    BY <1>12 DEF StartStep, AfterStart
  <2>4. CASE UNCHANGED loc
    BY <2>1, <2>2, <2>3, <2>4, <2>6, MovesOn DEF Planning, HasCall
  <2>5. CASE Remember(r, AsDenied(loc[r]))
    <3>1. /\ pc'[r] = label /\ loc'[r] = AsDenied(loc[r])
          /\ \A q \in Resumer \ {r} : pc'[q] = pc[q] /\ loc'[q] = loc[q]
      BY <2>3, <2>5 DEF Goto, Remember, TypeOK
    <3>2. InHand(r)' /\ ~Spending(r)'
      BY <2>2, <3>1, Memories DEF SpendInv, HandsFull, InHand, Spending, HasStep, HasCall, Planning
    <3> QED BY <2>1, <3>1, <3>2, QuietRequest DEF SpendInv, ExternalAsked
  <2> QED BY <1>12, <2>4, <2>5 DEF StartStep
<1>13. ASSUME NEW r \in Resumer, CreateToolCall(r) PROVE SpendInv'
  <2> DEFINE c == <<loc[r].step, loc[r].attempt + 1>>
  <2>1. pc[r] = "createCall" /\ UNCHANGED <<approval, executed>>
    BY <1>13 DEF CreateToolCall
  <2>2. loc[r] \in Local /\ loc[r].step \in StepId /\ loc[r].attempt \in Nat
    BY <2>1, LocalFacts DEF HasStep
  <2>3. CASE Goto(r, "release") /\ UNCHANGED loc
    BY <2>1, <2>3, MovesOn DEF Planning, HasStep, HasCall, Planning
  <2>4. ASSUME loc[r].attempt + 1 <= MaxCallAttempts, Remember(r, WithCall(loc[r], c)),
               Goto(r, IF ToolOf(c[1]) = "external" THEN "requestApproval" ELSE "execute")
        PROVE  SpendInv'
    <3>1. c \in CallId /\ c[1] = loc[r].step
      BY <2>2, <2>4 DEF CallId
    <3>5. loc[r].kind # "approved"
      BY <2>1 DEF SpendInv, HandsFull, InHand, Planning
    <3> HIDE DEF c
    <3>2. /\ pc'[r] = IF ToolOf(c[1]) = "external" THEN "requestApproval" ELSE "execute"
          /\ loc'[r] = WithCall(loc[r], c)
          /\ \A q \in Resumer \ {r} : pc'[q] = pc[q] /\ loc'[q] = loc[q]
      BY <2>4 DEF Goto, Remember, TypeOK
    <3>3. loc'[r].step = loc[r].step /\ loc'[r].call = c /\ loc'[r].kind = loc[r].kind
      BY <2>2, <3>1, <3>2, Memories
    <3>4. InHand(r)'
      BY <2>2, <3>1, <3>2, <3>3, <3>5 DEF InHand, HasStep, HasCall, Planning
    <3>6. ~Spending(r)'
      BY <3>2, <3>3, <3>5 DEF Spending
    <3> QED BY <2>1, <3>2, <3>4, <3>6, QuietRequest DEF SpendInv, ExternalAsked
  <2> QED BY <1>13, <2>3, <2>4 DEF CreateToolCall
<1>14. ASSUME NEW r \in Resumer, RequestApproval(r) PROVE SpendInv'
  <2>1. pc[r] = "requestApproval" /\ UNCHANGED executed
    BY <1>14 DEF RequestApproval
  <2>2. loc[r] \in Local /\ loc[r].call \in CallId /\ ToolOf(loc[r].call[1]) = "external"
    BY <2>1, LocalFacts DEF SpendInv, HandsFull, InHand, HasCall
  <2>3. CASE Goto(r, "release") /\ UNCHANGED <<loc, approval>>
    BY <2>1, <2>3, MovesOn DEF Planning, HasStep, HasCall, Planning
  <2>4. ASSUME approval[loc[r].call] = "none",
               approval' = [approval EXCEPT ![loc[r].call] = "pending"],
               Finish(r, "waiting_for_approval")
        PROVE  SpendInv'
    <3>1. "setStatus" \in PC \ HasStep /\ "waiting_for_approval" \in RunStatus
      BY DEF PC, HasStep, RunStatus
    <3>2. ExternalAsked'
      BY <2>2, <2>4 DEF SpendInv, ExternalAsked, TypeOK
    <3>3. \A d \in CallId : approval[d] = "consumed" => approval'[d] = "consumed"
      BY <2>2, <2>4 DEF TypeOK
    <3>4. loc[r].call[1] = loc[r].step
      BY <2>2 DEF SpendInv, HandsFull, InHand
    <3> QED BY <2>1, <2>2, <2>4, <3>1, <3>2, <3>3, <3>4, Memories, PutsDown DEF Planning, Finish
  <2> QED BY <1>14, <2>3, <2>4 DEF RequestApproval
<1>15. ASSUME NEW r \in Resumer, ExecuteTool(r) PROVE SpendInv'
  <2> DEFINE c == loc[r].call
  <2>1. /\ pc[r] = "execute" /\ approval' = approval
        /\ executed' = [executed EXCEPT ![c] = @ + 1]
    BY <1>15 DEF ExecuteTool
  <2>2. /\ loc[r] \in Local /\ loc[r].step \in StepId
        /\ c \in CallId /\ c[1] = loc[r].step
    BY <2>1, LocalFacts DEF SpendInv, HandsFull, InHand, HasCall, HasStep
  <2>3. /\ pc'[r] \in {"failCall", "completeCall"}
        /\ loc'[r] \in {loc[r], AsPending(loc[r])}
        /\ \A q \in Resumer \ {r} : pc'[q] = pc[q] /\ loc'[q] = loc[q]
    BY <1>15 DEF ExecuteTool, Goto, Remember, TypeOK
  <2>4. loc'[r].step = loc[r].step /\ loc'[r].call = c
    BY <2>2, <2>3, Memories
  <2>5. InHand(r)' /\ ~Spending(r)'
    BY <2>2, <2>3, <2>4 DEF InHand, Spending, HasStep, HasCall, Planning
  <2>6. HandsFull' /\ ExternalAsked'
    BY <2>1, <2>3, <2>5 DEF SpendInv, HandsFull, InHand, ExternalAsked
  <2>7. ToolOf(c[1]) = "external" => Spending(r)
    BY <2>1, <2>2 DEF SpendInv, HandsFull, InHand, Spending
  <2>8. ToolOf(c[1]) = "external" => approval[c] = "consumed" /\ executed[c] = 0
    BY <2>7 DEF SpendInv, SpendingIsFresh
  <2> HIDE DEF c
  <2>9. /\ executed'[c] = executed[c] + 1
        /\ \A d \in CallId \ {c} : executed'[d] = executed[d]
    BY <2>1, <2>2 DEF TypeOK
  <2>10. AttemptedOnce'
    BY <2>1, <2>8, <2>9 DEF SpendInv, AttemptedOnce
  <2>11. ASSUME NEW q \in Resumer, Spending(q)'
         PROVE  /\ Spending(q) /\ loc'[q].call = loc[q].call
                /\ approval'[loc[q].call] = "consumed" /\ executed'[loc[q].call] = 0
    <3>1. q # r /\ Spending(q) /\ loc'[q].call = loc[q].call
      BY <2>3, <2>5, <2>11 DEF Spending
    <3>2. loc[q].call \in CallId
      BY <3>1 DEF Spending, SpendInv, HandsFull, InHand, HasCall
    <3>3. approval[loc[q].call] = "consumed" /\ executed[loc[q].call] = 0
      BY <3>1 DEF SpendInv, SpendingIsFresh
    <3>4. ToolOf(loc[q].call[1]) = "external"
      BY <3>2, <3>3 DEF SpendInv, ExternalAsked
    <3>5. loc[q].call # c
      BY <2>7, <3>1, <3>4 DEF SpendInv, SpendersDiffer, c
    <3> QED BY <2>1, <2>9, <3>1, <3>2, <3>3, <3>5
  <2>12. SpendingIsFresh' /\ SpendersDiffer'
    BY <2>11 DEF SpendInv, SpendingIsFresh, SpendersDiffer
  <2> QED BY <2>6, <2>10, <2>12 DEF SpendInv
<1>16. ASSUME NEW r \in Resumer, ChargeWorker(r) PROVE SpendInv'
  BY <1>16, QuietWorld DEF ChargeWorker, SpendInv, ExternalAsked
<1>17. ASSUME NEW r \in Resumer, CompleteToolCall(r) PROVE SpendInv'
  <2>1. PICK label \in {"deferStep", "completeStep"} : Goto(r, label)
    BY <1>17 DEF CompleteToolCall
  <2>2. loc[r].step \in StepId /\ (label \in HasCall => loc[r].call \in CallId)
    BY <1>17, <2>1, LocalFacts DEF CompleteToolCall, HasStep, HasCall, Planning
  <2> QED BY <1>17, <2>1, <2>2, MovesOn DEF Planning, CompleteToolCall
<1>18. ASSUME NEW r \in Resumer, DeferStep(r) PROVE SpendInv'
  <2>1. PICK label \in {"observe"} : Goto(r, label)
    BY <1>18 DEF DeferStep
  <2>2. loc[r].step \in StepId /\ (label \in HasCall => loc[r].call \in CallId)
    BY <1>18, <2>1, LocalFacts DEF DeferStep, HasStep, HasCall, Planning
  <2> QED BY <1>18, <2>1, <2>2, MovesOn DEF Planning, DeferStep
<1>19. ASSUME NEW r \in Resumer, CompleteStep(r) PROVE SpendInv'
  <2>1. PICK label \in {"observe"} : Goto(r, label)
    BY <1>19 DEF CompleteStep
  <2>2. loc[r].step \in StepId /\ (label \in HasCall => loc[r].call \in CallId)
    BY <1>19, <2>1, LocalFacts DEF CompleteStep, HasStep, HasCall, Planning
  <2> QED BY <1>19, <2>1, <2>2, MovesOn DEF Planning, CompleteStep
<1>20. ASSUME NEW r \in Resumer, AppendObservation(r) PROVE SpendInv'
  <2>1. PICK label \in {"release", "next"} : Goto(r, label)
    BY <1>20 DEF AppendObservation
  <2>2. loc[r].step \in StepId /\ (label \in HasCall => loc[r].call \in CallId)
    BY <1>20, <2>1, LocalFacts DEF AppendObservation, HasStep, HasCall, Planning
  <2> QED BY <1>20, <2>1, <2>2, MovesOn DEF Planning, AppendObservation
<1>21. ASSUME NEW r \in Resumer, FailToolCall(r) PROVE SpendInv'
  <2>1. PICK label \in {"retryStep", "failStep"} : Goto(r, label)
    BY <1>21 DEF FailToolCall
  <2>2. loc[r].step \in StepId /\ (label \in HasCall => loc[r].call \in CallId)
    BY <1>21, <2>1, LocalFacts DEF FailToolCall, HasStep, HasCall, Planning
  <2> QED BY <1>21, <2>1, <2>2, MovesOn DEF Planning, FailToolCall
<1>22. ASSUME NEW r \in Resumer, RetryStep(r) PROVE SpendInv'
  <2>1. PICK label \in {"next"} : Goto(r, label)
    BY <1>22 DEF RetryStep
  <2>2. loc[r].step \in StepId /\ (label \in HasCall => loc[r].call \in CallId)
    BY <1>22, <2>1, LocalFacts DEF RetryStep, HasStep, HasCall, Planning
  <2> QED BY <1>22, <2>1, <2>2, MovesOn DEF Planning, RetryStep
<1>23. ASSUME NEW r \in Resumer, FailStep(r) PROVE SpendInv'
  <2>1. CASE \E v \in {"paused", "failed"} : Finish(r, v)
    BY <1>23, <2>1, PutsDownWithVerdict DEF FailStep, RunStatus
  <2>2. CASE Goto(r, "revise") /\ UNCHANGED loc
    BY <1>23, <2>2, MovesOn DEF Planning, FailStep, HasStep, HasCall, Planning
  <2> QED BY <1>23, <2>1, <2>2 DEF FailStep
<1>24. ASSUME NEW r \in Resumer, Crash(r) PROVE SpendInv'
  <2>1. "idle" \in PC \ HasStep
    BY DEF PC, HasStep
  <2> QED BY <1>24, <2>1, Memories, PutsDownQuietly DEF Planning, Crash
<1>25. ASSUME NEW r \in Resumer, StoreFails(r) PROVE SpendInv'
  <2>1. UNCHANGED <<approval, executed>>
    BY <1>25 DEF StoreFails
  <2>2. CASE InTry(r) /\ Goto(r, "failCall") /\ UNCHANGED loc
    <3>1. loc[r].step \in StepId /\ loc[r] \in Local /\ loc[r].call # None
      BY <2>2, LocalFacts DEF InTry, HasStep
    <3>2. loc[r].call \in CallId
      BY <3>1 DEF Local
    <3> QED BY <2>1, <2>2, <3>1, <3>2, MovesOn DEF Planning
  <2>3. CASE Goto(r, "idle") /\ Remember(r, Blank)
    <3>1. "idle" \in PC \ HasStep
      BY DEF PC, HasStep
    <3> QED BY <2>1, <2>3, <3>1, Memories, PutsDownQuietly
  <2>4. CASE Goto(r, "release") /\ UNCHANGED loc
    BY <2>1, <2>4, MovesOn DEF Planning, HasStep, HasCall, Planning
  <2> QED BY <1>25, <2>2, <2>3, <2>4 DEF StoreFails
<1>26. ASSUME LeaseExpires PROVE SpendInv'
  BY <1>26, QuietWorld DEF LeaseExpires, SpendInv, ExternalAsked
<1>27. ASSUME DeadlinePasses PROVE SpendInv'
  BY <1>27, QuietWorld DEF DeadlinePasses, SpendInv, ExternalAsked
<1>28. ASSUME RequestCancellation PROVE SpendInv'
  BY <1>28, QuietWorld DEF RequestCancellation, SpendInv, ExternalAsked
<1>29. ASSUME NEW c \in CallId, ApprovalLapses(c) PROVE SpendInv'
  BY <1>29, QuietWorld DEF ApprovalLapses, SpendInv, ExternalAsked
<1>30. ASSUME NEW c \in CallId, Approve(c) PROVE SpendInv'
  <2>1. /\ approval[c] = "pending" /\ UNCHANGED <<pc, loc, executed>>
        /\ \E v \in {"expired", "approved"} : approval' = [approval EXCEPT ![c] = v]
    BY <1>30 DEF Approve, Undecided
  <2> QED BY <2>1, QuietWorld DEF SpendInv, ExternalAsked, TypeOK
<1>31. ASSUME NEW c \in CallId, Reject(c) PROVE SpendInv'
  <2>1. /\ approval[c] = "pending" /\ UNCHANGED <<pc, loc, executed>>
        /\ approval' = [approval EXCEPT ![c] = "rejected"]
    BY <1>31 DEF Reject, Undecided
  <2> QED BY <2>1, QuietWorld DEF SpendInv, ExternalAsked, TypeOK
<1>32. CASE UNCHANGED vars
  BY <1>32, QuietWorld DEF vars, SpendInv, ExternalAsked
<1> QED
  BY <1>1, <1>2, <1>3, <1>4, <1>5, <1>6, <1>7, <1>8, <1>9, <1>10, <1>11, <1>12, <1>13,
     <1>14, <1>15, <1>16, <1>17, <1>18, <1>19, <1>20, <1>21, <1>22, <1>23, <1>24, <1>25,
     <1>26, <1>27, <1>28, <1>29, <1>30, <1>31, <1>32 DEF Next, Work, User

-----------------------------------------------------------------------------
\* The invariant holds of a new run, which has no plan, calls or approvals.
LEMMA InitInv == Init => TypeOK /\ SpendInv
<1> SUFFICES ASSUME Init PROVE TypeOK /\ SpendInv
  OBVIOUS
<1> USE RuntimeAssumption DEF Init
<1>1. TypeOK
  <2>1. status \in RunStatus /\ pc \in [Resumer -> PC]
    BY DEF RunStatus, PC
  <2>2. /\ stepStatus \in [StepId -> StepStatus] /\ attempts \in [StepId -> Nat]
        /\ call \in [CallId -> CallStatus] /\ approval \in [CallId -> ApprovalStatus]
        /\ executed \in [CallId -> Nat]
    BY DEF StepStatus, CallStatus, ApprovalStatus
  <2>3. loc \in [Resumer -> Local]
    BY LocalTypes
  <2>4. /\ planVersion \in 0 .. MaxPlans /\ stepsUsed \in 0 .. MaxSteps
        /\ callsUsed \in 0 .. MaxToolCalls /\ faults \in 0 .. MaxFaults
    OBVIOUS
  <2>5. /\ cancelRequested \in BOOLEAN /\ deadlinePassed \in BOOLEAN /\ leaseLive \in BOOLEAN
        /\ lease \in Resumer \cup {None, Orphan}
        /\ lapsed \subseteq CallId /\ observed \subseteq StepId
        /\ done \subseteq StepId /\ failed \subseteq StepId /\ overlap \in {"never", "past", "now"}
    OBVIOUS
  <2> HIDE DEF Init
  <2> QED BY <2>1, <2>2, <2>3, <2>4, <2>5 DEF TypeOK
<1>2. ExternalAsked /\ AttemptedOnce
  BY DEF ExternalAsked, AttemptedOnce
<1>3. \A r \in Resumer : InHand(r) /\ ~Spending(r)
  BY Memories DEF InHand, Spending, HasStep, HasCall, Planning
<1> QED BY <1>1, <1>2, <1>3 DEF SpendInv, HandsFull, SpendingIsFresh, SpendersDiffer

\* The inductive invariant.
LEMMA Invariance == Spec => [](TypeOK /\ SpendInv)
<1>1. Init => TypeOK /\ SpendInv
  BY InitInv
<1>2. TypeOK /\ SpendInv /\ [Next]_vars => (TypeOK /\ SpendInv)'
  BY TypeStep, SpendStep
<1> QED BY <1>1, <1>2, PTL DEF Spec

\* Every column keeps its domain; the steps and calls charged never exceed the
\* budget (agent_runs' CHECKs), however many requests overlap.
THEOREM TypeCorrect == Spec => []TypeOK
  BY Invariance, PTL

\* An external tool call is attempted at most once, and only under its own
\* consumed approval, whatever requests crash, outlive their lease or overlap.
THEOREM ApprovalSafety == Spec => []ApprovalSpentOnce
<1>1. TypeOK /\ SpendInv => ApprovalSpentOnce
  BY DEF SpendInv, AttemptedOnce, ApprovalSpentOnce
<1> QED BY <1>1, Invariance, PTL

-----------------------------------------------------------------------------
\* Refinement.  What each change of one row of approval or executed does to the
\* ledger's view of it.
LEMMA Views ==
  ASSUME TypeOK, NEW c \in CallId, ToolOf(c[1]) = "external", NEW v
  PROVE  /\ c \in ExternalCall /\ Entry[c] = approval[c] /\ Sent[c] = executed[c]
         /\ approval' = [approval EXCEPT ![c] = v] => Entry' = [Entry EXCEPT ![c] = v]
         /\ executed' = [executed EXCEPT ![c] = v] => Sent' = [Sent EXCEPT ![c] = v]
<1>1. c \in ExternalCall /\ ExternalCall \subseteq CallId
  BY DEF ExternalCall
<1>2. approval' = [approval EXCEPT ![c] = v] => Entry' = [Entry EXCEPT ![c] = v]
  BY <1>1 DEF Entry, TypeOK
<1>3. executed' = [executed EXCEPT ![c] = v] => Sent' = [Sent EXCEPT ![c] = v]
  BY <1>1 DEF Sent, TypeOK
<1> QED BY <1>1, <1>2, <1>3 DEF Entry, Sent

\* Rows left alone look the same to the ledger.
LEMMA ViewsKept ==
  /\ approval' = approval => Entry' = Entry
  /\ executed' = executed => Sent' = Sent
  BY DEF Entry, Sent

\* Every step is a step of the ledger or leaves it alone.
LEMMA LedgerStep ==
  ASSUME TypeOK, SpendInv, [Next]_vars
  PROVE  [Ledger!Next]_<<Entry, Sent>>
<1> USE RuntimeAssumption DEF NoEnv, runVars, envVars, rowVars
<1>1. ASSUME UNCHANGED <<approval, executed>> PROVE UNCHANGED <<Entry, Sent>>
  BY <1>1, ViewsKept
<1>2. ASSUME NEW r \in Resumer, TakeApproved(r) PROVE Ledger!Next
  <2>1. PICK c \in Takeable : approval' = [Swept EXCEPT ![c] = "consumed"]
    BY <1>2 DEF TakeApproved
  <2>2. c \in CallId /\ approval[c] = "approved" /\ c \notin Overdue
    BY DEF Takeable, Overdue
  <2>3. c \in ExternalCall /\ Overdue \subseteq ExternalCall
    BY <2>2 DEF SpendInv, ExternalAsked, Overdue, ExternalCall, TypeOK
  <2>4. Ledger!Sweep(Overdue, {c})
    <3>1. Sent' = Sent
      BY <1>2, ViewsKept DEF TakeApproved
    <3>2. Entry' = [d \in ExternalCall |-> IF d \in Overdue THEN "expired"
                                           ELSE IF d \in {c} THEN "consumed" ELSE Entry[d]]
      BY <2>1, <2>2, <2>3 DEF Entry, Swept, ExternalCall
    <3>3. /\ \A d \in Overdue : Entry[d] \in {"pending", "approved"}
          /\ Entry[c] = "approved"
      BY <2>2, <2>3 DEF Entry, Overdue
    <3> QED BY <2>2, <3>1, <3>2, <3>3 DEF Ledger!Sweep
  <2> QED BY <2>3, <2>4 DEF Ledger!Next
<1>3. ASSUME NEW r \in Resumer, NothingApproved(r) PROVE Ledger!Next
  <2>1. Overdue \subseteq ExternalCall
    BY DEF SpendInv, ExternalAsked, Overdue, ExternalCall, TypeOK
  <2>2. Ledger!Sweep(Overdue, {})
    <3>1. Sent' = Sent
      BY <1>3, ViewsKept DEF NothingApproved
    <3>2. Entry' = [d \in ExternalCall |-> IF d \in Overdue THEN "expired"
                                           ELSE IF d \in {} THEN "consumed" ELSE Entry[d]]
      BY <1>3 DEF NothingApproved, Entry, Swept, ExternalCall
    <3>3. \A d \in Overdue : Entry[d] \in {"pending", "approved"}
      BY <2>1 DEF Entry, Overdue
    <3> QED BY <3>1, <3>2, <3>3 DEF Ledger!Sweep
  <2> QED BY <2>1, <2>2 DEF Ledger!Next
<1>4. ASSUME NEW r \in Resumer, RequestApproval(r) PROVE Ledger!Next \/ UNCHANGED <<Entry, Sent>>
  <2>1. loc[r].call \in CallId /\ ToolOf(loc[r].call[1]) = "external"
    BY <1>4, LocalFacts DEF RequestApproval, SpendInv, HandsFull, InHand, HasCall
  <2>2. CASE approval[loc[r].call] = "none"
    <3>1. approval' = [approval EXCEPT ![loc[r].call] = "pending"] /\ executed' = executed
      BY <1>4, <2>2 DEF RequestApproval
    <3>2. Ledger!Ask(loc[r].call) /\ loc[r].call \in ExternalCall
      BY <2>1, <2>2, <3>1, Views, ViewsKept DEF Ledger!Ask
    <3> QED BY <3>2 DEF Ledger!Next
  <2>3. CASE approval[loc[r].call] # "none"
    BY <1>1, <1>4, <2>3 DEF RequestApproval
  <2> QED BY <2>2, <2>3
<1>5. ASSUME NEW r \in Resumer, ExecuteTool(r) PROVE Ledger!Next \/ UNCHANGED <<Entry, Sent>>
  <2> DEFINE c == loc[r].call
  <2>1. /\ pc[r] = "execute" /\ approval' = approval
        /\ executed' = [executed EXCEPT ![c] = @ + 1]
    BY <1>5 DEF ExecuteTool
  <2>2. c \in CallId /\ c[1] = loc[r].step
    BY <2>1 DEF SpendInv, HandsFull, InHand, HasCall
  <2>3. CASE ToolOf(c[1]) = "external"
    <3>1. Spending(r)
      BY <2>1, <2>2, <2>3 DEF SpendInv, HandsFull, InHand, Spending
    <3>2. approval[c] = "consumed" /\ executed[c] = 0
      BY <3>1 DEF SpendInv, SpendingIsFresh
    <3>3. executed' = [executed EXCEPT ![c] = 1]
      BY <2>1, <2>2, <3>2 DEF TypeOK
    <3> HIDE DEF c
    <3>4. Ledger!Attempt(c) /\ c \in ExternalCall
      BY <2>1, <2>2, <2>3, <3>2, <3>3, Views, ViewsKept DEF Ledger!Attempt
    <3> QED BY <3>4 DEF Ledger!Next
  <2>4. CASE ToolOf(c[1]) # "external"
    <3> HIDE DEF c
    <3>1. c \notin ExternalCall
      BY <2>4 DEF ExternalCall
    <3>2. Sent' = Sent
      BY <2>1, <2>2, <3>1 DEF Sent, ExternalCall, TypeOK
    <3> QED BY <2>1, <3>2, ViewsKept
  <2> QED BY <2>3, <2>4
<1>6. ASSUME NEW c \in CallId, Approve(c) \/ Reject(c) PROVE Ledger!Next
  <2>1. approval[c] = "pending" /\ UNCHANGED executed
    BY <1>6 DEF Approve, Reject, Undecided
  <2>2. PICK v \in {"approved", "rejected", "expired"} : approval' = [approval EXCEPT ![c] = v]
    BY <1>6 DEF Approve, Reject
  <2>3. ToolOf(c[1]) = "external"
    BY <2>1 DEF SpendInv, ExternalAsked
  <2>4. Ledger!Decide(c, v) /\ c \in ExternalCall
    BY <2>1, <2>2, <2>3, Views, ViewsKept DEF Ledger!Decide
  <2> QED BY <2>4 DEF Ledger!Next
<1>7. ASSUME NEW r \in Resumer,
             \/ Claim(r) \/ Release(r) \/ Recover(r) \/ Snapshot(r) \/ Yield(r)
             \/ SetRunStatus(r) \/ SetPlanning(r) \/ SavePlan(r) \/ RecheckPolicy(r)
             \/ StartStep(r) \/ CreateToolCall(r) \/ ChargeWorker(r) \/ CompleteToolCall(r)
             \/ DeferStep(r) \/ CompleteStep(r) \/ AppendObservation(r) \/ FailToolCall(r)
             \/ RetryStep(r) \/ FailStep(r) \/ Crash(r) \/ StoreFails(r)
      PROVE  UNCHANGED <<approval, executed>>
  BY <1>7 DEF Claim, Release, Recover, Snapshot, Yield, SetRunStatus, SetPlanning, SavePlan,
       RecheckPolicy, StartStep, CreateToolCall, ChargeWorker, CompleteToolCall, DeferStep,
       CompleteStep, AppendObservation, FailToolCall, RetryStep, FailStep, Crash, StoreFails
<1>8. ASSUME \/ LeaseExpires \/ DeadlinePasses \/ RequestCancellation \/ UNCHANGED vars
             \/ \E c \in CallId : ApprovalLapses(c)
      PROVE  UNCHANGED <<approval, executed>>
  BY <1>8 DEF LeaseExpires, DeadlinePasses, RequestCancellation, ApprovalLapses, vars
<1> QED
  BY <1>1, <1>2, <1>3, <1>4, <1>5, <1>6, <1>7, <1>8 DEF Next, Work, User

\* The runtime implements the approval ledger: every transaction of every
\* request, and every fault, is a step of the ledger or leaves it alone.
THEOREM RefinesLedger == Spec => ImplementsLedger
<1>1. Init => Ledger!Init
  BY DEF Init, Ledger!Init, Entry, Sent, ExternalCall
<1>2. TypeOK /\ SpendInv /\ [Next]_vars => [Ledger!Next]_<<Entry, Sent>>
  BY LedgerStep
<1> QED BY <1>1, <1>2, Invariance, PTL DEF Spec, ImplementsLedger, Ledger!Spec
=============================================================================
