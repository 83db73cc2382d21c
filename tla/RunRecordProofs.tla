--------------------------- MODULE RunRecordProofs ---------------------------
(***************************************************************************)
(* What the records of a run mean, for any plans, budgets, number of       *)
(* requests, crashes and failed transactions.                              *)
(*                                                                         *)
(* Nothing is assumed of leases, crashes or how many requests overlap.     *)
(* First, every executor invocation was paid for.  Then AlwaysInv says     *)
(* what requests that overlap cannot spoil: rows, approvals and steps in   *)
(* hand belong to saved plans, successes, failures and conclusions were    *)
(* earned, and only a spent approval settles an external call.  AloneInv   *)
(* says when one request works at a time: unless one was let in beside     *)
(* another, and again once the last of those has left.  And until requests *)
(* overlap at all, KeptInv says what the one at work may rely on, and      *)
(* LoopInv what every plan was made for.                                   *)
(***************************************************************************)
EXTENDS AgentRuntimeProofs, FiniteSetTheorems

-----------------------------------------------------------------------------
\* A step is a request's, or the user's or the clock's.
Moving(r) == Claim(r) \/ Work(r) \/ ChargeWorker(r) \/ Crash(r) \/ StoreFails(r)
Outside == \/ RequestCancellation \/ LeaseExpires \/ DeadlinePasses
           \/ \E c \in CallId : Approve(c) \/ Reject(c) \/ ApprovalLapses(c)

\* Every step has one of them for its actor; the outside ones touch no request.
LEMMA Movers ==
  /\ [Next]_vars => (\E r \in Resumer : Moving(r)) \/ Outside \/ UNCHANGED vars
  /\ Outside => UNCHANGED <<pc, loc, planVersion, callsUsed, attempts, executed, done, failed, overlap, lease>>
<1>1. [Next]_vars => (\E r \in Resumer : Moving(r)) \/ Outside \/ UNCHANGED vars
  BY DEF Next, User, Moving, Outside
<1>2. Outside => UNCHANGED <<pc, loc, planVersion, callsUsed, attempts, executed, done, failed, overlap, lease>>
  BY DEF Outside, RequestCancellation, LeaseExpires, DeadlinePasses, Approve, Reject,
         ApprovalLapses, runVars, rowVars, history
<1> QED BY <1>1, <1>2

\* A request that moves leaves the others where they are.
LEMMA OthersStay ==
  ASSUME TypeOK, NEW r \in Resumer, Moving(r)
  PROVE  \A q \in Resumer \ {r} : pc'[q] = pc[q] /\ loc'[q] = loc[q]
  BY DEF Moving, Work, Claim, Release, Recover, Snapshot, Yield, SetRunStatus, SetPlanning,
         SavePlan, TakeApproved, NothingApproved, RecheckPolicy, StartStep, CreateToolCall,
         RequestApproval, ExecuteTool, ChargeWorker, CompleteToolCall, DeferStep, CompleteStep,
         AppendObservation, FailToolCall, RetryStep, FailStep, Crash, StoreFails,
         Goto, Remember, Finish, TypeOK
-----------------------------------------------------------------------------
\* Every invocation was paid for.  A charge is made when a call is recorded; an
\* approved call is executed later, by another request, and charged no more.
\* So the charges also cover the approvals that may still be spent, and the
\* requests that have recorded a call and are about to use it.
Owed       == {c \in ExternalCall : approval[c] # "none" /\ executed[c] = 0}
AboutTo(r) == pc[r] = "requestApproval" \/ (pc[r] = "execute" /\ loc[r].kind # "approved")
Going      == {r \in Resumer : AboutTo(r)}

ChargedInv ==
  /\ IsFiniteSet(Executions) /\ IsFiniteSet(Owed) /\ IsFiniteSet(Going)
  /\ Cardinality(Executions) + Cardinality(Owed) + Cardinality(Going) <= callsUsed

\* One more invocation of a call is one more member of Executions.
LEMMA OneMoreExecution ==
  ASSUME TypeOK, NEW c \in CallId, executed' = [executed EXCEPT ![c] = @ + 1]
  PROVE  /\ Executions' = Executions \cup {<<c, executed[c] + 1>>}
         /\ <<c, executed[c] + 1>> \notin Executions
<1>1. executed[c] \in Nat /\ executed'[c] = executed[c] + 1
      /\ \A d \in CallId \ {c} : executed'[d] = executed[d]
  BY DEF TypeOK
<1>2. 1 .. executed'[c] = (1 .. executed[c]) \cup {executed[c] + 1}
  BY <1>1
<1>3. ASSUME NEW e \in Executions' PROVE e \in Executions \cup {<<c, executed[c] + 1>>}
  <2>1. PICK d \in CallId : e \in {d} \X (1 .. executed'[d])
    BY <1>3 DEF Executions
  <2>2. CASE d = c
    <3>1. PICK k \in 1 .. executed'[c] : e = <<c, k>>
      BY <2>1, <2>2
    <3>2. k \in 1 .. executed[c] \/ k = executed[c] + 1
      BY <1>2
    <3> QED BY <3>1, <3>2 DEF Executions
  <2>3. CASE d # c
    BY <1>1, <2>1, <2>3 DEF Executions
  <2> QED BY <2>2, <2>3
<1>4. ASSUME NEW e \in Executions PROVE e \in Executions'
  <2>1. PICK d \in CallId : e \in {d} \X (1 .. executed[d])
    BY <1>4 DEF Executions
  <2>2. 1 .. executed[d] \subseteq 1 .. executed'[d]
    BY <1>1, <1>2
  <2>3. e \in {d} \X (1 .. executed'[d])
    BY <2>1, <2>2
  <2> QED BY <2>3 DEF Executions
<1>5. <<c, executed[c] + 1>> \in Executions'
  <2>1. <<c, executed[c] + 1>> \in {c} \X (1 .. executed'[c])
    BY <1>1
  <2> QED BY <2>1 DEF Executions
<1>6. <<c, executed[c] + 1>> \notin Executions
  <2>1. ASSUME NEW d \in CallId, <<c, executed[c] + 1>> \in {d} \X (1 .. executed[d])
        PROVE  FALSE
    <3>1. c = d /\ executed[c] + 1 \in 1 .. executed[d]
      BY <2>1
    <3> QED BY <1>1, <3>1
  <2> QED BY <2>1 DEF Executions
<1> QED BY <1>3, <1>4, <1>5, <1>6

\* Counting a finite set that loses or gains a member.
LEMMA Fewer ==
  ASSUME NEW S, NEW T, IsFiniteSet(S), T \subseteq S
  PROVE  /\ IsFiniteSet(T) /\ Cardinality(T) \in Nat /\ Cardinality(T) <= Cardinality(S)
         /\ \A x \in S : T \subseteq S \ {x} => Cardinality(T) <= Cardinality(S) - 1
<1>1. IsFiniteSet(T) /\ Cardinality(T) \in Nat /\ Cardinality(T) <= Cardinality(S)
  BY FS_Subset, FS_CardinalityType
<1>2. ASSUME NEW x \in S, T \subseteq S \ {x} PROVE Cardinality(T) <= Cardinality(S) - 1
  <2>1. IsFiniteSet(S \ {x}) /\ Cardinality(S \ {x}) = Cardinality(S) - 1
    BY FS_RemoveElement
  <2> QED BY <1>2, <2>1, FS_Subset
<1> QED BY <1>1, <1>2

\* ... and one that gains at most one.
LEMMA OneMore ==
  ASSUME NEW S, NEW T, IsFiniteSet(S), NEW x, T \subseteq S \cup {x}
  PROVE  IsFiniteSet(T) /\ Cardinality(T) \in Nat /\ Cardinality(T) <= Cardinality(S) + 1
<1>1. Cardinality(S) \in Nat
  BY FS_CardinalityType
<1>2. CASE x \in S
  <2>1. T \subseteq S
    BY <1>2
  <2> QED BY <1>1, <2>1, Fewer
<1>3. CASE x \notin S
  <2>1. IsFiniteSet(S \cup {x}) /\ Cardinality(S \cup {x}) = Cardinality(S) + 1
    BY <1>3, FS_AddElement
  <2> QED BY <1>1, <2>1, Fewer
<1> QED BY <1>2, <1>3

\* Before a step, the balance and its parts are numbers.
LEMMA Parts ==
  ASSUME TypeOK, ChargedInv
  PROVE  /\ Cardinality(Executions) \in Nat /\ Cardinality(Owed) \in Nat
         /\ Cardinality(Going) \in Nat /\ callsUsed \in Nat
  BY FS_CardinalityType, RuntimeAssumption DEF ChargedInv, TypeOK

\* The balance holds when nothing is added, ...
LEMMA NothingAdded ==
  ASSUME TypeOK, ChargedInv, Executions' = Executions, Owed' \subseteq Owed,
         Going' \subseteq Going, callsUsed' \in {callsUsed, callsUsed + 1}
  PROVE  ChargedInv'
<1>0. IsFiniteSet(Executions) /\ IsFiniteSet(Owed) /\ IsFiniteSet(Going)
  BY DEF ChargedInv
<1>1. /\ IsFiniteSet(Owed') /\ Cardinality(Owed') <= Cardinality(Owed)
      /\ IsFiniteSet(Going') /\ Cardinality(Going') <= Cardinality(Going)
      /\ Cardinality(Owed') \in Nat /\ Cardinality(Going') \in Nat
  BY <1>0, Fewer
<1> QED BY <1>1, Parts DEF ChargedInv

\* ... when a request records a call, ...
LEMMA OneCharged ==
  ASSUME TypeOK, ChargedInv, Executions' = Executions, Owed' = Owed, NEW r,
         Going' \subseteq Going \cup {r}, callsUsed' = callsUsed + 1
  PROVE  ChargedInv'
<1>0. IsFiniteSet(Executions) /\ IsFiniteSet(Owed) /\ IsFiniteSet(Going)
  BY DEF ChargedInv
<1>1. /\ IsFiniteSet(Going') /\ Cardinality(Going') <= Cardinality(Going) + 1
      /\ Cardinality(Going') \in Nat
  <2>1. Going' \subseteq Going \cup {r}
    OBVIOUS
  <2> QED BY ONLY <1>0, <2>1, OneMore
<1> QED BY <1>1, Parts DEF ChargedInv

\* ... when a request asks, ...
LEMMA OneAsked ==
  ASSUME TypeOK, ChargedInv, Executions' = Executions, NEW c, Owed' \subseteq Owed \cup {c},
         NEW r \in Going, Going' \subseteq Going \ {r}, callsUsed' = callsUsed
  PROVE  ChargedInv'
<1>0. IsFiniteSet(Executions) /\ IsFiniteSet(Owed) /\ IsFiniteSet(Going)
  BY DEF ChargedInv
<1>1. /\ IsFiniteSet(Owed') /\ Cardinality(Owed') <= Cardinality(Owed) + 1
      /\ Cardinality(Owed') \in Nat
  <2>1. Owed' \subseteq Owed \cup {c}
    OBVIOUS
  <2> QED BY ONLY <1>0, <2>1, OneMore
<1>2. /\ IsFiniteSet(Going') /\ Cardinality(Going') <= Cardinality(Going) - 1
      /\ Cardinality(Going') \in Nat
  <2>1. r \in Going /\ Going' \subseteq Going \ {r} /\ Going' \subseteq Going
    OBVIOUS
  <2> QED BY ONLY <1>0, <2>1, Fewer
<1> QED BY <1>1, <1>2, Parts DEF ChargedInv

\* ... and when a call is executed for which an approval or a request stood.
LEMMA OneExecuted ==
  ASSUME TypeOK, ChargedInv, NEW e, Executions' = Executions \cup {e}, callsUsed' = callsUsed,
         \/ \E c \in Owed : Owed' \subseteq Owed \ {c} /\ Going' \subseteq Going
         \/ \E r \in Going : Owed' \subseteq Owed /\ Going' \subseteq Going \ {r}
  PROVE  ChargedInv'
<1>0. IsFiniteSet(Executions) /\ IsFiniteSet(Owed) /\ IsFiniteSet(Going)
  BY DEF ChargedInv
<1>1. /\ IsFiniteSet(Executions') /\ Cardinality(Executions') <= Cardinality(Executions) + 1
      /\ Cardinality(Executions') \in Nat
  <2>1. Executions' \subseteq Executions \cup {e}
    OBVIOUS
  <2> QED BY ONLY <1>0, <2>1, OneMore
<1>2. /\ IsFiniteSet(Owed') /\ Cardinality(Owed') \in Nat
      /\ IsFiniteSet(Going') /\ Cardinality(Going') \in Nat
      /\ Cardinality(Owed') <= Cardinality(Owed) /\ Cardinality(Going') <= Cardinality(Going)
      /\ \/ Cardinality(Owed') <= Cardinality(Owed) - 1
         \/ Cardinality(Going') <= Cardinality(Going) - 1
  BY <1>0, Fewer
<1> QED BY <1>1, <1>2, Parts DEF ChargedInv

\* Who is about to use a recorded call: only recording one adds a request.
LEMMA GoingMoves ==
  ASSUME TypeOK, SpendInv, [Next]_vars
  PROVE  \/ Going' \subseteq Going
         \/ \E r \in Resumer : CreateToolCall(r) /\ Going' \subseteq Going \cup {r}
                               /\ callsUsed' = callsUsed + 1
<1>1. ASSUME NEW r \in Resumer, Moving(r)
      PROVE  \/ Going' \subseteq Going
             \/ CreateToolCall(r) /\ Going' \subseteq Going \cup {r} /\ callsUsed' = callsUsed + 1
  <2>1. \A q \in Resumer \ {r} : pc'[q] = pc[q] /\ loc'[q] = loc[q]
    BY <1>1, OthersStay
  <2>2. \A q \in Resumer \ {r} : AboutTo(q)' <=> AboutTo(q)
    BY <2>1 DEF AboutTo
  <2>3. CASE CreateToolCall(r)
    <3>1. callsUsed' = callsUsed + 1 \/ pc'[r] = "release"
      BY <2>3 DEF CreateToolCall, ChargeCall, Goto, TypeOK
    <3> QED BY <2>2, <2>3, <3>1 DEF Going, AboutTo
  <2>4. ASSUME ~CreateToolCall(r), AboutTo(r)' PROVE AboutTo(r)
    <3>1. CASE RecheckPolicy(r)
      BY <2>4, <3>1 DEF RecheckPolicy, Goto, TypeOK, AboutTo, SpendInv, HandsFull, InHand
    <3>2. CASE ChargeWorker(r)
      BY <2>4, <3>2 DEF ChargeWorker, AboutTo
    <3> QED BY <1>1, <2>4, <3>1, <3>2 DEF Moving, Work, Claim, Release, Recover, Snapshot, Yield,
         SetRunStatus, SetPlanning, SavePlan, TakeApproved, NothingApproved, StartStep,
         AfterStart, RequestApproval, ExecuteTool, CompleteToolCall, DeferStep, CompleteStep,
         AppendObservation, FailToolCall, RetryStep, FailStep, Crash, StoreFails, Goto, Finish,
         TypeOK, AboutTo
  <2> QED BY <2>2, <2>3, <2>4 DEF Going
<1>2. ASSUME Outside \/ UNCHANGED vars PROVE Going' \subseteq Going
  BY <1>2, Movers DEF vars, Going, AboutTo
<1> QED BY <1>1, <1>2, Movers

\* Which approvals may still be spent: only a request for one adds one.
LEMMA OwedMoves ==
  ASSUME TypeOK, SpendInv, [Next]_vars, UNCHANGED executed
  PROVE  Owed' \subseteq Owed \/ \E r \in Resumer :
           RequestApproval(r) /\ Owed' \subseteq Owed \cup {loc[r].call}
<1>1. ASSUME NEW r \in Resumer, RequestApproval(r)
      PROVE  Owed' \subseteq Owed \cup {loc[r].call}
  <2>1. \A c \in CallId \ {loc[r].call} : approval'[c] = approval[c]
    BY <1>1 DEF RequestApproval, TypeOK
  <2> QED BY <2>1 DEF Owed, ExternalCall
<1>2. ASSUME \A r \in Resumer : ~RequestApproval(r), NEW c \in CallId, approval[c] = "none"
      PROVE  approval'[c] = "none"
  <2>1. ASSUME NEW r \in Resumer, Moving(r) PROVE approval'[c] = "none"
    <3>1. CASE TakeApproved(r)
      BY <1>2, <3>1 DEF TakeApproved, Swept, Takeable, Overdue
    <3>2. CASE NothingApproved(r)
      BY <1>2, <3>2 DEF NothingApproved, Swept, Overdue
    <3> QED BY <1>2, <2>1, <3>1, <3>2 DEF Moving, Work, Claim, Release, Recover, Snapshot, Yield,
         SetRunStatus, SetPlanning, SavePlan, RecheckPolicy, StartStep, CreateToolCall,
         ExecuteTool, ChargeWorker, CompleteToolCall, DeferStep, CompleteStep,
         AppendObservation, FailToolCall, RetryStep, FailStep, Crash, StoreFails, rowVars
  <2>2. CASE Outside
    BY <1>2, <2>2 DEF Outside, RequestCancellation, LeaseExpires, DeadlinePasses, Approve,
         Reject, ApprovalLapses, Undecided, rowVars, TypeOK
  <2> QED BY <1>2, <2>1, <2>2, Movers DEF vars, rowVars
<1>3. CASE \A r \in Resumer : ~RequestApproval(r)
  BY <1>2, <1>3 DEF Owed, ExternalCall
<1> QED BY <1>1, <1>3

\* Each step keeps the balance.
LEMMA ChargedStep ==
  ASSUME TypeOK, SpendInv, ChargedInv, [Next]_vars
  PROVE  ChargedInv'
<1>1. ASSUME NEW r \in Resumer, ExecuteTool(r) PROVE ChargedInv'
  <2> DEFINE c == loc[r].call
  <2>1. /\ pc[r] = "execute" /\ approval' = approval /\ callsUsed' = callsUsed
        /\ executed' = [executed EXCEPT ![c] = @ + 1]
    BY <1>1 DEF ExecuteTool, rowVars, runVars
  <2>2. c \in CallId /\ c[1] = loc[r].step
    BY <2>1, RuntimeAssumption DEF SpendInv, HandsFull, InHand, HasCall
  <2>3. ~AboutTo(r)' /\ \A q \in Resumer \ {r} : AboutTo(q)' <=> AboutTo(q)
    BY <1>1 DEF ExecuteTool, Goto, Remember, TypeOK, AboutTo
  <2>4. Going' \subseteq Going \ {r}
    BY <2>3 DEF Going
  <2> HIDE DEF c
  <2>5. Executions' = Executions \cup {<<c, executed[c] + 1>>}
    BY <2>1, <2>2, OneMoreExecution
  <2>6. /\ executed[c] \in Nat /\ executed'[c] = executed[c] + 1
        /\ \A d \in CallId \ {c} : executed'[d] = executed[d]
    BY <2>1, <2>2 DEF TypeOK
  <2>7. Owed' \subseteq Owed \ {c}
    BY <2>1, <2>6 DEF Owed, ExternalCall
  <2>8. CASE loc[r].kind = "approved"
    <3>1. approval[c] = "consumed" /\ executed[c] = 0
      BY <2>1, <2>8 DEF SpendInv, SpendingIsFresh, Spending, c
    <3>2. c \in Owed
      BY <2>2, <3>1 DEF Owed, ExternalCall, SpendInv, ExternalAsked
    <3> QED BY <2>1, <2>4, <2>5, <2>7, <3>2, OneExecuted
  <2>9. CASE loc[r].kind # "approved"
    <3>1. r \in Going
      BY <2>1, <2>9 DEF Going, AboutTo
    <3> QED BY <2>1, <2>4, <2>5, <2>7, <3>1, OneExecuted
  <2> QED BY <2>8, <2>9
<1>2. ASSUME \A r \in Resumer : ~ExecuteTool(r)
      PROVE  UNCHANGED executed /\ callsUsed' \in {callsUsed, callsUsed + 1}
  <2>1. ASSUME NEW r \in Resumer, Moving(r)
        PROVE  UNCHANGED executed /\ callsUsed' \in {callsUsed, callsUsed + 1}
    BY <1>2, <2>1 DEF Moving, Work, Claim, Release, Recover, Snapshot, Yield, SetRunStatus,
         SetPlanning, SavePlan, TakeApproved, NothingApproved, RecheckPolicy, StartStep,
         CreateToolCall, ChargeCall, RequestApproval, ChargeWorker, CompleteToolCall,
         DeferStep, CompleteStep, AppendObservation, FailToolCall, RetryStep, FailStep, Crash,
         StoreFails, runVars, history
  <2> QED BY <2>1, Movers DEF vars, runVars, history
<1>3. CASE UNCHANGED executed /\ callsUsed' \in {callsUsed, callsUsed + 1}
  <2>1. Executions' = Executions
    BY <1>3 DEF Executions
  <2>2. ASSUME NEW r \in Resumer, CreateToolCall(r), Going' \subseteq Going \cup {r},
               callsUsed' = callsUsed + 1
        PROVE  ChargedInv'
    <3>1. Owed' = Owed
      BY <1>3, <2>2 DEF CreateToolCall, Owed
    <3> QED BY <2>1, <2>2, <3>1, OneCharged
  <2>3. ASSUME NEW r \in Resumer, RequestApproval(r), Owed' \subseteq Owed \cup {loc[r].call}
        PROVE  ChargedInv'
    <3>1. r \in Going /\ callsUsed' = callsUsed
      BY <2>3 DEF RequestApproval, Going, AboutTo, runVars
    <3>2. ~AboutTo(r)' /\ \A q \in Resumer \ {r} : AboutTo(q)' <=> AboutTo(q)
      BY <2>3 DEF RequestApproval, Finish, Goto, Remember, TypeOK, AboutTo
    <3>3. Going' \subseteq Going \ {r}
      BY <3>2 DEF Going
    <3> QED BY <2>1, <2>3, <3>1, <3>3, OneAsked
  <2> QED BY <1>3, <2>1, <2>2, <2>3, GoingMoves, OwedMoves, NothingAdded
<1> QED BY <1>1, <1>2, <1>3

\* Every executor invocation was charged to the run's tool-call budget before,
\* though requests may overlap, share a call, crash, or spend an approval
\* another request asked for.
THEOREM ExecutionsPaid == Spec => []ExecutionsCharged
<1>1. Init => ChargedInv
  <2> SUFFICES ASSUME Init PROVE ChargedInv
    OBVIOUS
  <2>1. Executions = {} /\ Owed = {} /\ Going = {}
    BY DEF Init, Executions, Owed, ExternalCall, Going, AboutTo
  <2> QED BY <2>1, FS_EmptySet DEF ChargedInv, Init
<1>2. TypeOK /\ SpendInv /\ ChargedInv /\ [Next]_vars => ChargedInv'
  BY ChargedStep
<1>3. TypeOK /\ ChargedInv => ExecutionsCharged
  BY Parts DEF ChargedInv, ExecutionsCharged
<1> QED BY <1>1, <1>2, <1>3, Invariance, PTL DEF Spec

-----------------------------------------------------------------------------
\* Whatever overlaps.
Asked(c) == approval[c] \in {"pending", "approved"}
AtWork   == HasStep \ {"start"}

\* The rows, the approvals and what requests work on belong to plans saved.
RowsPlanned ==
  /\ \A s \in StepId : s[1] > planVersion => stepStatus[s] = "absent"
  /\ \A s \in StepId : s[1] = planVersion /\ s[2] \in PlanKeys(planVersion)
                         => stepStatus[s] # "absent"
WorkPlanned ==
  /\ \A r \in Resumer : loc[r].step # None => loc[r].step[1] <= planVersion
  /\ \A c \in CallId : approval[c] # "none" => c[1][1] <= planVersion

\* A success was once recorded as one; so some plan was carried out when a run
\* is, or is about to be, recorded as completed, ...
SuccessDone == \A s \in StepId : stepStatus[s] = "succeeded" => s \in done
Earned == \E v \in 1 .. planVersion : \A k \in PlanKeys(v) : <<v, k>> \in done
ConclusionEarned ==
  /\ \A r \in Resumer : pc[r] \in {"take", "setStatus"} /\ loc[r].verdict = "completed" => Earned
  /\ status = "completed" => Earned

\* ... and the dependencies of a chosen step have been completed.
ChoiceEarned ==
  \A r \in Resumer : pc[r] \in {"take", "start"} /\ loc[r].step # None =>
    StepAt(loc[r].step).deps \subseteq DoneKeys

\* A request tries its planned step until the step's outcome is written; a tool
\* has been called once a call is in hand.
Trying(r) == pc[r] \in HasStep \cup {"take"} /\ loc[r].step # None /\ loc[r].kind = "planned"
Called(r) == \/ pc[r] \in {"execute", "completeCall", "deferStep", "failCall", "retryStep", "failStep"}
             \/ pc[r] \in {"completeStep", "observe"} /\ loc[r].call # None

\* What is called on a plan's behalf, without an approval, is idempotent; so is
\* what is tried again; and only a scan stays pending.
ToolKnown == \A r \in Resumer :
  /\ pc[r] \in Planning => loc[r].call = None
  /\ pc[r] = "createCall" => ToolOf(loc[r].step) \in IdempotentTool \cup {"external"}
  /\ Trying(r) /\ Called(r) => ToolOf(loc[r].step) \in IdempotentTool
  /\ loc[r].pending => loc[r].step # None /\ ToolOf(loc[r].step) = "scan"
  /\ pc[r] \in {"deferStep", "retryStep"} => ToolOf(loc[r].step) \in IdempotentTool

\* A request that settles an external call has spent its approval.
Settling == {"completeCall", "deferStep", "completeStep", "observe", "failCall"}
SettlingSpent == \A r \in Resumer :
  pc[r] \in Settling /\ loc[r].call # None /\ ToolOf(loc[r].step) = "external"
    => approval[loc[r].call] = "consumed"

\* Only external steps wait, and a call the user may decide waits with them.
Reviewed ==
  /\ \A c \in CallId : call[c] = "running" => ToolOf(c[1]) \in IdempotentTool \cup {"external"}
  /\ \A c \in CallId : Asked(c) => call[c] = "waiting_for_approval"
  /\ \A s \in StepId : stepStatus[s] = "waiting" => ToolOf(s) = "external"

\* A replaced plan had a step that failed.
PlansReplaced ==
  /\ \A v \in 1 .. planVersion - 1 : \E s \in failed : s[1] = v
  /\ \A r \in Resumer :
       /\ pc[r] \in {"planning", "savePlan"} => loc[r].version = 0
       /\ Trying(r) => loc[r].step[1] = loc[r].version
       /\ pc[r] = "revise" => loc[r].step \in failed /\ loc[r].step[1] = loc[r].version

AlwaysInv == RowsPlanned /\ WorkPlanned /\ SuccessDone /\ ConclusionEarned /\ ChoiceEarned
             /\ ToolKnown /\ SettlingSpent /\ Reviewed /\ PlansReplaced

\* A request moves, or stays where it is.
LEMMA OnesOwn ==
  ASSUME TypeOK, [Next]_vars, NEW r \in Resumer
  PROVE  Moving(r) \/ (pc'[r] = pc[r] /\ loc'[r] = loc[r])
  BY OthersStay, Movers DEF vars

\* The history and the plans only grow.
LEMMA Recorded ==
  ASSUME TypeOK, [Next]_vars
  PROVE  /\ done \subseteq done' /\ failed \subseteq failed' /\ DoneKeys \subseteq DoneKeys'
         /\ planVersion' \in {planVersion, planVersion + 1}
<1>1. ASSUME NEW r \in Resumer, Moving(r)
      PROVE  done \subseteq done' /\ failed \subseteq failed'
             /\ planVersion' \in {planVersion, planVersion + 1}
  BY <1>1 DEF Moving, Work, Claim, Release, Recover, Snapshot, Yield, SetRunStatus, SetPlanning,
       SavePlan, TakeApproved, NothingApproved, RecheckPolicy, StartStep, CreateToolCall,
       RequestApproval, ExecuteTool, ChargeWorker, CompleteToolCall, DeferStep, CompleteStep,
       AppendObservation, FailToolCall, RetryStep, FailStep, Crash, StoreFails, runVars, history
<1>2. CASE Outside \/ UNCHANGED vars
  BY <1>2, Movers DEF vars, runVars, history, DoneKeys
<1> QED BY <1>1, <1>2, Movers DEF DoneKeys

\* A spent approval stays spent, and only a request asks for one.
LEMMA ApprovalsMove ==
  ASSUME TypeOK, SpendInv, [Next]_vars, NEW c \in CallId
  PROVE  /\ approval[c] = "consumed" => approval'[c] = "consumed"
         /\ approval[c] = "none" /\ approval'[c] # "none"
              => \E r \in Resumer : RequestApproval(r) /\ c = loc[r].call
<1>1. ASSUME NEW r \in Resumer, Moving(r)
      PROVE  /\ approval[c] = "consumed" => approval'[c] = "consumed"
             /\ approval[c] = "none" /\ approval'[c] # "none"
                  => RequestApproval(r) /\ c = loc[r].call
  <2>1. CASE TakeApproved(r)
    BY <2>1 DEF TakeApproved, Swept, Takeable, Overdue
  <2>2. CASE NothingApproved(r)
    BY <2>2 DEF NothingApproved, Swept, Overdue
  <2>3. CASE RequestApproval(r)
    BY <2>3 DEF RequestApproval, TypeOK
  <2> QED BY <1>1, <2>1, <2>2, <2>3 DEF Moving, Work, Claim, Release, Recover, Snapshot, Yield,
       SetRunStatus, SetPlanning, SavePlan, RecheckPolicy, StartStep, CreateToolCall,
       ExecuteTool, ChargeWorker, CompleteToolCall, DeferStep, CompleteStep,
       AppendObservation, FailToolCall, RetryStep, FailStep, Crash, StoreFails, rowVars
<1>2. CASE Outside
  BY <1>2 DEF Outside, RequestCancellation, LeaseExpires, DeadlinePasses, Approve, Reject,
       ApprovalLapses, Undecided, rowVars, TypeOK
<1> QED BY <1>1, <1>2, Movers DEF vars, rowVars

\* What a request remembers of its plan when it notes something else.
LEMMA Fields ==
  /\ \A l \in Local, v \in RunStatus :
       LET m == WithVerdict(l, v)
       IN  m.version = l.version /\ m.pending = l.pending /\ m.repeated = l.repeated /\ m.verdict = v
  /\ \A l \in Local : \A c :
       LET m == WithCall(l, c)
       IN  /\ m.version = l.version /\ m.pending = l.pending /\ m.call = c
           /\ m.repeated = l.repeated /\ m.verdict = l.verdict
           /\ m.step = l.step /\ m.kind = l.kind
  /\ \A l \in Local : LET m == AsDenied(l)
                      IN  m.version = l.version /\ m.pending = l.pending /\ m.verdict = l.verdict
  /\ \A l \in Local : LET m == AsPending(l)
                      IN  /\ m.version = l.version /\ m.verdict = l.verdict
                          /\ m.repeated = l.repeated /\ m.kind = l.kind
  BY DEF WithVerdict, WithCall, AsDenied, AsPending, Local

\* How a request's memory changes when it moves.
Concluded(r) == Snapshot(r) /\ planVersion > 0 /\ pc'[r] = "take"
                /\ loc'[r] = WithVerdict(Blank, Conclusion)
Chosen(r)    == Snapshot(r) /\ planVersion > 0 /\ pc'[r] = "take"
                /\ \E s \in NextSteps : loc'[r] = SnapshotOf(s)
Ended(r)     == pc'[r] = "setStatus"
                /\ \E v \in RunStatus \ {"completed"} : loc'[r] = WithVerdict(loc[r], v)
Taken(r)     == TakeApproved(r) /\ pc'[r] = "recheck"
                /\ \E c \in CallId : approval[c] = "approved" /\ approval'[c] = "consumed"
                                     /\ loc'[r] = Holding(c)
Denied(r)    == StartStep(r) /\ pc'[r] = "failStep" /\ loc'[r] = AsDenied(loc[r])
Recalled(r)  == CreateToolCall(r) /\ pc'[r] \in {"requestApproval", "execute"}
                /\ \E c \in CallId : c[1] = loc[r].step /\ loc'[r] = WithCall(loc[r], c)
Waits(r)     == ExecuteTool(r) /\ pc'[r] = "completeCall" /\ ToolOf(loc[r].step) = "scan"
                /\ loc[r].kind = "planned" /\ loc'[r] = AsPending(loc[r])
LEMMA LocMoves ==
  ASSUME TypeOK, SpendInv, NEW r \in Resumer, Moving(r)
  PROVE  \/ loc'[r] = loc[r] \/ (loc'[r] = Blank /\ pc'[r] \in {"idle", "recover", "planning"})
         \/ Concluded(r) \/ Chosen(r) \/ Ended(r) \/ Taken(r) \/ Denied(r) \/ Recalled(r) \/ Waits(r)
<1>0. loc[r] \in Local
  BY LocalFacts
<1>1. CASE Snapshot(r)
  <2>1. CASE \E v \in {"cancelled", "failed"} : Finish(r, v)
    BY <2>1 DEF Finish, Goto, Remember, TypeOK, Ended, RunStatus
  <2>2. CASE planVersion > 0 /\ Goto(r, "take") /\ Remember(r, WithVerdict(Blank, Conclusion))
    BY <1>1, <2>2 DEF Goto, Remember, TypeOK, Concluded
  <2>3. CASE planVersion > 0 /\ Goto(r, "take") /\ \E s \in NextSteps : Remember(r, SnapshotOf(s))
    BY <1>1, <2>3 DEF Goto, Remember, TypeOK, Chosen
  <2>4. CASE Goto(r, "planning") /\ Remember(r, Blank)
    BY <2>4 DEF Goto, Remember, TypeOK
  <2>5. CASE UNCHANGED loc
    BY <2>5
  <2> QED BY <1>1, <2>1, <2>2, <2>3, <2>4, <2>5 DEF Snapshot
<1>2. CASE TakeApproved(r)
  <2>1. PICK c \in Takeable : approval' = [Swept EXCEPT ![c] = "consumed"] /\ Remember(r, Holding(c))
    BY <1>2 DEF TakeApproved
  <2>2. c \in CallId /\ approval[c] = "approved" /\ approval'[c] = "consumed"
    BY <2>1 DEF Takeable, Swept
  <2>3. loc'[r] = Holding(c) /\ pc'[r] = "recheck"
    BY <1>2, <2>1 DEF TakeApproved, Goto, Remember, TypeOK
  <2> QED BY <1>2, <2>2, <2>3 DEF Taken
<1>3. CASE StartStep(r)
  <2>1. ASSUME NEW label, Goto(r, label),
               IF label = "failStep" THEN Remember(r, AsDenied(loc[r])) ELSE UNCHANGED loc
        PROVE  loc'[r] = loc[r] \/ Denied(r)
    BY <1>3, <2>1 DEF Goto, Remember, TypeOK, Denied
  <2> QED BY <1>3, <2>1 DEF StartStep
<1>4. CASE CreateToolCall(r)
  <2> DEFINE c == <<loc[r].step, loc[r].attempt + 1>>
  <2>1. CASE UNCHANGED loc
    BY <2>1
  <2>2. CASE ~UNCHANGED loc
    <3>1. /\ loc[r].attempt + 1 <= MaxCallAttempts /\ Remember(r, WithCall(loc[r], c))
          /\ Goto(r, IF ToolOf(c[1]) = "external" THEN "requestApproval" ELSE "execute")
      BY <1>4, <2>2 DEF CreateToolCall
    <3>2. loc[r].attempt \in Nat /\ loc[r].step \in StepId
      BY <1>4, LocalFacts DEF CreateToolCall, HasStep
    <3>3. c \in CallId /\ c[1] = loc[r].step
      BY <3>1, <3>2, RuntimeAssumption DEF CallId
    <3> HIDE DEF c
    <3>4. loc'[r] = WithCall(loc[r], c) /\ pc'[r] \in {"requestApproval", "execute"}
      BY <3>1 DEF Goto, Remember, TypeOK
    <3> QED BY <1>4, <3>3, <3>4 DEF Recalled
  <2> QED BY <2>1, <2>2
<1>5. CASE ExecuteTool(r)
  BY <1>5 DEF ExecuteTool, Goto, Remember, TypeOK, Waits
<1>6. CASE RequestApproval(r) \/ FailStep(r)
  <2>1. CASE \E v \in {"waiting_for_approval", "paused", "failed"} : Finish(r, v)
    BY <2>1 DEF Finish, Goto, Remember, TypeOK, Ended, RunStatus
  <2> QED BY <1>6, <2>1 DEF RequestApproval, FailStep
<1> QED BY <1>1, <1>2, <1>3, <1>4, <1>5, <1>6 DEF Moving, Work, Claim, Release, Recover, Yield,
     SetRunStatus, SetPlanning, SavePlan, NothingApproved, RecheckPolicy, ChargeWorker,
     CompleteToolCall, DeferStep, CompleteStep, AppendObservation, FailToolCall, RetryStep,
     Crash, StoreFails, Goto, Remember, TypeOK

\* What one step may do to the row of a step.
Recovered(s) == /\ \E r \in Resumer : Recover(r)
                /\ stepStatus[s] = "running" /\ stepStatus'[s] \in {"waiting", "pending"}
                /\ stepStatus'[s] = "waiting" => s \in Unknown
Planned(s)   == stepStatus'[s] = "pending" /\ planVersion' = planVersion + 1 /\ s[1] = planVersion'
Resolved(s)  == /\ \E c \in CallId : c[1] = s /\ Asked(c) /\ ~Asked(c)'
                /\ stepStatus'[s] \in {"running", "failed"}
                /\ stepStatus'[s] = "failed" => ToolOf(s) = "external"
Begun(s)     == stepStatus[s] = "pending" /\ stepStatus'[s] = "running"
Worked(s)    == \E r \in Resumer :
                  /\ pc[r] \in AtWork /\ loc[r].step = s /\ Moving(r)
                  /\ stepStatus'[s] \in {"waiting", "pending", "succeeded", "failed"}
                  /\ stepStatus'[s] = "waiting" => RequestApproval(r)
                  /\ stepStatus'[s] = "pending" => DeferStep(r) \/ RetryStep(r)
                  /\ stepStatus'[s] = "succeeded" => CompleteStep(r)
                  /\ stepStatus'[s] = "failed" => FailStep(r)

\* Every change of a row is one of them.
LEMMA RowChanges ==
  ASSUME TypeOK, SpendInv, [Next]_vars, NEW s \in StepId, stepStatus'[s] # stepStatus[s]
  PROVE  Recovered(s) \/ Planned(s) \/ Resolved(s) \/ Begun(s) \/ Worked(s)
<1>1. ASSUME NEW r \in Resumer, Moving(r)
      PROVE  Recovered(s) \/ Planned(s) \/ Resolved(s) \/ Begun(s) \/ Worked(s)
  <2>1. CASE Recover(r)
    <3>1. Unknown \subseteq Interrupted
      BY DEF Unknown, InterruptedCalls
    <3>2. stepStatus'[s] = IF s \in Unknown THEN "waiting"
                           ELSE IF s \in Interrupted THEN "pending" ELSE stepStatus[s]
      BY <2>1 DEF Recover
    <3> QED BY <2>1, <3>1, <3>2 DEF Recovered, Interrupted
  <2>2. CASE SavePlan(r)
    BY <2>2 DEF SavePlan, TypeOK, Planned
  <2>3. CASE TakeApproved(r)
    <3>1. PICK c \in Takeable : /\ approval' = [Swept EXCEPT ![c] = "consumed"]
                                /\ SetStep(c[1], "running")
      BY <2>3 DEF TakeApproved
    <3>2. c \in CallId /\ approval[c] = "approved"
      BY DEF Takeable
    <3>3. approval'[c] = "consumed"
      BY <3>1, <3>2 DEF Swept
    <3>4. s = c[1] /\ stepStatus'[s] = "running"
      BY <3>1 DEF SetStep, TypeOK
    <3> QED BY <3>2, <3>3, <3>4 DEF Resolved, Asked
  <2>4. CASE StartStep(r)
    BY <2>4 DEF StartStep, Startable, SetStep, Begun, TypeOK
  <2>5. ASSUME pc[r] \in AtWork, NEW v \in {"waiting", "pending", "succeeded", "failed"},
               SetStep(loc[r].step, v), v = "waiting" => RequestApproval(r),
               v = "pending" => DeferStep(r) \/ RetryStep(r), v = "succeeded" => CompleteStep(r),
               v = "failed" => FailStep(r)
        PROVE  Worked(s)
    <3>1. s = loc[r].step /\ stepStatus'[s] = v
      BY <2>5 DEF SetStep, TypeOK
    <3> QED BY <1>1, <2>5, <3>1 DEF Worked
  <2>6. CASE RequestApproval(r)
    <3>1. loc[r].call[1] = loc[r].step
      BY <2>6, RuntimeAssumption DEF RequestApproval, SpendInv, HandsFull, InHand, HasCall
    <3>2. SetStep(loc[r].step, "waiting")
      BY <2>6, <3>1 DEF RequestApproval
    <3> QED BY <2>5, <2>6, <3>2 DEF RequestApproval, AtWork, HasStep
  <2>7. CASE DeferStep(r) \/ CompleteStep(r) \/ RetryStep(r) \/ FailStep(r)
    BY <2>5, <2>7 DEF DeferStep, CompleteStep, RetryStep, FailStep, AtWork, HasStep
  <2> QED BY <1>1, <2>1, <2>2, <2>3, <2>4, <2>6, <2>7 DEF Moving, Work, Claim, Release, Snapshot,
       Yield, SetRunStatus, SetPlanning, NothingApproved, RecheckPolicy, CreateToolCall,
       ExecuteTool, ChargeWorker, CompleteToolCall, AppendObservation, FailToolCall, Crash,
       StoreFails, rowVars
<1>2. ASSUME Outside PROVE Resolved(s)
  <2>1. PICK c \in CallId : Reject(c)
    BY <1>2 DEF Outside, RequestCancellation, LeaseExpires, DeadlinePasses, Approve,
           ApprovalLapses, rowVars
  <2>2. s = c[1] /\ stepStatus'[s] = "failed" /\ approval[c] = "pending"
    BY <2>1 DEF Reject, Undecided, SetStep, TypeOK
  <2>3. approval'[c] = "rejected"
    BY <2>1 DEF Reject, TypeOK
  <2>4. ToolOf(s) = "external"
    BY <2>2 DEF SpendInv, ExternalAsked
  <2> QED BY <2>2, <2>3, <2>4 DEF Resolved, Asked
<1> QED BY <1>1, <1>2, Movers DEF vars, rowVars

\* The plan version moves only with a plan whose rows are added.
LEMMA VersionMoves ==
  ASSUME TypeOK, [Next]_vars, planVersion' # planVersion
  PROVE  \E r \in Resumer : SavePlan(r) /\ ~StalePlan(r)
<1>1. ASSUME NEW r \in Resumer, Moving(r) PROVE SavePlan(r) /\ ~StalePlan(r)
  BY <1>1 DEF Moving, Work, Claim, Release, Recover, Snapshot, Yield, SetRunStatus, SetPlanning,
       SavePlan, TakeApproved, NothingApproved, RecheckPolicy, StartStep, CreateToolCall,
       RequestApproval, ExecuteTool, ChargeWorker, CompleteToolCall, DeferStep, CompleteStep,
       AppendObservation, FailToolCall, RetryStep, FailStep, Crash, StoreFails, runVars
<1> QED BY <1>1, Movers DEF vars, runVars

\* Each step keeps what the rows say about the plans.
LEMMA RowsStep ==
  ASSUME TypeOK, SpendInv, AlwaysInv, [Next]_vars
  PROVE  RowsPlanned'
<1> USE DEF AlwaysInv
<1>1. CASE planVersion' = planVersion
  <2>1. ASSUME NEW s \in StepId, s[1] > planVersion PROVE stepStatus'[s] = "absent"
    <3>1. stepStatus[s] = "absent" /\ s[1] \in Nat /\ planVersion \in Nat
      BY <2>1, RuntimeAssumption DEF RowsPlanned, StepId, Version, TypeOK
    <3>2. \A c \in CallId : c[1] = s => ~Asked(c)
      BY <2>1, <3>1 DEF WorkPlanned, Asked
    <3>3. \A r \in Resumer : pc[r] \in AtWork => loc[r].step # s
      BY <2>1, <3>1, RuntimeAssumption DEF WorkPlanned
    <3> QED BY <1>1, <3>1, <3>2, <3>3, RowChanges DEF Recovered, Planned, Resolved, Begun, Worked
  <2>2. ASSUME NEW s \in StepId, s[1] = planVersion, s[2] \in PlanKeys(planVersion)
        PROVE  stepStatus'[s] # "absent"
    <3>1. stepStatus[s] # "absent"
      BY <2>2 DEF RowsPlanned
    <3> QED BY <3>1, RowChanges DEF Recovered, Planned, Resolved, Begun, Worked
  <2> QED BY <1>1, <2>1, <2>2 DEF RowsPlanned, PlanKeys, PlanAt
<1>2. CASE planVersion' # planVersion
  <2>1. PICK r \in Resumer : SavePlan(r) /\ ~StalePlan(r)
    BY <1>2, VersionMoves
  <2>2. /\ planVersion' = planVersion + 1
        /\ stepStatus' = [s \in StepId |->
             IF s[1] = planVersion + 1 /\ s[2] \in PlanKeys(planVersion + 1)
             THEN "pending" ELSE stepStatus[s]]
    BY <2>1 DEF SavePlan
  <2>3. ASSUME NEW s \in StepId, s[1] > planVersion' PROVE stepStatus'[s] = "absent"
    <3>1. s[1] > planVersion /\ s[1] # planVersion + 1
      BY <2>2, <2>3 DEF TypeOK, StepId, Version
    <3> QED BY <2>2, <3>1 DEF RowsPlanned
  <2>4. ASSUME NEW s \in StepId, s[1] = planVersion', s[2] \in PlanKeys(planVersion')
        PROVE  stepStatus'[s] # "absent"
    BY <2>2, <2>4
  <2> QED BY <2>3, <2>4 DEF RowsPlanned, PlanKeys, PlanAt
<1> QED BY <1>1, <1>2

\* nextStep's row is the plan's own: the step a request chooses is the one
\* whose dependencies it looked at.
LEMMA ChosenStep ==
  ASSUME TypeOK, planVersion > 0, NEW s \in NextSteps
  PROVE  s \in StepId /\ stepStatus[s] = "pending" /\ StepAt(s).deps \subseteq SucceededKeys
         /\ s[1] = planVersion /\ s[2] \in PlanKeys(planVersion)
<1> DEFINE plan == PlanAt(planVersion)
<1>1. PICK i \in Ready : s = <<planVersion, plan[i].key>>
  BY DEF NextSteps
<1>2. i \in DOMAIN plan /\ DistinctKeys(plan)
  BY RuntimeAssumption DEF Ready, PlanAt
<1>3. \A j \in DOMAIN plan : plan[j].key = s[2] => j = i
  BY <1>1, <1>2 DEF DistinctKeys
<1>4. StepAt(s) = plan[i]
  BY <1>1, <1>2, <1>3 DEF StepAt
<1>5. s \in StepId
  BY NextStepType
<1>6. s[2] \in PlanKeys(planVersion)
  BY <1>1, <1>2 DEF PlanKeys
<1> QED BY <1>1, <1>4, <1>5, <1>6 DEF Ready

\* The step a request holds, after it moves: the one it held, one it chose, or
\* one whose approval was given.
LEMMA StepHeld ==
  ASSUME TypeOK, SpendInv, NEW r \in Resumer, Moving(r), loc'[r].step # None
  PROVE  \/ loc'[r].step = loc[r].step
         \/ Chosen(r) /\ loc'[r].step \in NextSteps /\ loc'[r] = SnapshotOf(loc'[r].step)
         \/ Taken(r) /\ loc'[r].kind = "approved" /\ ~loc'[r].pending
            /\ \E c \in CallId : /\ approval[c] = "approved" /\ approval'[c] = "consumed"
                                 /\ c[1] = loc'[r].step /\ c = loc'[r].call
<1>0. loc[r] \in Local /\ Blank.step = None /\ WithVerdict(Blank, Conclusion).step = None
  BY LocalFacts DEF Blank, WithVerdict
<1>1. CASE Chosen(r)
  <2>1. PICK s \in NextSteps : loc'[r] = SnapshotOf(s)
    BY <1>1 DEF Chosen
  <2>2. loc'[r].step = s
    BY <2>1 DEF SnapshotOf, Blank
  <2> QED BY <1>1, <2>1, <2>2
<1>2. CASE Taken(r)
  <2>1. PICK c \in CallId : approval[c] = "approved" /\ approval'[c] = "consumed" /\ loc'[r] = Holding(c)
    BY <1>2 DEF Taken
  <2>2. loc'[r].step = c[1] /\ loc'[r].call = c /\ loc'[r].kind = "approved" /\ ~loc'[r].pending
    BY <2>1 DEF Holding, Blank
  <2> QED BY <1>2, <2>1, <2>2
<1>3. CASE Ended(r) \/ Denied(r) \/ Recalled(r) \/ Waits(r)
  BY <1>0, <1>3, Memories, Fields DEF Ended, Denied, Recalled, Waits
<1> QED BY <1>0, <1>1, <1>2, <1>3, LocMoves DEF Concluded

\* Each step keeps work within the plans.
LEMMA WorkPlannedStep ==
  ASSUME TypeOK, SpendInv, AlwaysInv, [Next]_vars
  PROVE  WorkPlanned'
<1> USE DEF AlwaysInv
<1>0. planVersion \in Nat /\ planVersion' \in {planVersion, planVersion + 1}
  BY Recorded, RuntimeAssumption DEF TypeOK
<1>1. ASSUME NEW r \in Resumer, loc'[r].step # None PROVE loc'[r].step[1] <= planVersion'
  <2>0. loc'[r].step \in StepId
    <3>1. TypeOK'
      BY TypeStep
    <3> QED BY <1>1, <3>1 DEF TypeOK, Local
  <2>1. loc'[r].step[1] \in Nat
    BY <2>0 DEF StepId, Version
  <2>2. CASE loc'[r].step = loc[r].step
    BY <1>0, <1>1, <2>1, <2>2 DEF WorkPlanned
  <2>3. CASE Chosen(r) /\ loc'[r].step \in NextSteps
    BY <1>0, <2>3, ChosenStep DEF Chosen
  <2>4. ASSUME NEW c \in CallId, approval[c] = "approved", c[1] = loc'[r].step
        PROVE  loc'[r].step[1] <= planVersion'
    BY <1>0, <2>1, <2>4 DEF WorkPlanned
  <2> QED BY <1>1, <2>2, <2>3, <2>4, StepHeld, OnesOwn
<1>2. ASSUME NEW c \in CallId, approval'[c] # "none" PROVE c[1][1] <= planVersion'
  <2>1. c[1][1] \in Nat
    BY DEF CallId, StepId, Version
  <2>2. CASE approval[c] # "none"
    BY <1>0, <2>1, <2>2 DEF WorkPlanned
  <2>3. CASE approval[c] = "none"
    <3>1. PICK r \in Resumer : RequestApproval(r) /\ c = loc[r].call
      BY <1>2, <2>3, ApprovalsMove
    <3>2. c[1] = loc[r].step /\ loc[r].step # None
      BY <3>1, LocalFacts, RuntimeAssumption DEF RequestApproval, SpendInv, HandsFull, InHand, HasStep
    <3> QED BY <1>0, <2>1, <3>2 DEF WorkPlanned
  <2> QED BY <2>2, <2>3
<1> QED BY <1>1, <1>2 DEF WorkPlanned

\* Each step keeps successes recorded.
LEMMA SuccessStep ==
  ASSUME TypeOK, SpendInv, AlwaysInv, [Next]_vars
  PROVE  SuccessDone'
<1> SUFFICES ASSUME NEW s \in StepId, stepStatus'[s] = "succeeded" PROVE s \in done'
  BY DEF SuccessDone
<1>1. CASE stepStatus[s] = "succeeded"
  BY <1>1, Recorded DEF AlwaysInv, SuccessDone
<1>2. CASE stepStatus[s] # "succeeded"
  <2>1. PICK r \in Resumer : CompleteStep(r) /\ loc[r].step = s
    BY <1>2, RowChanges DEF Recovered, Planned, Resolved, Begun, Worked
  <2> QED BY <2>1 DEF CompleteStep
<1> QED BY <1>1, <1>2

\* A plan's keys name rows.
LEMMA PlanRows ==
  ASSUME TypeOK, planVersion > 0, NEW k \in PlanKeys(planVersion)
  PROVE  <<planVersion, k>> \in StepId
<1>1. planVersion \in Version
  BY RuntimeAssumption DEF TypeOK, Version
<1>2. PlanAt(planVersion) \in Seq(PlanStep)
  BY RuntimeAssumption DEF PlanAt
<1>3. PICK i \in DOMAIN PlanAt(planVersion) : k = PlanAt(planVersion)[i].key
  BY DEF PlanKeys
<1>4. PlanAt(planVersion)[i] \in PlanStep
  BY <1>2
<1>5. k \in Key
  BY <1>3, <1>4 DEF PlanStep
<1> QED BY <1>1, <1>5 DEF StepId

\* The current plan is done by its rows.  The loop concludes that a run is
\* completed only then, and a plan done by its rows was once carried out.
Done == planVersion > 0
        /\ \A k \in PlanKeys(planVersion) : stepStatus[<<planVersion, k>>] = "succeeded"
LEMMA ConcludesDone ==
  ASSUME TypeOK, RowsPlanned, planVersion > 0, Conclusion = "completed"
  PROVE  Done
<1>1. ASSUME NEW k \in PlanKeys(planVersion)
      PROVE  stepStatus[<<planVersion, k>>] = "succeeded"
  <2>1. <<planVersion, k>> \in StepId
    BY PlanRows
  <2>2. stepStatus[<<planVersion, k>>] # "absent"
    BY <2>1 DEF RowsPlanned
  <2>3. stepStatus[<<planVersion, k>>] \notin {"pending", "running", "waiting", "failed"}
    BY DEF Conclusion, CurrentStatuses
  <2> QED BY <2>1, <2>2, <2>3 DEF TypeOK, StepStatus
<1> QED BY <1>1 DEF Done
LEMMA DoneEarned ==
  ASSUME TypeOK, SuccessDone, Done
  PROVE  Earned
<1>1. \A k \in PlanKeys(planVersion) : <<planVersion, k>> \in done
  BY PlanRows DEF Done, SuccessDone
<1>2. planVersion \in 1 .. planVersion
  BY RuntimeAssumption DEF TypeOK, Done
<1> QED BY <1>1, <1>2 DEF Earned

\* A run's status changes to the verdict of a request that ends with it, or to
\* an unfinished one.
LEMMA StatusMoves ==
  ASSUME TypeOK, [Next]_vars, status' \in Terminal, status' # status
  PROVE  \E r \in Resumer : SetRunStatus(r)
<1>1. ASSUME NEW r \in Resumer, Moving(r) PROVE SetRunStatus(r)
  BY <1>1 DEF Moving, Work, Claim, Release, Recover, Snapshot, Yield, SetPlanning, SavePlan,
       TakeApproved, NothingApproved, RecheckPolicy, StartStep, CreateToolCall,
       RequestApproval, ExecuteTool, ChargeWorker, CompleteToolCall, DeferStep, CompleteStep,
       AppendObservation, FailToolCall, RetryStep, FailStep, Crash, StoreFails, runVars, Terminal
<1>2. ~Outside
  BY DEF Outside, RequestCancellation, LeaseExpires, DeadlinePasses, Approve, Reject,
       ApprovalLapses, runVars, Terminal
<1> QED BY <1>1, <1>2, Movers DEF vars, runVars

\* A request that has a conclusion has just drawn it, or keeps it.
LEMMA Conclusions ==
  ASSUME TypeOK, SpendInv, NEW r \in Resumer, Moving(r), pc'[r] \in {"take", "setStatus"},
         loc'[r].verdict = "completed"
  PROVE  \/ Concluded(r) /\ Conclusion = "completed"
         \/ NothingApproved(r) /\ loc[r].verdict = "completed" /\ pc[r] = "take"
<1>0. loc[r] \in Local
  BY LocalFacts
<1>1. CASE Concluded(r)
  <2>1. loc'[r].verdict = Conclusion
    BY <1>1 DEF Concluded, WithVerdict, Blank
  <2> QED BY <1>1, <2>1
<1>2. ~Chosen(r)
  BY DEF Chosen, SnapshotOf, Blank
<1>3. ~Ended(r)
  BY <1>0, Fields DEF Ended
<1>4. CASE loc'[r] = loc[r]
  <2>1. CASE NothingApproved(r)
    BY <1>4, <2>1 DEF NothingApproved
  <2>2. CASE Snapshot(r)
    BY <1>2, <1>3, <2>2, <1>1, <1>0 DEF Snapshot, Finish, Goto, Remember, TypeOK, Concluded, Chosen, Ended, RunStatus
  <2>3. CASE RequestApproval(r) \/ FailStep(r)
    BY <1>0, <2>3, Fields DEF RequestApproval, FailStep, Finish, Goto, Remember, TypeOK, RunStatus
  <2> QED BY <1>4, <2>1, <2>2, <2>3 DEF Moving, Work, Claim, Release, Recover, Yield,
       SetRunStatus, SetPlanning, SavePlan, TakeApproved, RecheckPolicy, StartStep,
       CreateToolCall, AfterStart, ExecuteTool, ChargeWorker, CompleteToolCall, DeferStep,
       CompleteStep, AppendObservation, FailToolCall, RetryStep, Crash, StoreFails, Goto, TypeOK
<1> QED BY <1>1, <1>2, <1>3, <1>4, LocMoves DEF Taken, Denied, Recalled, Waits

\* Each step keeps a conclusion earned.
LEMMA ConclusionStep ==
  ASSUME TypeOK, SpendInv, AlwaysInv, [Next]_vars
  PROVE  ConclusionEarned'
<1> USE DEF AlwaysInv
<1>1. Earned => Earned'
  <2>1. 1 .. planVersion \subseteq 1 .. planVersion'
    BY Recorded, RuntimeAssumption DEF TypeOK
  <2> QED BY <2>1, Recorded DEF Earned
<1>2. ASSUME NEW r \in Resumer, pc'[r] \in {"take", "setStatus"}, loc'[r].verdict = "completed"
      PROVE  Earned'
  <2>1. CASE Moving(r)
    <3>1. CASE Concluded(r) /\ Conclusion = "completed"
      BY <1>1, <3>1, ConcludesDone, DoneEarned DEF Concluded
    <3>2. CASE loc[r].verdict = "completed" /\ pc[r] = "take"
      BY <1>1, <3>2 DEF ConclusionEarned
    <3> QED BY <1>2, <2>1, <3>1, <3>2, Conclusions
  <2>2. CASE pc'[r] = pc[r] /\ loc'[r] = loc[r]
    BY <1>1, <1>2, <2>2 DEF ConclusionEarned
  <2> QED BY <2>1, <2>2, OnesOwn
<1>3. ASSUME status' = "completed" PROVE Earned'
  <2>1. CASE status' = status
    BY <1>1, <1>3, <2>1 DEF ConclusionEarned
  <2>2. CASE status' # status
    <3>1. PICK r \in Resumer : SetRunStatus(r)
      BY <1>3, <2>2, StatusMoves DEF Terminal
    <3> QED BY <1>1, <1>3, <3>1 DEF SetRunStatus, ConclusionEarned
  <2> QED BY <2>1, <2>2
<1> QED BY <1>2, <1>3 DEF ConclusionEarned

\* A request that is to begin a step has just chosen it, or keeps it.
LEMMA Choices ==
  ASSUME TypeOK, SpendInv, NEW r \in Resumer, Moving(r), pc'[r] \in {"take", "start"},
         loc'[r].step # None
  PROVE  \/ Chosen(r) /\ loc'[r].step \in NextSteps
         \/ NothingApproved(r) /\ loc[r].step = loc'[r].step /\ pc[r] = "take"
<1>1. CASE Chosen(r)
  <2>1. PICK s \in NextSteps : loc'[r] = SnapshotOf(s)
    BY <1>1 DEF Chosen
  <2>2. loc'[r].step = s
    BY <2>1 DEF SnapshotOf, Blank
  <2> QED BY <1>1, <2>1, <2>2
<1>2. ~Concluded(r)
  BY DEF Concluded, Blank, WithVerdict
<1>3. CASE NothingApproved(r)
  BY <1>3 DEF NothingApproved
<1>4. CASE Snapshot(r)
  <2>1. pc'[r] = "take"
    BY <1>4 DEF Snapshot, Finish, Goto, TypeOK
  <2> QED BY <1>1, <1>2, <1>4, <2>1 DEF Snapshot, Finish, Goto, Remember, TypeOK, Concluded, Chosen
<1> QED BY <1>1, <1>3, <1>4 DEF Moving, Work, Claim, Release, Recover, Yield, SetRunStatus,
     SetPlanning, SavePlan, TakeApproved, RecheckPolicy, StartStep, CreateToolCall, AfterStart,
     RequestApproval, ExecuteTool, ChargeWorker, CompleteToolCall, DeferStep, CompleteStep,
     AppendObservation, FailToolCall, RetryStep, FailStep, Crash, StoreFails, Goto, Finish, TypeOK

\* Each step keeps the dependencies of a chosen step completed.
LEMMA ChoiceEarnedStep ==
  ASSUME TypeOK, SpendInv, AlwaysInv, [Next]_vars
  PROVE  ChoiceEarned'
<1> USE DEF AlwaysInv
<1>1. SucceededKeys \subseteq DoneKeys /\ DoneKeys \subseteq DoneKeys'
  BY Recorded DEF SucceededKeys, DoneKeys, SuccessDone
<1>2. ASSUME NEW r \in Resumer, pc'[r] \in {"take", "start"}, loc'[r].step # None
      PROVE  StepAt(loc'[r].step).deps \subseteq DoneKeys'
  <2>1. CASE Moving(r)
    <3>1. CASE Chosen(r) /\ loc'[r].step \in NextSteps
      BY <1>1, <3>1, ChosenStep DEF Chosen
    <3>2. CASE loc[r].step = loc'[r].step /\ pc[r] = "take"
      BY <1>1, <1>2, <3>2 DEF ChoiceEarned
    <3> QED BY <1>2, <2>1, <3>1, <3>2, Choices
  <2>2. CASE pc'[r] = pc[r] /\ loc'[r] = loc[r]
    BY <1>1, <1>2, <2>2 DEF ChoiceEarned
  <2> QED BY <2>1, <2>2, OnesOwn
<1> QED BY <1>2 DEF ChoiceEarned, StepAt, PlanAt

\* Every tool of a row is a kind of tool.
LEMMA ToolTypes ==
  ASSUME NEW s \in StepId
  PROVE  ToolOf(s) \in Tool
<1> DEFINE plan == PlanAt(s[1])
<1>1. plan \in Seq(PlanStep)
  BY RuntimeAssumption DEF PlanAt
<1>2. ASSUME s[2] \in PlanKeys(s[1]) PROVE StepAt(s).tool \in Tool
  <2>1. \E i \in DOMAIN plan : plan[i].key = s[2]
    BY <1>2 DEF PlanKeys
  <2>2. (CHOOSE i \in DOMAIN plan : plan[i].key = s[2]) \in DOMAIN plan
    BY <2>1
  <2>3. StepAt(s) \in PlanStep
    BY <1>1, <2>2 DEF StepAt
  <2> QED BY <2>3 DEF PlanStep
<1> QED BY <1>2 DEF ToolOf, Tool

\* How a request comes to try a step: it chose it in a snapshot, or it tried
\* it before; and how it comes to have called its tool.
LEMMA TrialMoves ==
  ASSUME TypeOK, SpendInv, ToolKnown, NEW r \in Resumer, Moving(r), Trying(r)'
  PROVE  \/ /\ Snapshot(r) /\ pc'[r] = "take" /\ planVersion > 0
            /\ \E s \in NextSteps : loc'[r] = SnapshotOf(s)
         \/ /\ Trying(r) /\ ~FailStep(r)
            /\ loc'[r].step = loc[r].step /\ loc'[r].repeated = loc[r].repeated
            /\ Called(r)' => \/ Called(r)
                             \/ pc[r] = "createCall" /\ ToolOf(loc[r].step) # "external"
<1>0. loc[r] \in Local
  BY LocalFacts
<1>1. CASE Snapshot(r)
  <2>1. CASE \E s \in NextSteps : Remember(r, SnapshotOf(s)) /\ Goto(r, "take") /\ planVersion > 0
    BY <1>1, <2>1 DEF Remember, Goto, TypeOK
  <2>2. CASE Remember(r, WithVerdict(Blank, Conclusion)) /\ Goto(r, "take")
    <3>1. loc'[r] = WithVerdict(Blank, Conclusion)
      BY <2>2 DEF Remember, TypeOK
    <3>2. loc'[r].step = None
      BY <3>1 DEF WithVerdict, Blank
    <3> QED BY <3>2 DEF Trying
  <2>3. CASE pc'[r] \in {"release", "setStatus", "planning"}
    BY <2>3 DEF Trying, HasStep
  <2> QED BY <1>1, <2>1, <2>2, <2>3 DEF Snapshot, Finish, Goto, TypeOK
<1>2. CASE TakeApproved(r)
  <2>1. PICK c \in Takeable : Remember(r, Holding(c))
    BY <1>2 DEF TakeApproved
  <2>2. loc'[r].kind = "approved"
    BY <2>1, Memories DEF Remember, Takeable, TypeOK
  <2> QED BY <2>2 DEF Trying
<1>3. CASE StartStep(r)
  <2>1. CASE Remember(r, AsDenied(loc[r]))
    <3>1. loc'[r].kind = "denied"
      BY <1>0, <2>1, Memories DEF Remember, TypeOK
    <3> QED BY <3>1 DEF Trying
  <2>2. CASE UNCHANGED loc /\ pc'[r] \in {"createCall", "completeStep", "release"}
    <3>1. loc[r].call = None /\ pc[r] = "start"
      BY <1>3 DEF StartStep, ToolKnown, Planning
    <3> QED BY <1>3, <2>2, <3>1 DEF Trying, Called, HasStep, FailStep
  <2> QED BY <1>3, <2>1, <2>2 DEF StartStep, AfterStart, Goto, TypeOK
<1>4. CASE CreateToolCall(r)
  <2>1. CASE pc'[r] = "release"
    BY <2>1 DEF Trying, HasStep
  <2>2. CASE /\ Remember(r, WithCall(loc[r], <<loc[r].step, loc[r].attempt + 1>>))
             /\ pc'[r] = IF ToolOf(loc[r].step) = "external" THEN "requestApproval" ELSE "execute"
    <3>1. loc'[r] = WithCall(loc[r], <<loc[r].step, loc[r].attempt + 1>>)
      BY <2>2 DEF Remember, TypeOK
    <3>2. loc'[r].step = loc[r].step /\ loc'[r].kind = loc[r].kind /\ loc'[r].repeated = loc[r].repeated
      BY <1>0, <3>1 DEF WithCall, Local
    <3>3. /\ pc[r] = "createCall" /\ pc'[r] \in {"requestApproval", "execute"}
          /\ pc'[r] = "execute" => ToolOf(loc[r].step) # "external"
      BY <1>4, <2>2 DEF CreateToolCall
    <3> QED BY <3>2, <3>3 DEF Trying, Called, HasStep, FailStep
  <2> QED BY <1>4, <2>1, <2>2 DEF CreateToolCall, Goto, TypeOK
<1>5. CASE ExecuteTool(r)
  <2>1. loc'[r] = loc[r] \/ loc'[r] = AsPending(loc[r])
    BY <1>5 DEF ExecuteTool, Remember, TypeOK
  <2>2. loc'[r].step = loc[r].step /\ loc'[r].kind = loc[r].kind /\ loc'[r].repeated = loc[r].repeated
    BY <1>0, <2>1 DEF AsPending, Local
  <2> QED BY <1>5, <2>2 DEF ExecuteTool, Trying, Called, HasStep, FailStep
<1>6. CASE RecheckPolicy(r)
  BY <1>6 DEF RecheckPolicy, Trying, SpendInv, HandsFull, InHand
<1>7. CASE StoreFails(r)
  <2>1. CASE InTry(r) /\ UNCHANGED loc
    BY <2>1 DEF InTry, Trying, Called, HasStep, FailStep
  <2>2. CASE pc'[r] \in {"idle", "release"}
    BY <2>2 DEF Trying, HasStep
  <2> QED BY <1>7, <2>1, <2>2 DEF StoreFails, Goto, TypeOK
<1>8. CASE \/ NothingApproved(r) \/ CompleteToolCall(r) \/ DeferStep(r) \/ CompleteStep(r)
           \/ AppendObservation(r) \/ FailToolCall(r) \/ ChargeWorker(r)
  BY <1>8 DEF NothingApproved, CompleteToolCall, DeferStep, CompleteStep, AppendObservation,
     FailToolCall, ChargeWorker, Goto, TypeOK, Trying, Called, HasStep, FailStep
<1>9. ASSUME \/ Claim(r) \/ Release(r) \/ Recover(r) \/ Yield(r) \/ SetRunStatus(r)
             \/ SetPlanning(r) \/ SavePlan(r) \/ RequestApproval(r) \/ RetryStep(r)
             \/ FailStep(r) \/ Crash(r)
      PROVE  FALSE
  BY <1>9 DEF Claim, Release, Recover, Yield, SetRunStatus, SetPlanning, SavePlan,
     RequestApproval, RetryStep, FailStep, Crash, Goto, Finish, TypeOK, Trying, HasStep
<1> QED BY <1>1, <1>2, <1>3, <1>4, <1>5, <1>6, <1>7, <1>8, <1>9 DEF Moving, Work

\* Each step keeps what is known of the tools being called.
LEMMA ToolStep ==
  ASSUME TypeOK, SpendInv, AlwaysInv, [Next]_vars
  PROVE  ToolKnown'
<1>0. ToolKnown
  BY DEF AlwaysInv
<1>1. ASSUME NEW r \in Resumer, Moving(r), pc'[r] \in Planning PROVE loc'[r].call = None
  <2>1. CASE Snapshot(r)
    <3>1. \/ loc'[r] = WithVerdict(Blank, Conclusion)
          \/ planVersion > 0 /\ \E s \in NextSteps : loc'[r] = SnapshotOf(s)
      BY <1>1, <2>1 DEF Snapshot, Finish, Goto, Remember, TypeOK, Planning
    <3>2. CASE loc'[r] = WithVerdict(Blank, Conclusion)
      BY <3>2 DEF WithVerdict, Blank
    <3>3. ASSUME NEW s, loc'[r] = SnapshotOf(s) PROVE loc'[r].call = None
      BY <3>3 DEF SnapshotOf, Blank
    <3> QED BY <3>1, <3>2, <3>3
  <2>2. CASE NothingApproved(r)
    BY <1>0, <2>2 DEF NothingApproved, ToolKnown, Planning
  <2>3. CASE StartStep(r)
    <3>1. loc'[r] = loc[r] \/ loc'[r] = AsDenied(loc[r])
      BY <2>3 DEF StartStep, Remember, TypeOK
    <3>2. loc'[r].call = loc[r].call
      BY <3>1, LocalFacts DEF AsDenied, Local
    <3> QED BY <1>0, <2>3, <3>2 DEF StartStep, ToolKnown, Planning
  <2> QED BY <1>1, <2>1, <2>2, <2>3 DEF Moving, Work, Claim, Release, Recover, Yield,
       SetRunStatus, SetPlanning, SavePlan, TakeApproved, RecheckPolicy, CreateToolCall,
       RequestApproval, ExecuteTool, ChargeWorker, CompleteToolCall, DeferStep, CompleteStep,
       AppendObservation, FailToolCall, RetryStep, FailStep, Crash, StoreFails, Goto, Finish,
       TypeOK, Planning
<1>2. ASSUME NEW r \in Resumer, Moving(r), pc'[r] = "createCall"
      PROVE  ToolOf(loc'[r].step) \in IdempotentTool \cup {"external"}
  <2>1. StartStep(r)
    BY <1>2 DEF Moving, Work, Claim, Release, Recover, Snapshot, Yield, SetRunStatus,
       SetPlanning, SavePlan, TakeApproved, NothingApproved, RecheckPolicy, CreateToolCall,
       RequestApproval, ExecuteTool, ChargeWorker, CompleteToolCall, DeferStep, CompleteStep,
       AppendObservation, FailToolCall, RetryStep, FailStep, Crash, StoreFails, Goto, Finish,
       TypeOK
  <2>2. "createCall" \in AfterStart(r) /\ loc[r].step \in StepId /\ pc[r] = "start"
    BY <1>2, <2>1, LocalFacts DEF StartStep, Goto, TypeOK, HasStep
  <2>3. ToolOf(loc[r].step) \notin {"none", "unregistered"}
    BY <2>2 DEF AfterStart
  <2>4. loc'[r] = loc[r] \/ loc'[r] = AsDenied(loc[r])
    BY <2>1 DEF StartStep, Remember, TypeOK
  <2>5. loc'[r].step = loc[r].step
    BY <2>4, LocalFacts DEF AsDenied, Local
  <2> QED BY <2>2, <2>3, <2>5, ToolTypes DEF Tool
<1>3. ASSUME NEW r \in Resumer, Moving(r), Trying(r)', Called(r)'
      PROVE  ToolOf(loc'[r].step) \in IdempotentTool
  <2>1. pc'[r] # "take"
    BY <1>3 DEF Called
  <2> QED BY <1>0, <1>3, <2>1, TrialMoves DEF ToolKnown
<1>4. ASSUME NEW r \in Resumer, Moving(r), loc'[r].pending
      PROVE  loc'[r].step # None /\ ToolOf(loc'[r].step) = "scan"
  <2>0. loc[r] \in Local /\ ~Blank.pending /\ ~WithVerdict(Blank, Conclusion).pending
    BY LocalFacts DEF Blank, WithVerdict
  <2>1. CASE Waits(r)
    <3>1. loc[r].step \in StepId
      BY <2>1, LocalFacts DEF Waits, ExecuteTool, HasStep
    <3> QED BY <2>0, <2>1, <3>1, Memories, RuntimeAssumption DEF Waits
  <2>2. CASE Ended(r) \/ Denied(r) \/ Recalled(r)
    BY <1>0, <1>4, <2>0, <2>2, Memories, Fields DEF Ended, Denied, Recalled, ToolKnown
  <2>3. CASE loc'[r] = loc[r]
    BY <1>0, <1>4, <2>3 DEF ToolKnown
  <2>4. ~Chosen(r)
    BY <1>4 DEF Chosen, SnapshotOf, Blank
  <2>5. ~Taken(r)
    BY <1>4 DEF Taken, Holding, Blank
  <2> QED BY <1>4, <2>0, <2>1, <2>2, <2>3, <2>4, <2>5, LocMoves DEF Concluded
<1>5. ASSUME NEW r \in Resumer, Moving(r), pc'[r] \in {"deferStep", "retryStep"}
      PROVE  ToolOf(loc'[r].step) \in IdempotentTool
  <2>1. CASE CompleteToolCall(r)
    BY <1>0, <1>5, <2>1 DEF CompleteToolCall, ToolKnown, IdempotentTool, Goto, TypeOK
  <2>2. CASE ChargeWorker(r)
    BY <1>0, <1>5, <2>2 DEF ChargeWorker, ToolKnown
  <2> QED BY <1>5, <2>1, <2>2 DEF Moving, Work, Claim, Release, Recover, Snapshot, Yield, SetRunStatus,
       SetPlanning, SavePlan, TakeApproved, NothingApproved, RecheckPolicy, StartStep,
       AfterStart, CreateToolCall, RequestApproval, ExecuteTool,
       DeferStep, CompleteStep, AppendObservation, FailToolCall, Retryable, RetryStep,
       FailStep, Crash, StoreFails, Goto, Finish, TypeOK
<1>6. ASSUME NEW r \in Resumer, Moving(r)
      PROVE  /\ pc'[r] \in Planning => loc'[r].call = None
             /\ pc'[r] = "createCall" => ToolOf(loc'[r].step) \in IdempotentTool \cup {"external"}
             /\ Trying(r)' /\ Called(r)' => ToolOf(loc'[r].step) \in IdempotentTool
             /\ loc'[r].pending => loc'[r].step # None /\ ToolOf(loc'[r].step) = "scan"
             /\ pc'[r] \in {"deferStep", "retryStep"} => ToolOf(loc'[r].step) \in IdempotentTool
  BY <1>1, <1>2, <1>3, <1>4, <1>5, <1>6
<1>7. ASSUME NEW r \in Resumer, pc'[r] = pc[r], loc'[r] = loc[r]
      PROVE  /\ pc'[r] \in Planning => loc'[r].call = None
             /\ pc'[r] = "createCall" => ToolOf(loc'[r].step) \in IdempotentTool \cup {"external"}
             /\ Trying(r)' /\ Called(r)' => ToolOf(loc'[r].step) \in IdempotentTool
             /\ loc'[r].pending => loc'[r].step # None /\ ToolOf(loc'[r].step) = "scan"
             /\ pc'[r] \in {"deferStep", "retryStep"} => ToolOf(loc'[r].step) \in IdempotentTool
  BY <1>0, <1>7 DEF ToolKnown, Trying, Called
<1> HIDE DEF Planning, Trying, Called
<1>8. \A r \in Resumer : Moving(r) \/ (pc'[r] = pc[r] /\ loc'[r] = loc[r])
  BY OnesOwn
<1> QED BY <1>6, <1>7, <1>8 DEF ToolKnown, StepAt, ToolOf, PlanAt, PlanKeys

\* Each step keeps the approvals of settled calls spent.
LEMMA SpentStep ==
  ASSUME TypeOK, SpendInv, AlwaysInv, [Next]_vars
  PROVE  SettlingSpent'
<1> USE DEF AlwaysInv
<1>1. ASSUME NEW r \in Resumer, Moving(r), pc'[r] \in Settling, loc'[r].call # None,
             ToolOf(loc'[r].step) = "external"
      PROVE  loc'[r].call \in CallId /\ approval'[loc'[r].call] = "consumed"
  <2>0. loc[r] \in Local
    BY LocalFacts
  <2>1. CASE ExecuteTool(r)
    <3>1. loc'[r].step = loc[r].step /\ loc'[r].call = loc[r].call
      BY <2>0, <2>1, Memories DEF ExecuteTool, Remember, TypeOK
    <3>2. loc[r].kind = "approved"
      BY <1>1, <2>1, <3>1 DEF ExecuteTool, SpendInv, HandsFull, InHand
    <3>3. approval[loc[r].call] = "consumed" /\ loc[r].call \in CallId
      BY <2>1, <3>2, LocalFacts DEF ExecuteTool, SpendInv, SpendingIsFresh, Spending, HasCall
    <3> QED BY <2>1, <3>1, <3>3 DEF ExecuteTool, rowVars
  <2>2. CASE RecheckPolicy(r)
    <3>1. loc'[r] = loc[r] /\ pc[r] = "recheck" /\ approval' = approval
      BY <2>2 DEF RecheckPolicy, rowVars
    <3> QED BY <3>1, LocalFacts DEF SpendInv, SpendingIsFresh, HandsFull, InHand, Spending, HasCall
  <2>3. CASE StartStep(r)
    <3>1. loc[r].call = None /\ (loc'[r] = loc[r] \/ loc'[r] = AsDenied(loc[r]))
      BY <2>3 DEF StartStep, Remember, TypeOK, ToolKnown, Planning
    <3> QED BY <1>1, <2>0, <3>1, Memories
  <2>4. ASSUME pc[r] \in Settling, loc'[r] = loc[r], approval' = approval
        PROVE  loc'[r].call \in CallId /\ approval'[loc'[r].call] = "consumed"
    BY <1>1, <2>0, <2>4 DEF SettlingSpent, Local
  <2> QED BY <1>1, <2>1, <2>2, <2>3, <2>4 DEF Moving, Work, Claim, Release, Recover, Snapshot, Yield,
       SetRunStatus, SetPlanning, SavePlan, TakeApproved, NothingApproved, CreateToolCall,
       RequestApproval, ChargeWorker, CompleteToolCall, DeferStep, CompleteStep,
       AppendObservation, FailToolCall, RetryStep, FailStep, Crash, StoreFails, InTry, Goto,
       Finish, TypeOK, Settling, rowVars
<1>2. ASSUME NEW r \in Resumer, pc'[r] = pc[r], loc'[r] = loc[r], pc'[r] \in Settling,
             loc'[r].call # None, ToolOf(loc'[r].step) = "external"
      PROVE  approval'[loc'[r].call] = "consumed"
  <2>1. approval[loc[r].call] = "consumed" /\ loc[r].call \in CallId
    BY <1>2, LocalFacts DEF SettlingSpent, Local
  <2> QED BY <1>2, <2>1, ApprovalsMove
<1> HIDE DEF Settling
<1>3. \A r \in Resumer : Moving(r) \/ (pc'[r] = pc[r] /\ loc'[r] = loc[r])
  BY OnesOwn
<1> QED BY <1>1, <1>2, <1>3 DEF SettlingSpent, Settling, StepAt, ToolOf, PlanAt, PlanKeys

\* A call is asked about only by the request that requests its approval.
LEMMA AskMoves ==
  ASSUME TypeOK, SpendInv, [Next]_vars, NEW c \in CallId, ~Asked(c), Asked(c)'
  PROVE  \E r \in Resumer :
           /\ RequestApproval(r) /\ approval[loc[r].call] = "none" /\ c = loc[r].call
           /\ approval' = [approval EXCEPT ![c] = "pending"]
<1>1. ASSUME NEW r \in Resumer, Moving(r)
      PROVE  /\ RequestApproval(r) /\ approval[loc[r].call] = "none" /\ c = loc[r].call
             /\ approval' = [approval EXCEPT ![c] = "pending"]
  <2>1. ~TakeApproved(r) /\ ~NothingApproved(r)
    BY DEF TakeApproved, NothingApproved, Swept, Takeable, Asked
  <2>2. CASE RequestApproval(r)
    <3>1. loc[r].call \in CallId
      BY <2>2, LocalFacts DEF RequestApproval, HasCall
    <3> QED BY <2>2, <3>1 DEF RequestApproval, Asked, TypeOK
  <2> QED BY <1>1, <2>1, <2>2 DEF Moving, Work, Claim, Release, Recover, Snapshot, Yield,
       SetRunStatus, SetPlanning, SavePlan, RecheckPolicy, StartStep, CreateToolCall,
       ExecuteTool, ChargeWorker, CompleteToolCall, DeferStep, CompleteStep,
       AppendObservation, FailToolCall, RetryStep, FailStep, Crash, StoreFails, rowVars, Asked
<1>2. ~Outside
  BY DEF Outside, RequestCancellation, LeaseExpires, DeadlinePasses, Approve, Reject,
       ApprovalLapses, rowVars, Undecided, Asked, TypeOK
<1> QED BY <1>1, <1>2, Movers DEF vars, rowVars, Asked

\* A call that still waits for the user is not touched.
LEMMA AskedCallStays ==
  ASSUME TypeOK, SpendInv, AlwaysInv, [Next]_vars, NEW c \in CallId, Asked(c), Asked(c)'
  PROVE  call'[c] = "waiting_for_approval"
<1>1. call[c] = "waiting_for_approval" /\ c[1] \in StepId /\ ToolOf(c[1]) = "external"
  BY DEF AlwaysInv, Reviewed, CallId, SpendInv, ExternalAsked, Asked
<1>2. ASSUME NEW r \in Resumer, Moving(r) PROVE call'[c] = "waiting_for_approval"
  <2>1. CASE Recover(r)
    BY <1>1, <2>1 DEF Recover, InterruptedCalls
  <2>2. CASE TakeApproved(r)
    <3>1. PICK d \in Takeable : /\ approval' = [Swept EXCEPT ![d] = "consumed"]
                                /\ SetCall(d, "running")
      BY <2>2 DEF TakeApproved
    <3>2. d # c
      BY <3>1 DEF Swept, Asked
    <3> QED BY <1>1, <3>1, <3>2 DEF SetCall, TypeOK
  <2>3. CASE CreateToolCall(r)
    BY <1>1, <2>3 DEF CreateToolCall, TypeOK
  <2>4. CASE RequestApproval(r)
    BY <1>1, <2>4 DEF RequestApproval, SetCall, TypeOK
  <2>5. CASE CompleteToolCall(r) \/ FailToolCall(r)
    <3>1. loc[r].call \in CallId /\ pc[r] \in Settling
      BY <2>5, LocalFacts DEF CompleteToolCall, FailToolCall, HasCall, Settling
    <3>2. loc[r].call[1] = loc[r].step /\ loc[r].call # None
      BY <3>1, RuntimeAssumption DEF SpendInv, HandsFull, InHand
    <3>3. loc[r].call # c
      BY <1>1, <3>1, <3>2 DEF AlwaysInv, SettlingSpent, Asked
    <3> QED BY <1>1, <2>5, <3>3 DEF CompleteToolCall, FailToolCall, SetCall, TypeOK
  <2> QED BY <1>1, <1>2, <2>1, <2>2, <2>3, <2>4, <2>5 DEF Moving, Work, Claim, Release, Snapshot,
       Yield, SetRunStatus, SetPlanning, SavePlan, NothingApproved, RecheckPolicy, StartStep,
       ExecuteTool, ChargeWorker, DeferStep, CompleteStep, AppendObservation, RetryStep,
       FailStep, Crash, StoreFails, rowVars
<1>3. ASSUME Outside PROVE call'[c] = "waiting_for_approval"
  <2>1. ASSUME NEW d \in CallId, Reject(d) PROVE call'[c] = "waiting_for_approval"
    BY <1>1, <2>1 DEF Reject, SetCall, Asked, TypeOK
  <2> QED BY <1>1, <1>3, <2>1 DEF Outside, RequestCancellation, LeaseExpires, DeadlinePasses,
       Approve, ApprovalLapses, rowVars
<1> QED BY <1>1, <1>2, <1>3, Movers DEF vars, rowVars

\* Each step keeps what may run and what may wait.
LEMMA ReviewStep ==
  ASSUME TypeOK, SpendInv, AlwaysInv, [Next]_vars
  PROVE  Reviewed'
<1> USE DEF AlwaysInv
<1>1. ASSUME NEW c \in CallId, call'[c] = "running", call[c] # "running"
      PROVE  ToolOf(c[1]) \in IdempotentTool \cup {"external"}
  <2>1. ASSUME NEW r \in Resumer, Moving(r)
        PROVE  ToolOf(c[1]) \in IdempotentTool \cup {"external"}
    <3>1. CASE TakeApproved(r)
      <4>1. PICK d \in Takeable : SetCall(d, "running")
        BY <3>1 DEF TakeApproved
      <4>2. d = c /\ approval[c] = "approved"
        BY <1>1, <4>1 DEF SetCall, Takeable, TypeOK
      <4> QED BY <4>2 DEF SpendInv, ExternalAsked
    <3>2. CASE CreateToolCall(r)
      <4>1. c = <<loc[r].step, loc[r].attempt + 1>> /\ pc[r] = "createCall"
        BY <1>1, <3>2 DEF CreateToolCall, TypeOK
      <4> QED BY <4>1 DEF ToolKnown
    <3> QED BY <1>1, <2>1, <3>1, <3>2 DEF Moving, Work, Claim, Release, Recover, Snapshot, Yield,
         SetRunStatus, SetPlanning, SavePlan, NothingApproved, RecheckPolicy, StartStep,
         RequestApproval, ExecuteTool, ChargeWorker, CompleteToolCall, DeferStep, CompleteStep,
         AppendObservation, FailToolCall, RetryStep, FailStep, Crash, StoreFails, SetCall,
         rowVars, TypeOK
  <2>2. ~Outside /\ ~UNCHANGED vars
    BY <1>1 DEF Outside, RequestCancellation, LeaseExpires, DeadlinePasses, Approve, Reject,
         ApprovalLapses, SetCall, rowVars, vars, TypeOK
  <2> QED BY <2>1, <2>2, Movers
<1>2. ASSUME NEW c \in CallId, Asked(c)' PROVE call'[c] = "waiting_for_approval"
  <2>1. CASE Asked(c)
    BY <1>2, <2>1, AskedCallStays
  <2>2. CASE ~Asked(c)
    BY <1>2, <2>2, AskMoves DEF RequestApproval, SetCall, TypeOK
  <2> QED BY <2>1, <2>2
<1>3. ASSUME NEW s \in StepId, stepStatus'[s] = "waiting", stepStatus[s] # "waiting"
      PROVE  ToolOf(s) = "external"
  <2>1. CASE s \in Unknown
    <3>1. PICK c \in InterruptedCalls : c[1] = s /\ ToolOf(s) \notin IdempotentTool
      BY <2>1 DEF Unknown
    <3> QED BY <3>1 DEF InterruptedCalls, Reviewed
  <2>2. ASSUME NEW r \in Resumer, RequestApproval(r), loc[r].step = s PROVE ToolOf(s) = "external"
    BY <2>2 DEF RequestApproval, SpendInv, HandsFull, InHand
  <2> QED BY <1>3, <2>1, <2>2, RowChanges DEF Recovered, Planned, Resolved, Begun, Worked
<1>4. \A c \in CallId : call'[c] = "running" => ToolOf(c[1]) \in IdempotentTool \cup {"external"}
  BY <1>1 DEF Reviewed
<1>5. \A s \in StepId : stepStatus'[s] = "waiting" => ToolOf(s) = "external"
  BY <1>3 DEF Reviewed
<1> QED BY <1>2, <1>4, <1>5 DEF Reviewed, StepAt, ToolOf, PlanAt, PlanKeys, Asked

\* Each step keeps a failure of every plan that was, or is about to be, replaced.
LEMMA ReplacedStep ==
  ASSUME TypeOK, SpendInv, AlwaysInv, [Next]_vars
  PROVE  PlansReplaced'
<1> USE DEF AlwaysInv
<1>0. planVersion \in Nat /\ failed \subseteq failed'
  BY Recorded, RuntimeAssumption DEF TypeOK
<1>1. ASSUME NEW v \in 1 .. planVersion' - 1 PROVE \E s \in failed' : s[1] = v
  <2>1. CASE v \in 1 .. planVersion - 1
    BY <1>0, <2>1 DEF PlansReplaced
  <2>2. CASE v \notin 1 .. planVersion - 1
    <3>1. v = planVersion /\ planVersion' # planVersion
      BY <1>0, <2>2, Recorded
    <3>2. PICK r \in Resumer : SavePlan(r) /\ ~StalePlan(r)
      BY <3>1, VersionMoves
    <3>3. pc[r] = "revise" /\ loc[r].version = planVersion
      BY <1>0, <3>1, <3>2 DEF SavePlan, StalePlan, PlansReplaced
    <3> QED BY <1>0, <3>1, <3>3 DEF PlansReplaced
  <2> QED BY <2>1, <2>2
<1>2. ASSUME NEW r \in Resumer, Moving(r), pc'[r] \in {"planning", "savePlan"}
      PROVE  loc'[r].version = 0
  <2>1. CASE Snapshot(r)
    <3>1. loc'[r] = Blank
      BY <1>2, <2>1 DEF Snapshot, Finish, Goto, Remember, TypeOK
    <3> QED BY <3>1 DEF Blank
  <2>2. CASE SetPlanning(r)
    BY <2>2 DEF SetPlanning, PlansReplaced
  <2> QED BY <1>2, <2>1, <2>2 DEF Moving, Work, Claim, Release, Recover, Yield, SetRunStatus,
       SavePlan, TakeApproved, NothingApproved, RecheckPolicy, StartStep, CreateToolCall,
       AfterStart, RequestApproval, ExecuteTool, ChargeWorker, CompleteToolCall, DeferStep,
       CompleteStep, AppendObservation, FailToolCall, RetryStep, FailStep, Crash, StoreFails,
       Goto, Finish, TypeOK
<1>3. ASSUME NEW r \in Resumer, Moving(r), Trying(r)' PROVE loc'[r].step[1] = loc'[r].version
  <2>1. ASSUME planVersion > 0, NEW s \in NextSteps, loc'[r] = SnapshotOf(s)
        PROVE  loc'[r].step[1] = loc'[r].version
    <3>1. loc'[r].step = s /\ loc'[r].version = planVersion
      BY <2>1 DEF SnapshotOf, Blank
    <3> QED BY <2>1, <3>1, ChosenStep
  <2>2. CASE Trying(r) /\ loc'[r].step = loc[r].step
    <3>1. loc'[r].version = loc[r].version
      <4>0. loc[r] \in Local /\ Blank.step = None /\ WithVerdict(Blank, Conclusion).step = None
        BY LocalFacts DEF Blank, WithVerdict
      <4>1. ~Taken(r)
        BY <1>3 DEF Taken, Holding, Blank, Trying
      <4>2. CASE Chosen(r)
        BY <2>2, <4>2 DEF Chosen, Snapshot, Trying, HasStep
      <4> QED BY <1>3, <2>2, <4>0, <4>1, <4>2, LocMoves, Fields
              DEF Ended, Denied, Recalled, Waits, Concluded, Trying
    <3> QED BY <2>2, <3>1 DEF PlansReplaced
  <2> QED BY <1>3, <2>1, <2>2, TrialMoves
<1>4. ASSUME NEW r \in Resumer, Moving(r), pc'[r] = "revise"
      PROVE  loc'[r].step \in failed' /\ loc'[r].step[1] = loc'[r].version
  <2>1. FailStep(r)
    BY <1>4 DEF Moving, Work, Claim, Release, Recover, Snapshot, Yield, SetRunStatus,
       SetPlanning, SavePlan, TakeApproved, NothingApproved, RecheckPolicy, StartStep,
       CreateToolCall, AfterStart, RequestApproval, ExecuteTool, ChargeWorker,
       CompleteToolCall, DeferStep, CompleteStep, AppendObservation, FailToolCall, RetryStep,
       Crash, StoreFails, Goto, Finish, TypeOK
  <2>2. loc[r].step \in StepId /\ loc[r].kind = "planned" /\ loc'[r] = loc[r]
    BY <1>4, <2>1, LocalFacts DEF FailStep, HasStep, Finish, Goto, TypeOK
  <2>3. Trying(r)
    BY <2>1, <2>2, RuntimeAssumption DEF FailStep, Trying, HasStep
  <2> QED BY <2>1, <2>2, <2>3 DEF FailStep, PlansReplaced
<1>5. ASSUME NEW r \in Resumer
      PROVE  /\ pc'[r] \in {"planning", "savePlan"} => loc'[r].version = 0
             /\ Trying(r)' => loc'[r].step[1] = loc'[r].version
             /\ pc'[r] = "revise" => loc'[r].step \in failed' /\ loc'[r].step[1] = loc'[r].version
  <2>1. CASE Moving(r)
    BY <1>2, <1>3, <1>4, <2>1
  <2>2. CASE pc'[r] = pc[r] /\ loc'[r] = loc[r]
    BY <1>0, <2>2 DEF PlansReplaced, Trying
  <2> QED BY <2>1, <2>2, OnesOwn
<1> QED BY <1>1, <1>5 DEF PlansReplaced

\* All of it is an invariant, whatever overlaps.
LEMMA AlwaysInvariance == Spec => [](TypeOK /\ SpendInv /\ AlwaysInv)
<1>1. Init => AlwaysInv
  <2> SUFFICES ASSUME Init PROVE AlwaysInv
    OBVIOUS
  <2>1. RowsPlanned /\ WorkPlanned /\ SuccessDone /\ Reviewed
    BY DEF Init, RowsPlanned, WorkPlanned, SuccessDone, Reviewed, Asked, StepId, Version, Blank
  <2>2. ConclusionEarned /\ ChoiceEarned /\ SettlingSpent
    BY DEF Init, ConclusionEarned, ChoiceEarned, SettlingSpent, Settling
  <2>3. ToolKnown /\ PlansReplaced
    BY DEF Init, ToolKnown, PlansReplaced, Trying, HasStep, Planning, Blank
  <2> QED BY <2>1, <2>2, <2>3 DEF AlwaysInv
<1>2. TypeOK /\ SpendInv /\ AlwaysInv /\ [Next]_vars => AlwaysInv'
  <2> SUFFICES ASSUME TypeOK, SpendInv, AlwaysInv, [Next]_vars PROVE AlwaysInv'
    OBVIOUS
  <2>1. /\ RowsPlanned' /\ WorkPlanned' /\ SuccessDone' /\ ConclusionEarned' /\ ChoiceEarned'
        /\ ToolKnown' /\ SettlingSpent' /\ Reviewed' /\ PlansReplaced'
    BY RowsStep, WorkPlannedStep, SuccessStep, ConclusionStep, ChoiceEarnedStep, ToolStep,
       SpentStep, ReviewStep, ReplacedStep
  <2> QED BY <2>1 DEF AlwaysInv
<1> QED BY <1>1, <1>2, Invariance, PTL DEF Spec

-----------------------------------------------------------------------------
\* One request at a time: no other is at work, and none on a finished run but
\* to release it.  It holds unless a request was let in beside another, and
\* again once the last of such requests has left.
OneAtWork == \A r, q \in Resumer : pc[r] # "idle" /\ pc[q] # "idle" => r = q
FinishedRests ==
  status \in Terminal => \A r \in Resumer : pc[r] \in {"idle", "release"}

AloneInv == overlap # "now" => OneAtWork /\ FinishedRests

\* Only a request that is let in changes what is known of the others.
LEMMA OverlapMoves ==
  ASSUME TypeOK, [Next]_vars
  PROVE  /\ overlap' # overlap => \E r \in Resumer : Claim(r)
         /\ \A r \in Resumer : Claim(r) /\ overlap' # "now" =>
              status \notin Terminal /\ \A q \in Resumer \ {r} : pc[q] = "idle"
         /\ overlap' = "never" => overlap = "never"
<1>1. ASSUME NEW r \in Resumer, Moving(r), ~Claim(r) PROVE overlap' = overlap
  BY <1>1 DEF Moving, Work, Release, Recover, Snapshot, Yield, SetRunStatus, SetPlanning,
       SavePlan, TakeApproved, NothingApproved, RecheckPolicy, StartStep, CreateToolCall,
       RequestApproval, ExecuteTool, ChargeWorker, CompleteToolCall, DeferStep, CompleteStep,
       AppendObservation, FailToolCall, RetryStep, FailStep, Crash, StoreFails, history
<1>2. overlap' # overlap => \E r \in Resumer : Claim(r)
  BY <1>1, Movers DEF vars, history
<1>3. ASSUME NEW r \in Resumer, Claim(r)
      PROVE  /\ overlap' # "now" => status \notin Terminal /\ \A q \in Resumer \ {r} : pc[q] = "idle"
             /\ overlap' = "never" => overlap = "never"
  BY <1>3 DEF Claim, Claimable
<1> QED BY <1>2, <1>3

\* While a request moves and lets nobody in beside it, every other one is idle.
LEMMA Alone ==
  ASSUME TypeOK, overlap # "now" => OneAtWork, overlap' # "now", [Next]_vars,
         NEW r \in Resumer, Moving(r)
  PROVE  \A q \in Resumer \ {r} : pc[q] = "idle" /\ pc'[q] = "idle" /\ loc'[q] = loc[q]
<1>1. \A q \in Resumer \ {r} : pc'[q] = pc[q] /\ loc'[q] = loc[q]
  BY OthersStay
<1>2. \A q \in Resumer \ {r} : pc[q] = "idle"
  <2>1. CASE Claim(r)
    BY <2>1, OverlapMoves
  <2>2. CASE ~Claim(r)
    <3>1. pc[r] # "idle"
      BY <2>2 DEF Moving, Work, Release, Recover, Snapshot, Yield, SetRunStatus,
         SetPlanning, SavePlan, TakeApproved, NothingApproved, RecheckPolicy, StartStep,
         CreateToolCall, RequestApproval, ExecuteTool, ChargeWorker, CompleteToolCall,
         DeferStep, CompleteStep, AppendObservation, FailToolCall, RetryStep, FailStep,
         Crash, StoreFails
    <3>2. CASE overlap # "now"
      BY <3>1, <3>2 DEF OneAtWork
    <3>3. CASE overlap = "now"
      <4>1. PICK q \in Resumer : Claim(q)
        BY <3>3, OverlapMoves
      <4>2. q # r /\ pc[r] = "idle"
        BY <2>2, <4>1, OverlapMoves
      <4> QED BY <3>1, <4>2
    <3> QED BY <3>2, <3>3
  <2> QED BY <2>1, <2>2
<1> QED BY <1>1, <1>2

\* A request that still moves on a finished run only releases it.
LEMMA FinishedMoves ==
  ASSUME TypeOK, FinishedRests, NEW r \in Resumer, Moving(r), status \in Terminal
  PROVE  pc[r] = "release" /\ pc'[r] = "idle" /\ UNCHANGED <<runVars, rowVars>>
<1>1. pc[r] \in {"idle", "release"}
  BY DEF FinishedRests
<1>2. CASE Release(r) \/ Crash(r)
  BY <1>1, <1>2 DEF Release, Crash, Goto, TypeOK
<1>3. CASE StoreFails(r)
  BY <1>1, <1>3 DEF StoreFails, InTry, Goto, TypeOK
<1>4. ~Claim(r)
  BY DEF Claim, Claimable
<1> QED BY <1>1, <1>2, <1>3, <1>4 DEF Moving, Work, Recover, Snapshot, Yield, SetRunStatus,
      SetPlanning, SavePlan, TakeApproved, NothingApproved, RecheckPolicy, StartStep,
      CreateToolCall, RequestApproval, ExecuteTool, ChargeWorker, CompleteToolCall, DeferStep,
      CompleteStep, AppendObservation, FailToolCall, RetryStep, FailStep

\* Each step that leaves no overlap leaves one request at work, and none on a
\* finished run.
LEMMA AloneStep ==
  ASSUME TypeOK, AloneInv, [Next]_vars
  PROVE  AloneInv'
<1> SUFFICES ASSUME overlap' # "now" PROVE OneAtWork' /\ FinishedRests'
  BY DEF AloneInv
<1>0. overlap # "now" => OneAtWork /\ FinishedRests
  BY DEF AloneInv
<1>1. ASSUME NEW r \in Resumer, Moving(r) PROVE OneAtWork' /\ FinishedRests'
  <2>1. \A q \in Resumer \ {r} : pc'[q] = "idle"
    BY <1>0, <1>1, Alone
  <2>2. OneAtWork'
    BY <2>1 DEF OneAtWork
  <2>3. ASSUME status' \in Terminal PROVE pc'[r] \in {"idle", "release"}
    <3>1. CASE status' # status
      <4>1. PICK q \in Resumer : SetRunStatus(q)
        BY <2>3, <3>1, StatusMoves
      <4>2. Moving(q) /\ pc[q] # "idle" /\ pc'[q] = "release"
        BY <4>1 DEF Moving, Work, SetRunStatus, Goto, TypeOK
      <4> QED BY <2>1, <4>2
    <3>2. CASE status' = status
      <4>1. overlap # "now"
        BY <2>3, <3>2, OverlapMoves
      <4> QED BY <1>0, <1>1, <2>3, <3>2, <4>1, FinishedMoves
    <3> QED BY <3>1, <3>2
  <2> QED BY <2>1, <2>2, <2>3 DEF FinishedRests
<1>2. ASSUME Outside \/ UNCHANGED vars PROVE OneAtWork' /\ FinishedRests'
  <2>1. overlap # "now" /\ UNCHANGED pc
    BY <1>2, Movers DEF vars, history
  <2>2. status' \in Terminal => status \in Terminal
    BY <1>2 DEF Outside, RequestCancellation, LeaseExpires, DeadlinePasses, Approve, Reject,
         ApprovalLapses, runVars, vars, Terminal
  <2> QED BY <1>0, <2>1, <2>2 DEF OneAtWork, FinishedRests
<1> QED BY <1>1, <1>2, Movers

\* One request works at a time, or requests overlap.
LEMMA AloneInvariance == Spec => []AloneInv
<1>1. Init => AloneInv
  BY DEF Init, AloneInv, OneAtWork, FinishedRests
<1>2. TypeOK /\ AloneInv /\ [Next]_vars => AloneInv'
  BY AloneStep
<1> QED BY <1>1, <1>2, Invariance, PTL DEF Spec

-----------------------------------------------------------------------------
\* Until requests overlap, the rows themselves stand.

\* A call the user may still decide, or has approved, is the only such call of
\* its step, and the step waits for it.
AskedWaits ==
  \A c \in CallId : Asked(c) =>
    /\ stepStatus[c[1]] = "waiting"
    /\ \A d \in CallId : Asked(d) /\ d[1] = c[1] => d = c

\* The step a request works on has not failed and waits for nobody.
StepInWork ==
  \A r \in Resumer : pc[r] \in AtWork =>
    stepStatus[loc[r].step] \in {"running", "succeeded", "pending"}

\* The step a request chose still has its dependencies when it begins.
ChoiceStands ==
  \A r \in Resumer : pc[r] \in {"take", "start"} /\ loc[r].step # None =>
    StepAt(loc[r].step).deps \subseteq SucceededKeys

\* A run that is, or is about to be, recorded as completed has done its plan.
DoneWhenConcluded ==
  /\ \A r \in Resumer : pc[r] \in {"take", "setStatus"} /\ loc[r].verdict = "completed" => Done
  /\ status = "completed" => Done

KeptInv == OneAtWork /\ FinishedRests /\ AskedWaits /\ StepInWork /\ ChoiceStands /\ DoneWhenConcluded

\* A request that moves is the only one at work.
LEMMA AtWorkAlone ==
  ASSUME TypeOK, KeptInv, overlap' = "never", [Next]_vars, NEW r \in Resumer, Moving(r)
  PROVE  \A q \in Resumer \ {r} : pc[q] = "idle" /\ pc'[q] = "idle" /\ loc'[q] = loc[q]
  BY Alone DEF KeptInv

\* What a row's change then finds.
LEMMA RowMoves ==
  ASSUME TypeOK, SpendInv, AlwaysInv, KeptInv, [Next]_vars, NEW s \in StepId,
         stepStatus'[s] # stepStatus[s]
  PROVE  \/ Recovered(s) \/ Begun(s)
         \/ Planned(s) /\ stepStatus[s] = "absent"
         \/ Resolved(s) /\ stepStatus[s] = "waiting"
         \/ Worked(s) /\ stepStatus[s] \in {"running", "succeeded", "pending"}
<1>1. Planned(s) => stepStatus[s] = "absent"
  BY RuntimeAssumption DEF Planned, AlwaysInv, RowsPlanned, TypeOK
<1>2. Resolved(s) => stepStatus[s] = "waiting"
  BY DEF Resolved, KeptInv, AskedWaits
<1>3. Worked(s) => stepStatus[s] \in {"running", "succeeded", "pending"}
  BY DEF Worked, KeptInv, StepInWork
<1> QED BY <1>1, <1>2, <1>3, RowChanges

\* A failed row stays failed.
LEMMA RowsStay ==
  ASSUME TypeOK, SpendInv, AlwaysInv, KeptInv, [Next]_vars, NEW s \in StepId, stepStatus[s] = "failed"
  PROVE  stepStatus'[s] = "failed"
  BY RowMoves DEF Recovered, Planned, Resolved, Begun, Worked, TypeOK

\* Each step keeps what is known of a call that waits for the user.
LEMMA AskedStep ==
  ASSUME TypeOK, SpendInv, AlwaysInv, KeptInv, overlap' = "never", [Next]_vars
  PROVE  AskedWaits'
<1> SUFFICES ASSUME NEW c \in CallId, Asked(c)'
             PROVE  /\ stepStatus'[c[1]] = "waiting"
                    /\ \A d \in CallId : Asked(d)' /\ d[1] = c[1] => d = c
  BY DEF AskedWaits, Asked
<1>0. c[1] \in StepId
  BY DEF CallId
<1>1. CASE Asked(c)
  <2>1. /\ stepStatus[c[1]] = "waiting"
        /\ \A d \in CallId : Asked(d) /\ d[1] = c[1] => d = c
    BY <1>1 DEF KeptInv, AskedWaits
  <2>2. stepStatus'[c[1]] = "waiting"
    BY <1>0, <2>1, RowMoves DEF Recovered, Planned, Resolved, Begun, Worked
  <2>3. ASSUME NEW d \in CallId, Asked(d)', d[1] = c[1] PROVE d = c
    <3>1. CASE ~Asked(d)
      <4>1. PICK r \in Resumer : RequestApproval(r) /\ d = loc[r].call
        BY <2>3, <3>1, AskMoves
      <4>2. loc[r].call[1] = loc[r].step /\ pc[r] \in AtWork
        BY <4>1, RuntimeAssumption DEF RequestApproval, SpendInv, HandsFull, InHand, HasCall, AtWork, HasStep
      <4> QED BY <2>1, <2>3, <4>1, <4>2 DEF KeptInv, StepInWork
    <3> QED BY <2>1, <2>3, <3>1
  <2> QED BY <2>2, <2>3
<1>2. CASE ~Asked(c)
  <2>1. PICK r \in Resumer : /\ RequestApproval(r) /\ approval[loc[r].call] = "none"
                             /\ c = loc[r].call
                             /\ approval' = [approval EXCEPT ![c] = "pending"]
    BY <1>2, AskMoves
  <2>2. stepStatus'[c[1]] = "waiting"
    BY <1>0, <2>1 DEF RequestApproval, SetStep, TypeOK
  <2>3. stepStatus[c[1]] # "waiting"
    <3>1. loc[r].call[1] = loc[r].step /\ pc[r] \in AtWork
      BY <2>1, RuntimeAssumption DEF RequestApproval, SpendInv, HandsFull, InHand, HasCall, AtWork, HasStep
    <3> QED BY <2>1, <3>1 DEF KeptInv, StepInWork
  <2>4. ASSUME NEW d \in CallId, Asked(d)', d[1] = c[1] PROVE d = c
    <3>1. CASE Asked(d)
      BY <2>3, <2>4, <3>1 DEF KeptInv, AskedWaits
    <3>2. CASE ~Asked(d)
      BY <2>1, <2>4, <3>2 DEF Asked, TypeOK
    <3> QED BY <3>1, <3>2
  <2> QED BY <2>2, <2>4
<1> QED BY <1>1, <1>2

\* Each step keeps the step of a request at work out of failure and review.
LEMMA WorkStep ==
  ASSUME TypeOK, SpendInv, AlwaysInv, KeptInv, overlap' = "never", [Next]_vars
  PROVE  StepInWork'
<1> DEFINE InWork == {"running", "succeeded", "pending"}
<1>1. ASSUME NEW r \in Resumer, Moving(r), pc'[r] \in AtWork
      PROVE  stepStatus'[loc'[r].step] \in InWork
  <2>0. loc[r] \in Local
    BY LocalFacts
  <2>1. CASE /\ pc[r] \in AtWork /\ loc'[r].step = loc[r].step
             /\ UNCHANGED stepStatus
    BY <2>1 DEF KeptInv, StepInWork
  <2>2. CASE TakeApproved(r)
    <3>1. PICK c \in Takeable : SetStep(c[1], "running") /\ Remember(r, Holding(c))
      BY <2>2 DEF TakeApproved
    <3>2. c \in CallId /\ c[1] \in StepId
      BY DEF Takeable, CallId
    <3>3. loc'[r].step = c[1] /\ stepStatus'[c[1]] = "running"
      BY <3>1, <3>2, Memories DEF Remember, SetStep, TypeOK
    <3> QED BY <3>3
  <2>3. CASE StartStep(r)
    <3>1. loc[r].step \in StepId
      BY <2>3, LocalFacts DEF StartStep, HasStep
    <3>2. loc'[r].step = loc[r].step
      BY <2>0, <2>3, Memories DEF StartStep, Remember, TypeOK
    <3>3. SetStep(loc[r].step, "running")
      BY <1>1, <2>3 DEF StartStep, AtWork, HasStep, Goto, TypeOK
    <3> QED BY <3>1, <3>2, <3>3 DEF SetStep, TypeOK
  <2>4. CASE CreateToolCall(r)
    <3>1. loc[r].attempt \in Nat /\ loc[r].step \in StepId
      BY <2>4, LocalFacts DEF CreateToolCall, HasStep
    <3>2. \A n \in 1 .. MaxCallAttempts : <<loc[r].step, n>> \in CallId
      BY <3>1 DEF CallId
    <3>3. loc'[r].step = loc[r].step
      BY <2>0, <2>4, <3>1, <3>2, Memories DEF CreateToolCall, Remember, TypeOK
    <3> QED BY <2>1, <2>4, <3>3 DEF CreateToolCall, AtWork, HasStep
  <2>5. CASE ExecuteTool(r)
    <3>1. loc'[r].step = loc[r].step
      BY <2>0, <2>5, Memories DEF ExecuteTool, Remember, TypeOK
    <3> QED BY <2>1, <2>5, <3>1 DEF ExecuteTool, AtWork, HasStep, rowVars
  <2>6. CASE RecheckPolicy(r) \/ CompleteToolCall(r) \/ FailToolCall(r) \/ ChargeWorker(r)
    BY <2>1, <2>6 DEF RecheckPolicy, CompleteToolCall, FailToolCall, ChargeWorker, AtWork, HasStep,
         rowVars
  <2>7. CASE DeferStep(r) \/ CompleteStep(r)
    <3>1. loc[r].step \in StepId
      BY <2>7, LocalFacts DEF DeferStep, CompleteStep, HasStep
    <3> QED BY <2>7, <3>1 DEF DeferStep, CompleteStep, SetStep, TypeOK
  <2>8. CASE StoreFails(r)
    BY <1>1, <2>1, <2>8 DEF StoreFails, InTry, Goto, TypeOK, AtWork, HasStep, rowVars
  <2>9. ASSUME \/ Claim(r) \/ Release(r) \/ Recover(r) \/ Snapshot(r) \/ Yield(r)
               \/ SetRunStatus(r) \/ SetPlanning(r) \/ SavePlan(r) \/ NothingApproved(r)
               \/ RequestApproval(r) \/ AppendObservation(r) \/ RetryStep(r) \/ FailStep(r)
               \/ Crash(r)
        PROVE  FALSE
    BY <1>1, <2>9 DEF Claim, Release, Recover, Snapshot, Yield, SetRunStatus, SetPlanning,
         SavePlan, NothingApproved, RequestApproval, AppendObservation, RetryStep, FailStep,
         Crash, Goto, Finish, TypeOK, AtWork, HasStep
  <2> QED BY <1>1, <2>2, <2>3, <2>4, <2>5, <2>6, <2>7, <2>8, <2>9 DEF Moving, Work
<1>2. ASSUME NEW r \in Resumer, pc[r] \in AtWork, UNCHANGED <<pc, loc>>, Outside \/ UNCHANGED vars
      PROVE  stepStatus'[loc'[r].step] \in InWork
  <2>1. loc[r].step \in StepId /\ stepStatus[loc[r].step] \in InWork
    BY <1>2, LocalFacts DEF KeptInv, StepInWork, AtWork
  <2>2. CASE UNCHANGED stepStatus
    BY <1>2, <2>1, <2>2
  <2>3. ASSUME NEW c \in CallId, Reject(c) PROVE stepStatus'[loc[r].step] \in InWork
    BY <2>1, <2>3 DEF Reject, Undecided, SetStep, KeptInv, AskedWaits, Asked, TypeOK
  <2> QED BY <1>2, <2>2, <2>3 DEF Outside, RequestCancellation, LeaseExpires, DeadlinePasses,
       Approve, ApprovalLapses, vars, rowVars
<1>4. \A r \in Resumer : Moving(r) => \A q \in Resumer \ {r} : pc'[q] \notin AtWork
  BY AtWorkAlone DEF AtWork, HasStep
<1> QED BY <1>1, <1>2, <1>4, Movers DEF StepInWork, vars

\* The user and the clock take no success back.
LEMMA SuccessStays ==
  ASSUME TypeOK, KeptInv, Outside \/ UNCHANGED vars, NEW s \in StepId,
         stepStatus[s] = "succeeded"
  PROVE  stepStatus'[s] = "succeeded"
<1>1. ASSUME NEW c \in CallId, Reject(c) PROVE stepStatus'[s] = "succeeded"
  BY <1>1 DEF Reject, Undecided, SetStep, KeptInv, AskedWaits, Asked, TypeOK
<1> QED BY <1>1 DEF Outside, RequestCancellation, LeaseExpires, DeadlinePasses, Approve,
       ApprovalLapses, vars, rowVars

\* Each step keeps the dependencies of a chosen step.
LEMMA ChoiceStep ==
  ASSUME TypeOK, SpendInv, AlwaysInv, KeptInv, overlap' = "never", [Next]_vars
  PROVE  ChoiceStands'
<1> DEFINE Choosing == {"take", "start"}
<1>1. ASSUME NEW r \in Resumer, Moving(r), pc'[r] \in Choosing, loc'[r].step # None
      PROVE  StepAt(loc'[r].step).deps \subseteq SucceededKeys'
  <2>1. CASE Chosen(r) /\ loc'[r].step \in NextSteps
    <3>1. StepAt(loc'[r].step).deps \subseteq SucceededKeys /\ UNCHANGED stepStatus
      BY <2>1, ChosenStep DEF Chosen, Snapshot, rowVars
    <3> QED BY <3>1 DEF SucceededKeys
  <2>2. CASE NothingApproved(r) /\ loc[r].step = loc'[r].step /\ pc[r] = "take"
    BY <1>1, <2>2 DEF NothingApproved, KeptInv, ChoiceStands, SucceededKeys
  <2> QED BY <1>1, <2>1, <2>2, Choices
<1>2. ASSUME NEW r \in Resumer, pc[r] \in Choosing, loc[r].step # None, UNCHANGED <<pc, loc>>,
             Outside \/ UNCHANGED vars
      PROVE  StepAt(loc'[r].step).deps \subseteq SucceededKeys'
  <2>1. SucceededKeys \subseteq SucceededKeys'
    BY <1>2, SuccessStays DEF SucceededKeys
  <2> QED BY <1>2, <2>1 DEF KeptInv, ChoiceStands
<1>4. \A r \in Resumer : Moving(r) => \A q \in Resumer \ {r} : pc'[q] \notin Choosing
  BY AtWorkAlone
<1> HIDE DEF Choosing
<1>5. \A r \in Resumer : pc'[r] \in Choosing /\ loc'[r].step # None
                           => StepAt(loc'[r].step).deps \subseteq SucceededKeys'
  BY <1>1, <1>2, <1>4, Movers DEF vars
<1> QED BY <1>5 DEF ChoiceStands, Choosing, StepAt, PlanAt

\* A plan that is done stays done while its rows, or its successes, stay.
LEMMA DoneStays ==
  ASSUME TypeOK, Done, planVersion' = planVersion,
         \A s \in StepId : stepStatus[s] = "succeeded" => stepStatus'[s] = "succeeded"
  PROVE  Done'
<1>1. \A k \in PlanKeys(planVersion) : stepStatus'[<<planVersion, k>>] = "succeeded"
  BY PlanRows DEF Done
<1> QED BY <1>1 DEF Done, PlanKeys, PlanAt

\* Each step keeps a conclusion true, or overwrites it.
LEMMA DoneStep ==
  ASSUME TypeOK, SpendInv, AlwaysInv, KeptInv, overlap' = "never", [Next]_vars
  PROVE  DoneWhenConcluded'
<1> DEFINE Concluding == {"take", "setStatus"}
<1>1. ASSUME NEW r \in Resumer, Moving(r), pc'[r] \in Concluding, loc'[r].verdict = "completed"
      PROVE  Done'
  <2>1. CASE Concluded(r) /\ Conclusion = "completed"
    <3>1. Done
      BY <2>1, ConcludesDone DEF AlwaysInv, Concluded
    <3> QED BY <2>1, <3>1, DoneStays DEF Concluded, Snapshot, rowVars, runVars
  <2>2. CASE NothingApproved(r) /\ loc[r].verdict = "completed" /\ pc[r] = "take"
    <3>1. Done
      BY <2>2 DEF KeptInv, DoneWhenConcluded
    <3> QED BY <2>2, <3>1, DoneStays DEF NothingApproved, runVars
  <2> QED BY <1>1, <2>1, <2>2, Conclusions
<1>2. ASSUME Outside \/ UNCHANGED vars, Done PROVE Done'
  <2>1. planVersion' = planVersion
    BY <1>2, Movers DEF vars, runVars
  <2> QED BY <1>2, <2>1, SuccessStays, DoneStays
<1>4. \A r \in Resumer : Moving(r) => \A q \in Resumer \ {r} : pc'[q] \notin Concluding
  BY AtWorkAlone
<1>5. ASSUME NEW r \in Resumer, pc'[r] \in Concluding, loc'[r].verdict = "completed"
      PROVE  Done'
  <2>1. CASE UNCHANGED <<pc, loc>>
    BY <1>1, <1>2, <1>4, <1>5, <2>1, Movers DEF KeptInv, DoneWhenConcluded
  <2> QED BY <1>1, <1>4, <1>5, <2>1, Movers DEF vars
<1>6. ASSUME status' = "completed" PROVE Done'
  <2>1. CASE status' # status
    <3>1. PICK r \in Resumer : SetRunStatus(r)
      BY <1>6, <2>1, StatusMoves DEF Terminal
    <3>2. Done
      BY <1>6, <3>1 DEF SetRunStatus, KeptInv, DoneWhenConcluded
    <3> QED BY <3>1, <3>2, DoneStays DEF SetRunStatus, rowVars
  <2>2. CASE status' = status
    <3>1. Done /\ FinishedRests /\ status \in Terminal
      BY <1>6, <2>2 DEF KeptInv, DoneWhenConcluded, Terminal
    <3>2. ASSUME NEW r \in Resumer, Moving(r) PROVE Done'
      BY <3>1, <3>2, FinishedMoves, DoneStays DEF runVars, rowVars
    <3> QED BY <1>2, <3>1, <3>2, Movers
  <2> QED BY <2>1, <2>2
<1> QED BY <1>5, <1>6 DEF DoneWhenConcluded

-----------------------------------------------------------------------------
\* Replanning, until requests overlap.

\* A request that saw no failure of its tool is still right.
FirstFailure == \A r \in Resumer :
  Trying(r) /\ ~loc[r].repeated => ToolOf(loc[r].step) \notin FailedTools

\* A request about to replace a plan has seen one more tool fail.
PlanEarned == \A r \in Resumer : pc[r] = "revise" => planVersion <= Cardinality(FailedTools)

PlansBounded == planVersion <= 1 + Cardinality(FailedTools)
LoopInv == FirstFailure /\ PlanEarned /\ PlansBounded

\* There are finitely many tools to fail.
LEMMA FailedToolsFinite ==
  /\ IsFiniteSet(FailedTools) /\ Cardinality(FailedTools) \in Nat
  /\ IsFiniteSet(FailedTools') /\ Cardinality(FailedTools') \in Nat
<1>1. IsFiniteSet(IdempotentTool)
  <2>1. IdempotentTool = {"read"} \cup {"compare"} \cup {"scan"} \cup {"delegate"}
    BY DEF IdempotentTool
  <2> QED BY <2>1, FS_Singleton, FS_Union
<1>2. FailedTools \subseteq IdempotentTool /\ FailedTools' \subseteq IdempotentTool
  BY DEF FailedTools
<1> QED BY <1>1, <1>2, FS_Subset, FS_CardinalityType

\* A tool that has failed stays one that has failed, and only a request that
\* fails a step adds one: a rejection fails no idempotent tool.
LEMMA FailuresStay ==
  ASSUME TypeOK, SpendInv, AlwaysInv, KeptInv, [Next]_vars
  PROVE  /\ FailedTools \subseteq FailedTools'
         /\ Cardinality(FailedTools) <= Cardinality(FailedTools')
         /\ (\A r \in Resumer : ~FailStep(r)) => FailedTools' = FailedTools
<1>1. FailedTools \subseteq FailedTools'
  BY RowsStay DEF FailedTools, ToolOf, StepAt, PlanKeys, PlanAt
<1>2. Cardinality(FailedTools) <= Cardinality(FailedTools')
  BY <1>1, FailedToolsFinite, FS_Subset
<1>3. ASSUME \A r \in Resumer : ~FailStep(r) PROVE FailedTools' \subseteq FailedTools
  <2>1. ASSUME NEW s \in StepId, stepStatus'[s] = "failed", ToolOf(s) \in IdempotentTool
        PROVE  stepStatus[s] = "failed"
    BY <1>3, <2>1, RowChanges DEF Recovered, Planned, Resolved, Begun, Worked, IdempotentTool
  <2> QED BY <2>1 DEF FailedTools, ToolOf, StepAt, PlanKeys, PlanAt
<1> QED BY <1>1, <1>2, <1>3

\* Each step that adds a plan has been earned.
LEMMA BoundStep ==
  ASSUME TypeOK, SpendInv, AlwaysInv, KeptInv, LoopInv, [Next]_vars
  PROVE  PlansBounded'
<1>1. Cardinality(FailedTools) <= Cardinality(FailedTools')
      /\ Cardinality(FailedTools) \in Nat /\ Cardinality(FailedTools') \in Nat
  BY FailuresStay, FailedToolsFinite
<1>2. CASE planVersion' = planVersion
  BY <1>1, <1>2 DEF LoopInv, PlansBounded, TypeOK
<1>3. CASE planVersion' # planVersion
  <2>1. PICK r \in Resumer : SavePlan(r) /\ ~StalePlan(r)
    BY <1>3, VersionMoves
  <2>2. planVersion' = planVersion + 1 /\ loc[r].version = planVersion
        /\ pc[r] \in {"savePlan", "revise"}
    BY <2>1 DEF SavePlan, StalePlan
  <2>3. planVersion <= Cardinality(FailedTools)
    BY <1>1, <2>2 DEF LoopInv, PlanEarned, AlwaysInv, PlansReplaced, TypeOK
  <2> QED BY <1>1, <2>2, <2>3 DEF PlansBounded, TypeOK
<1> QED BY <1>2, <1>3

\* Each step keeps a first failure the first.
LEMMA FirstStep ==
  ASSUME TypeOK, SpendInv, AlwaysInv, KeptInv, LoopInv, overlap' = "never", [Next]_vars
  PROVE  FirstFailure'
<1> SUFFICES ASSUME NEW r \in Resumer, Trying(r)', ~loc'[r].repeated
             PROVE  ToolOf(loc'[r].step) \notin FailedTools'
  BY DEF FirstFailure
<1>1. pc'[r] # "idle" /\ ~FailStep(r)
  BY DEF Trying, HasStep, FailStep, Finish, Goto, TypeOK
<1>2. \A q \in Resumer : ~FailStep(q)
  <2>1. ASSUME NEW q \in Resumer, FailStep(q) PROVE FALSE
    <3>1. Moving(q) /\ q # r
      BY <1>1, <2>1 DEF Moving, Work
    <3> QED BY <1>1, <3>1, AtWorkAlone
  <2> QED BY <2>1
<1>3. FailedTools' = FailedTools
  BY <1>2, FailuresStay
<1>4. CASE Trying(r) /\ loc'[r].step = loc[r].step /\ loc'[r].repeated = loc[r].repeated
  BY <1>3, <1>4 DEF LoopInv, FirstFailure
<1>5. ASSUME NEW s \in NextSteps, loc'[r] = SnapshotOf(s)
      PROVE  ToolOf(loc'[r].step) \notin FailedTools'
  <2>1. loc'[r].step = s /\ loc'[r].repeated = FailedBefore(ToolOf(s))
    BY <1>5 DEF SnapshotOf, Blank
  <2> QED BY <1>3, <2>1 DEF FailedBefore, FailedTools
<1>6. CASE Moving(r)
  BY <1>4, <1>5, <1>6, TrialMoves DEF AlwaysInv
<1>7. CASE pc'[r] = pc[r] /\ loc'[r] = loc[r]
  BY <1>4, <1>7 DEF Trying
<1> QED BY <1>6, <1>7, OnesOwn

\* A request goes to replace a plan only for one more failed tool.
LEMMA EarnedStep ==
  ASSUME TypeOK, SpendInv, AlwaysInv, KeptInv, LoopInv, overlap' = "never", [Next]_vars
  PROVE  PlanEarned'
<1>1. ASSUME NEW r \in Resumer, Moving(r), pc'[r] = "revise"
      PROVE  planVersion' <= Cardinality(FailedTools')
  <2>1. FailStep(r)
    BY <1>1 DEF Moving, Work, Claim, Release, Recover, Snapshot, Yield, SetRunStatus,
       SetPlanning, SavePlan, TakeApproved, NothingApproved, RecheckPolicy, StartStep,
       CreateToolCall, AfterStart, RequestApproval, ExecuteTool, ChargeWorker,
       CompleteToolCall, DeferStep, CompleteStep, AppendObservation, FailToolCall, RetryStep,
       Crash, StoreFails, Goto, Finish, TypeOK
  <2> DEFINE tool == ToolOf(loc[r].step)
  <2>2. loc[r].step \in StepId /\ loc[r].kind = "planned" /\ ~loc[r].repeated
    BY <1>1, <2>1, LocalFacts DEF FailStep, HasStep, Finish, Goto, TypeOK
  <2>3. Trying(r) /\ Called(r)
    BY <2>1, <2>2, RuntimeAssumption DEF FailStep, Trying, Called, HasStep
  <2>4. tool \in IdempotentTool /\ tool \notin FailedTools
    BY <2>2, <2>3 DEF AlwaysInv, ToolKnown, LoopInv, FirstFailure
  <2>5. stepStatus'[loc[r].step] = "failed"
    BY <2>1, <2>2 DEF FailStep, SetStep, TypeOK
  <2>6. tool \in FailedTools'
    BY <2>2, <2>4, <2>5 DEF FailedTools
  <2> HIDE DEF tool
  <2>7. FailedTools \cup {tool} \subseteq FailedTools'
    BY <2>6, FailuresStay
  <2>8. Cardinality(FailedTools \cup {tool}) = Cardinality(FailedTools) + 1
    BY <2>4, FailedToolsFinite, FS_AddElement
  <2>9. Cardinality(FailedTools \cup {tool}) <= Cardinality(FailedTools')
    BY <2>7, FailedToolsFinite, FS_Subset
  <2>10. planVersion' = planVersion
    BY <2>1 DEF FailStep, runVars
  <2> QED BY <2>8, <2>9, <2>10, FailedToolsFinite DEF LoopInv, PlansBounded, TypeOK
<1>2. ASSUME NEW r \in Resumer, pc'[r] = "revise", ~Moving(r)
      PROVE  planVersion' <= Cardinality(FailedTools')
  <2>1. planVersion' = planVersion
    <3>1. ASSUME NEW q \in Resumer, Moving(q) PROVE FALSE
      <4>1. q # r
        BY <1>2, <3>1
      <4> QED BY <1>2, <3>1, <4>1, AtWorkAlone
    <3> QED BY <3>1, Movers DEF vars, runVars
  <2>2. pc[r] = "revise" /\ Cardinality(FailedTools) <= Cardinality(FailedTools')
    BY <1>2, OnesOwn, FailuresStay
  <2> QED BY <2>1, <2>2, FailedToolsFinite DEF LoopInv, PlanEarned, TypeOK
<1> QED BY <1>1, <1>2 DEF PlanEarned

\* Until requests overlap, the rows stand and replanning is earned.
NeverInv == overlap = "never" => KeptInv /\ LoopInv
LEMMA NeverInvariance == Spec => [](TypeOK /\ SpendInv /\ AlwaysInv /\ AloneInv /\ NeverInv)
<1>1. Init => NeverInv
  <2> SUFFICES ASSUME Init PROVE KeptInv /\ LoopInv
    BY DEF NeverInv
  <2>1. OneAtWork /\ FinishedRests /\ StepInWork /\ ChoiceStands /\ DoneWhenConcluded
    BY DEF Init, OneAtWork, FinishedRests, StepInWork, ChoiceStands, DoneWhenConcluded,
           AtWork, HasStep
  <2>2. AskedWaits
    BY DEF Init, AskedWaits, Asked
  <2>3. FirstFailure /\ PlanEarned
    BY DEF Init, FirstFailure, PlanEarned, Trying, HasStep
  <2>4. PlansBounded
    BY FailedToolsFinite DEF Init, PlansBounded
  <2> QED BY <2>1, <2>2, <2>3, <2>4 DEF KeptInv, LoopInv
<1>2. TypeOK /\ SpendInv /\ AlwaysInv /\ AloneInv /\ NeverInv /\ [Next]_vars => NeverInv'
  <2> SUFFICES ASSUME TypeOK, SpendInv, AlwaysInv, AloneInv, NeverInv, [Next]_vars,
                      overlap' = "never"
               PROVE  KeptInv' /\ LoopInv'
    BY DEF NeverInv
  <2>1. KeptInv /\ LoopInv
    BY OverlapMoves DEF NeverInv
  <2>2. OneAtWork' /\ FinishedRests'
    BY AloneStep DEF AloneInv
  <2>3. AskedWaits' /\ StepInWork' /\ ChoiceStands' /\ DoneWhenConcluded'
    BY <2>1, AskedStep, WorkStep, ChoiceStep, DoneStep
  <2>4. FirstFailure' /\ PlanEarned' /\ PlansBounded'
    BY <2>1, FirstStep, EarnedStep, BoundStep
  <2> QED BY <2>2, <2>3, <2>4 DEF KeptInv, LoopInv
<1> QED BY <1>1, <1>2, AlwaysInvariance, AloneInvariance, PTL DEF Spec

-----------------------------------------------------------------------------
\* A run is recorded as completed only after some plan of it was carried out,
\* whatever requests overlapped, and until they do the plan it ended with.
THEOREM CompletionIsEarned == Spec => []CompletedMeansDone
<1>1. AlwaysInv /\ NeverInv => CompletedMeansDone
  BY DEF AlwaysInv, ConclusionEarned, Earned, NeverInv, KeptInv, DoneWhenConcluded, Done,
         CompletedMeansDone
<1> QED BY <1>1, NeverInvariance, PTL

\* A finished run is reopened only by the user deciding an approval that
\* outlived it, or while requests that overlapped are the last ones.
THEOREM FinishedStaysFinished == Spec => OnlyADecisionReopens
<1>1. ASSUME TypeOK, AloneInv, [Next]_vars, status' # status, status \in Terminal, overlap # "now"
      PROVE  \E c \in CallId : approval[c] = "pending" /\ approval'[c] # "pending"
  <2>1. \A r \in Resumer : ~Moving(r)
    BY <1>1, FinishedMoves DEF AloneInv, runVars
  <2>2. Outside
    BY <1>1, <2>1, Movers DEF vars, runVars
  <2>3. ASSUME NEW c \in CallId, Approve(c) \/ Reject(c)
        PROVE  approval[c] = "pending" /\ approval'[c] # "pending"
    BY <1>1, <2>3 DEF Approve, Reject, Undecided, TypeOK
  <2> QED BY <1>1, <2>2, <2>3 DEF Outside, RequestCancellation, LeaseExpires, DeadlinePasses,
         ApprovalLapses, runVars
<1>2. TypeOK /\ AloneInv /\ [Next]_vars
        => [status' # status /\ status \in Terminal
              => \/ \E c \in CallId : approval[c] = "pending" /\ approval'[c] # "pending"
                 \/ overlap = "now"]_vars
  BY <1>1
<1> QED BY <1>2, NeverInvariance, PTL DEF Spec, OnlyADecisionReopens

\* A step begins only when each of its dependencies has been completed, though
\* it was chosen in an earlier transaction, beside whatever other requests.
THEOREM DependenciesBegin == Spec => DependenciesFirst
<1>1. ASSUME TypeOK, AlwaysInv, NeverInv, [Next]_vars, NEW s \in StepId, attempts'[s] # attempts[s]
      PROVE  /\ StepAt(s).deps \subseteq DoneKeys
             /\ overlap = "never" => StepAt(s).deps \subseteq SucceededKeys
  <2>1. PICK r \in Resumer : StartStep(r)
    <3>1. ASSUME NEW r \in Resumer, Moving(r) PROVE StartStep(r)
      BY <1>1, <3>1 DEF Moving, Work, Claim, Release, Recover, Snapshot, Yield, SetRunStatus,
         SetPlanning, SavePlan, TakeApproved, NothingApproved, RecheckPolicy, CreateToolCall,
         RequestApproval, ExecuteTool, ChargeWorker, CompleteToolCall, DeferStep, CompleteStep,
         AppendObservation, FailToolCall, RetryStep, FailStep, Crash, StoreFails, rowVars
    <3> QED BY <1>1, <3>1, Movers DEF vars, rowVars
  <2>2. s = loc[r].step /\ pc[r] = "start"
    BY <1>1, <2>1 DEF StartStep, TypeOK
  <2>3. s # None
    BY RuntimeAssumption
  <2> QED BY <1>1, <2>2, <2>3 DEF AlwaysInv, ChoiceEarned, NeverInv, KeptInv, ChoiceStands
<1>2. TypeOK /\ AlwaysInv /\ NeverInv /\ [Next]_vars
        => [\A s \in StepId : attempts'[s] # attempts[s] =>
              /\ StepAt(s).deps \subseteq DoneKeys
              /\ overlap = "never" => StepAt(s).deps \subseteq SucceededKeys]_vars
  BY <1>1
<1> QED BY <1>2, NeverInvariance, PTL DEF Spec, DependenciesFirst

\* A step whose outcome is unknown waits for review for ever, unless a request
\* that overlapped another's recovery still records how it ended.
THEOREM UnknownOutcomeWaits == Spec => UnknownOutcomeAwaitsReview
<1>1. ASSUME TypeOK, SpendInv, AlwaysInv, NeverInv, [Next]_vars, NEW s \in StepId,
             OutcomeUnknown(s), stepStatus'[s] # "waiting"
      PROVE  LateAnswer(s)
  <2>1. stepStatus[s] = "waiting" /\ ToolOf(s) = "external"
    BY <1>1 DEF OutcomeUnknown, AlwaysInv, Reviewed
  <2>2. ASSUME NEW c \in CallId, c[1] = s, Asked(c) PROVE FALSE
    <3>1. call[c] = "waiting_for_approval"
      BY <1>1, <2>2 DEF AlwaysInv, Reviewed
    <3>2. PICK n \in 1 .. MaxCallAttempts : c = <<s, n>>
      BY <2>2 DEF CallId
    <3> QED BY <1>1, <3>1, <3>2 DEF OutcomeUnknown
  <2>3. ~Planned(s)
    <3>1. planVersion \in Nat /\ (s[1] > planVersion => stepStatus[s] = "absent")
      BY <1>1, RuntimeAssumption DEF AlwaysInv, RowsPlanned, TypeOK
    <3> QED BY <2>1, <3>1 DEF Planned
  <2>4. Worked(s)
    BY <1>1, <2>1, <2>2, <2>3, RowChanges DEF Recovered, Resolved, Begun
  <2>5. PICK r \in Resumer :
          /\ pc[r] \in AtWork /\ loc[r].step = s /\ Moving(r)
          /\ stepStatus'[s] \in {"pending", "succeeded", "failed"}
          /\ stepStatus'[s] = "pending" => DeferStep(r) \/ RetryStep(r)
          /\ stepStatus'[s] = "succeeded" => CompleteStep(r)
          /\ stepStatus'[s] = "failed" => FailStep(r)
    BY <1>1, <2>4 DEF Worked
  <2>6. ~RetryStep(r)
    BY <1>1, <2>1, <2>5 DEF RetryStep, AlwaysInv, ToolKnown, IdempotentTool
  <2>7. ~DeferStep(r)
    BY <1>1, <2>1, <2>5 DEF DeferStep, AlwaysInv, ToolKnown, IdempotentTool
  <2>8. pc[r] \in {"completeStep", "failStep"} /\ pc'[r] # pc[r]
    BY <1>1, <2>5, <2>6, <2>7 DEF CompleteStep, FailStep, Finish, Goto, TypeOK
  <2>9. overlap # "never"
    BY <1>1, <2>1, <2>5 DEF NeverInv, KeptInv, StepInWork
  <2> QED BY <2>5, <2>8, <2>9 DEF LateAnswer
<1>2. TypeOK /\ SpendInv /\ AlwaysInv /\ NeverInv /\ [Next]_vars
        => [\A s \in StepId : OutcomeUnknown(s) /\ stepStatus'[s] # "waiting" => LateAnswer(s)]_vars
  BY <1>1
<1> QED BY <1>2, NeverInvariance, PTL DEF Spec, UnknownOutcomeAwaitsReview

\* Every replaced plan had a step that failed, and until requests overlap every
\* plan after the first was made for the failure of another tool.
THEOREM ReplanningEnds == Spec => []LoopPrevented
<1>1. AlwaysInv /\ NeverInv => LoopPrevented
  BY DEF AlwaysInv, PlansReplaced, NeverInv, LoopInv, PlansBounded, LoopPrevented
<1> QED BY <1>1, NeverInvariance, PTL
=============================================================================
