-------------------------- MODULE DeliveryProofs --------------------------
(***************************************************************************)
(* TaskPipeline implements Delivery, for every set of requests and every   *)
(* bound: each step of the pipeline is a step of Delivery or changes       *)
(* nothing Delivery speaks of.                                             *)
(***************************************************************************)
EXTENDS TaskPipelineProofs

UnderReview == state \in {"PR_CREATED", "AWAITING_HUMAN_REVIEW"}

\* A step that only writes the state: a review begins with a pull request on
\* record, or is withdrawn, or neither.
LEMMA StateStep ==
  ASSUME PullRequestInv', UNCHANGED <<plan, approvals, prRow, githubPr, decide, decision>>
  PROVE  [D!Next]_(D!vars)
<1> USE DEF D!Next, D!SubmitForReview, D!Withdraw, D!vars
<1>1. Consent' = Consent /\ (approvals # <<>>)' = (approvals # <<>>)
    BY DEF Consent
<1>2. CASE UnderReview'
  <2>1. prRow /\ UnderReview' = TRUE
    BY <1>2 DEF PullRequestInv, ReviewHasPullRequest, UnderReview
  <2>2. QED
    BY <1>1, <2>1 DEF UnderReview
<1>3. CASE ~UnderReview'
  <2>1. UnderReview' = FALSE
    BY <1>3
  <2>2. QED
    BY <1>1, <2>1 DEF UnderReview
<1>4. QED
    BY <1>2, <1>3

\* The steps of a run, one by one.
LEMMA RunImplementsDelivery ==
  ASSUME IInv, IInv', NEW r \in Runners, RunStep(r) \/ Fault(r)
  PROVE  [D!Next]_(D!vars)
<1> USE DEF IInv, OnlyRunner, requestVars, decideVars, taskVars
<1>1. PullRequestInv'
    OBVIOUS
<1>2. ASSUME UNCHANGED <<plan, approvals, prRow, githubPr, decide, decision>>
      PROVE  [D!Next]_(D!vars)
    BY <1>1, <1>2, StateStep
<1>3. CASE LookUpTask(r) \/ ReadTask(r) \/ FindPullRequest(r) \/ ForceRecover(r) \/ Reread(r)
    BY <1>2, <1>3 DEF LookUpTask, ReadTask, FindPullRequest, ForceRecover, Reread
<1>4. CASE CreateTask(r) \/ WriteState(r) \/ LogState(r)
    BY <1>2, <1>4 DEF CreateTask, WriteState, LogState
<1>5. CASE Check(r) \/ FindApproval(r) \/ End(r) \/ Fault(r)
    BY <1>2, <1>5 DEF Check, FindApproval, End, Fault, Throw
<1>6. CASE VerificationGate(r) \/ Push(r) \/ Announce(r)
    BY <1>2, <1>6 DEF VerificationGate, Push, Announce
<1>7. CASE Plan(r)
  <2>1. CASE UNCHANGED plan
    BY <1>2, <1>7, <2>1 DEF Plan
  <2>2. CASE plan' = TRUE
    <3>1. UNCHANGED <<state, approvals, prRow, githubPr>> /\ Consent' = Consent
      BY <1>7 DEF Plan, Consent
    <3>2. D!MakePlan
      BY <2>2, <3>1 DEF D!MakePlan
    <3>3. QED
      BY <3>2 DEF D!Next
  <2>3. QED
    BY <1>7, <2>1, <2>2 DEF Plan
<1>8. CASE RequestApproval(r)
  <2>1. UNCHANGED <<state, plan, prRow, githubPr>> /\ Consent' = Consent
    BY <1>8 DEF RequestApproval, Consent
  <2>2. plan = TRUE
    BY <1>8 DEF RequestApproval, PlanInv, Planned, BaseInv, TypeOK, TaskTypeOK
  <2>3. approvals = <<>>
    BY <1>8 DEF RequestApproval, ApprovalInv, Early
  <2>4. (approvals # <<>>)' = TRUE
    BY <1>8, <2>3 DEF RequestApproval, BaseInv, TypeOK, TaskTypeOK
  <2>5. D!AskForApproval
    BY <2>1, <2>2, <2>3, <2>4 DEF D!AskForApproval
  <2>6. QED
    BY <2>5 DEF D!Next
<1>9. CASE Code(r) \/ FixCode(r) \/ OpenPullRequest(r)
  <2> USE DEF Code, FixCode, OpenPullRequest, MayOpenPullRequest
  <2>1. CASE UNCHANGED githubPr
    BY <1>2, <1>9, <2>1
  <2>2. CASE ~githubPr /\ githubPr' = TRUE
    <3>1. UNCHANGED <<state, plan, approvals, prRow>> /\ Consent' = Consent
      BY <1>9 DEF Consent
    <3>2. plan
      BY <1>9 DEF PlanInv, Planned, ImplementationPCs
    <3>3. ~AutoApprovePlans => Consent
      BY <1>9 DEF ConsentInv, Implementing, ImplementationPCs
    <3>4. D!OpenPullRequest
      BY <2>2, <3>1, <3>2, <3>3 DEF D!OpenPullRequest
    <3>5. QED
      BY <3>4 DEF D!Next
  <2>3. githubPr \in BOOLEAN /\ githubPr' \in {githubPr, TRUE}
    BY <1>9 DEF BaseInv, TypeOK, TaskTypeOK
  <2>4. QED
    BY <2>1, <2>2, <2>3
<1>10. CASE RecordPullRequest(r)
  <2>1. CASE Throw(r)
    BY <1>2, <1>10, <2>1 DEF RecordPullRequest, Throw
  <2>2. CASE ~prRow /\ prRow' = TRUE /\ UNCHANGED <<state, plan, approvals, githubPr>> /\ OnlyRunner
    <3>1. Consent' = Consent
      BY <2>2 DEF Consent
    <3>2. githubPr
      BY <1>10 DEF RecordPullRequest, PullRequestInv
    <3>3. D!RecordPullRequest
      BY <2>2, <3>1, <3>2 DEF D!RecordPullRequest
    <3>4. QED
      BY <3>3 DEF D!Next
  <2>3. QED
    BY <1>10, <2>1, <2>2 DEF RecordPullRequest
<1>11. QED
    BY <1>3, <1>4, <1>5, <1>6, <1>7, <1>8, <1>9, <1>10 DEF RunStep

\* Decide requests give consent or leave it; the others never speak of it.
LEMMA RequestImplementsDelivery ==
  ASSUME IInv, IInv', NEW d \in Deciders, DecideStep(d)
  PROVE  [D!Next]_(D!vars)
<1> USE DEF IInv, taskVars
<1>1. UNCHANGED <<state, plan, prRow, githubPr>> /\ (approvals # <<>>)' = (approvals # <<>>)
  <2>1. CASE DecideFind(d) \/ DecideEnqueue(d)
    BY <2>1 DEF DecideFind, DecideEnqueue
  <2>2. CASE DecideUpdate(d)
    <3>1. target[d] \in 1..Len(approvals) /\ approvals \in Seq({"pending", "approved", "denied"})
      BY <2>2 DEF DecideUpdate, BaseInv, SlotInv, TypeOK, TaskTypeOK
    <3>2. Len(approvals') = Len(approvals) /\ Len(approvals) # 0
      BY <2>2, <3>1 DEF DecideUpdate
    <3>3. approvals # <<>> /\ approvals' # <<>>
      BY <3>2
    <3>4. QED
      BY <2>2, <3>3 DEF DecideUpdate
  <2>3. QED
    BY <2>1, <2>2 DEF DecideStep
<1>2. CASE Consent' = Consent
    BY <1>1, <1>2 DEF D!vars
<1>3. CASE Consent' # Consent
  <2>1. DecideUpdate(d)
    <3>1. ~DecideFind(d)
      BY <1>3 DEF DecideFind, Consent, BaseInv, TypeOK, RequestTypeOK
    <3>2. ~DecideEnqueue(d)
      BY <1>3 DEF DecideEnqueue, Consent, BaseInv, TypeOK, RequestTypeOK
    <3>3. QED
      BY <3>1, <3>2 DEF DecideStep
  <2>2. approvals # <<>>
    <3>1. target[d] \in 1..Len(approvals)
      BY <2>1 DEF DecideUpdate, BaseInv, SlotInv
    <3>2. QED
      BY <3>1
  <2>3. Consent => Consent'
    BY <2>1 DEF DecideUpdate, Consent, BaseInv, TypeOK, RequestTypeOK
  <2>4. Consent' = TRUE
    BY <1>3, <2>3 DEF Consent
  <2>5. D!Approve
    BY <1>1, <2>2, <2>4 DEF D!Approve
  <2>6. QED
    BY <2>5 DEF D!Next
<1>4. QED
    BY <1>2, <1>3

\* Jobs, cancellations, crashes and boots write nothing but the state.
LEMMA RestImplementsDelivery ==
  ASSUME IInv, IInv',
         \/ \E j \in Jobs : StartJob(j)
         \/ \E c \in Cancellers : CancelStep(c)
         \/ WorkerCrash \/ Boot \/ UNCHANGED vars
  PROVE  [D!Next]_(D!vars)
<1>1. UNCHANGED <<plan, approvals, prRow, githubPr, decide, decision>>
    BY DEF StartJob, CancelStep, CancelRead, CancelCheck, CancelWrite, CancelLog,
       WorkerCrash, Boot, vars, taskVars, requestVars, decideVars
<1>2. QED
    BY <1>1, StateStep DEF IInv

\* A request that dies with the API has given its consent, or never will.
LEMMA ApiCrashImplementsDelivery ==
  ASSUME IInv, ApiCrash
  PROVE  UNCHANGED D!vars
<1>1. UNCHANGED <<taskVars, decision>>
    BY DEF ApiCrash
<1>2. \A d \in Deciders : decide'[d] \in {"decided", "answered", "unsent"}
                            <=> decide[d] \in {"decided", "answered", "unsent"}
    BY DEF ApiCrash, IInv, BaseInv, TypeOK, RequestTypeOK
<1>3. Consent' = Consent
    BY <1>1, <1>2 DEF Consent
<1>4. QED
    BY <1>1, <1>3 DEF D!vars, taskVars

\* The worker, the API and every crash and race between them keep what Delivery
\* promises: one approval asked, consent before the pull request, one pull request
\* opened and recorded, and a review only of what is recorded.
THEOREM Refinement == Spec => ImplementsDelivery
<1>1. Init => D!Init
  <2> SUFFICES ASSUME Init PROVE D!Init
    OBVIOUS
  <2>1. Consent = FALSE
    BY DEF Init, Consent
  <2>2. QED
    BY <2>1 DEF Init, NoTask, D!Init
<1>2. IInv /\ IInv' /\ [Next]_vars => [D!Next]_(D!vars)
  <2> SUFFICES ASSUME IInv, IInv', [Next]_vars PROVE [D!Next]_(D!vars)
    OBVIOUS
  <2>1. CASE \E r \in Runners : RunStep(r) \/ Fault(r)
    BY <2>1, RunImplementsDelivery
  <2>2. CASE \E d \in Deciders : DecideStep(d)
    BY <2>2, RequestImplementsDelivery
  <2>3. CASE ApiCrash
    BY <2>3, ApiCrashImplementsDelivery
  <2>4. CASE ~(\/ \E r \in Runners : RunStep(r) \/ Fault(r)
               \/ \E d \in Deciders : DecideStep(d)
               \/ ApiCrash)
    BY <2>4, RestImplementsDelivery DEF Next
  <2>5. QED
    BY <2>1, <2>2, <2>3, <2>4
<1>3. QED
    BY <1>1, <1>2, Invariance, PTL DEF Spec, ImplementsDelivery, D!Spec
=============================================================================
