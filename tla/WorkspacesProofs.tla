-------------------------- MODULE WorkspacesProofs --------------------------
(***************************************************************************)
(* Workspaces are cleaned up, the task's branch holds the work of one run, *)
(* and the recorded pull request holds what was tested, for any number of  *)
(* runs, edits, fix rounds and failures.                                   *)
(***************************************************************************)
EXTENDS Workspaces, TLAPS

Creating == {"start", "clone", "container", "boot"}
Removing == {"removeContainer", "removeDirectory"}

-----------------------------------------------------------------------------
(* Types                                                                   *)

LEMMA TypeInit ==
    ASSUME Init PROVE TypeOK
<1>1. USE WorkspacesAssumption DEF Init, TypeOK, Branches, Edits, InTry
<1>2. phase \in [Runs -> {"planner", "implementation"}] /\ pc \in [Runs -> {"start"}]
      OBVIOUS
<1>3. commits \in [Runs -> [Branches -> SUBSET Edits]]
      OBVIOUS
<1>4. dirty \in [Runs -> SUBSET Edits] /\ tested \in [Runs -> SUBSET Edits]
      OBVIOUS
<1>5. fixes \in [Runs -> 0..MaxFixAttempts] /\ on \in [Runs -> Branches]
      OBVIOUS
<1>6. edits \in 0..MaxEdits /\ failures \in 0..MaxFailures
      OBVIOUS
<1>7. QED BY <1>2, <1>3, <1>4, <1>5, <1>6

\* A run goes to a step of the phase: what Goto() writes keeps its type.
LEMMA GotoType ==
    ASSUME TypeOK, NEW r \in Runs, NEW step, Goto(r, step),
           step \in InTry \cup {"clone", "container", "boot", "removeContainer",
                                "removeDirectory", "ended"}
    PROVE  /\ phase' = phase
           /\ pc' \in [Runs -> InTry \cup {"start", "clone", "container", "boot",
                                           "removeContainer", "removeDirectory", "ended"}]
BY DEF TypeOK, Goto

LEMMA TypeStep ==
    ASSUME TypeOK, [Next]_vars
    PROVE  TypeOK'
<1> USE DEF cloneVars, hubVars, counts
<1> SUFFICES ASSUME Next PROVE TypeOK'
    <2>1. CASE UNCHANGED vars BY <2>1 DEF vars, TypeOK
    <2>2. QED BY <2>1
<1>1. ASSUME NEW r \in Runs, Create(r) PROVE TypeOK'
    <2>1. CASE MakeDirectory(r)
          BY <2>1, GotoType DEF MakeDirectory, TypeOK
    <2>2. CASE Clone(r)
          BY <2>2, GotoType DEF Clone, TypeOK
    <2>3. CASE CreateContainer(r)
          BY <2>3, GotoType DEF CreateContainer, TypeOK
    <2>4. CASE StartContainer(r)
        <3>1. Goto(r, "plan") \/ Goto(r, "branch")
              BY <2>4 DEF StartContainer
        <3>2. QED BY <2>4, <3>1, GotoType DEF StartContainer, TypeOK, InTry
    <2>5. QED BY <1>1, <2>1, <2>2, <2>3, <2>4 DEF Create
<1>2. ASSUME NEW r \in Runs, HostStepFails(r) PROVE TypeOK'
      BY <1>2, GotoType, WorkspacesAssumption DEF HostStepFails, TypeOK
<1>3. ASSUME NEW r \in Runs, Implement(r) PROVE TypeOK'
    <2>1. CASE CreateTaskBranch(r)
        <3>1. commits' \in [Runs -> [Branches -> SUBSET Edits]] /\ on' \in [Runs -> Branches]
              BY <2>1 DEF CreateTaskBranch, BaseWork, TypeOK, Branches
        <3>2. Goto(r, "code")
              BY <2>1 DEF CreateTaskBranch
        <3>3. QED BY <2>1, <3>1, <3>2, GotoType DEF CreateTaskBranch, TypeOK, InTry
    <2>2. CASE WriteFile(r)
        <3>1. edits' \in 0..MaxEdits /\ edits' \in Edits
              BY <2>2, WorkspacesAssumption DEF WriteFile, TypeOK, Edits
        <3>2. dirty' \in [Runs -> SUBSET Edits]
              BY <2>2, <3>1 DEF WriteFile, TypeOK
        <3>3. QED BY <2>2, <3>1, <3>2 DEF WriteFile, TypeOK
    <2>3. CASE Commit(r)
        <3>1. PICK staged \in SUBSET dirty[r] :
                  /\ commits' = [commits EXCEPT ![r][on[r]] = @ \cup staged]
                  /\ dirty' = [dirty EXCEPT ![r] = @ \ staged]
              BY <2>3 DEF Commit
        <3>2. dirty' \in [Runs -> SUBSET Edits]
              BY <3>1 DEF TypeOK
        <3>3. commits' \in [Runs -> [Branches -> SUBSET Edits]]
              BY <3>1 DEF TypeOK
        <3>4. QED BY <2>3, <3>2, <3>3 DEF Commit, TypeOK
    <2>4. CASE SwitchBranch(r)
        <3>1. commits' \in [Runs -> [Branches -> SUBSET Edits]]
            <4>1. PICK b \in Branches :
                      \/ UNCHANGED commits
                      \/ commits' = [commits EXCEPT ![r][b] = commits[r][on[r]]]
                  BY <2>4 DEF SwitchBranch
            <4>2. commits[r][on[r]] \in SUBSET Edits
                  BY DEF TypeOK
            <4>3. [commits[r] EXCEPT ![b] = commits[r][on[r]]] \in [Branches -> SUBSET Edits]
                  BY <4>2 DEF TypeOK
            <4>4. QED BY <4>1, <4>3 DEF TypeOK
        <3>2. on' \in [Runs -> Branches]
              BY <2>4 DEF SwitchBranch, TypeOK
        <3>3. QED BY <2>4, <3>1, <3>2 DEF SwitchBranch, TypeOK
    <2>5. CASE ModelPushes(r)
          BY <2>5 DEF ModelPushes, Publish, TypeOK, Branches
    <2>6. CASE ModelOpensPullRequest(r)
          BY <2>6 DEF ModelOpensPullRequest, OpenPullRequest, TypeOK
    <2>7. CASE FinishCode(r)
          BY <2>7, GotoType DEF FinishCode, TypeOK, InTry
    <2>8. CASE GatePasses(r)
        <3>1. Files(r) \in SUBSET Edits
              BY DEF Files, TypeOK
        <3>2. tested' \in [Runs -> SUBSET Edits]
              BY <2>8, <3>1 DEF GatePasses, TypeOK
        <3>3. QED BY <2>8, <3>2, GotoType DEF GatePasses, AfterGate, TypeOK, InTry
    <2>9. CASE GateFails(r)
        <3>1. fixes' \in [Runs -> 0..MaxFixAttempts]
              BY <2>9, WorkspacesAssumption DEF GateFails, FixLeft, TypeOK
        <3>2. QED BY <2>9, <3>1, GotoType DEF GateFails, TypeOK, InTry
    <2>10. CASE Push(r)
          BY <2>10, GotoType DEF Push, Publish, TypeOK, Branches, InTry
    <2>11. CASE OpenPr(r)
          BY <2>11, GotoType DEF OpenPr, OpenPullRequest, TypeOK, InTry
    <2>12. CASE Record(r)
          BY <2>12, GotoType DEF Record, Cleanup, TypeOK
    <2>13. QED BY <1>3, <2>1, <2>2, <2>3, <2>4, <2>5, <2>6, <2>7, <2>8, <2>9, <2>10, <2>11, <2>12
               DEF Implement, Tool
<1>4. ASSUME NEW r \in Runs, Leave(r) PROVE TypeOK'
      BY <1>4, GotoType DEF Leave, Cleanup, TypeOK
<1>5. ASSUME NEW r \in Runs, Destroy(r) PROVE TypeOK'
    <2>1. CASE RemoveContainer(r)
          BY <2>1, GotoType DEF RemoveContainer, TypeOK
    <2>2. CASE RemoveDirectory(r)
          BY <2>2, GotoType DEF RemoveDirectory, TypeOK
    <2>3. QED BY <1>5, <2>1, <2>2 DEF Destroy
<1>6. ASSUME Crash PROVE TypeOK'
    <2>1. pc' \in [Runs -> {"start", "ended"}]
          BY <1>6 DEF Crash
    <2>2. QED BY <1>6, <2>1, WorkspacesAssumption DEF Crash, TypeOK
<1>7. QED BY <1>1, <1>2, <1>3, <1>4, <1>5, <1>6 DEF Next

\* Type correctness, for every value of the constants.
THEOREM TypeCorrect == Spec => []TypeOK
<1>1. Init => TypeOK
      BY TypeInit
<1>2. TypeOK /\ [Next]_vars => TypeOK'
      BY TypeStep
<1>3. QED BY <1>1, <1>2, PTL DEF Spec

-----------------------------------------------------------------------------
(* The host: what exists follows from the run's step                       *)

HostInv ==
    /\ container \subseteq directory
    /\ \A r \in Runs :
          /\ pc[r] = "start" => r \notin directory
          /\ pc[r] \in {"clone", "container"} => r \in directory /\ r \notin container
          /\ pc[r] \in InTry \cup {"boot", "removeContainer"} => r \in directory
          /\ pc[r] = "removeDirectory" => r \notin container
          /\ pc[r] = "ended" /\ r \notin kept => r \notin directory

LEMMA HostInit ==
    ASSUME Init PROVE HostInv
BY DEF Init, HostInv, InTry

\* A step in the try block leaves the host alone.
LEMMA HostUntouched ==
    ASSUME TypeOK, HostInv, NEW r \in Runs, pc[r] \in InTry,
           UNCHANGED <<directory, container, kept>>,
           NEW step \in InTry \cup {"removeContainer"}, Goto(r, step)
    PROVE  HostInv'
BY DEF TypeOK, HostInv, Goto, InTry

LEMMA HostStep ==
    ASSUME TypeOK, HostInv, [Next]_vars
    PROVE  HostInv'
<1> USE DEF cloneVars, hubVars, counts
<1> SUFFICES ASSUME Next PROVE HostInv'
    <2>1. CASE UNCHANGED vars BY <2>1 DEF vars, HostInv
    <2>2. QED BY <2>1
<1>1. ASSUME NEW r \in Runs, Create(r) PROVE HostInv'
    <2>1. CASE MakeDirectory(r)
          BY <2>1 DEF MakeDirectory, Goto, TypeOK, HostInv, InTry
    <2>2. CASE Clone(r)
          BY <2>2 DEF Clone, Goto, TypeOK, HostInv, InTry
    <2>3. CASE CreateContainer(r)
          BY <2>3 DEF CreateContainer, Goto, TypeOK, HostInv, InTry
    <2>4. CASE StartContainer(r)
          BY <2>4 DEF StartContainer, Goto, TypeOK, HostInv, InTry
    <2>5. QED BY <1>1, <2>1, <2>2, <2>3, <2>4 DEF Create
<1>2. ASSUME NEW r \in Runs, HostStepFails(r) PROVE HostInv'
      BY <1>2 DEF HostStepFails, Goto, TypeOK, HostInv, InTry
<1>3. ASSUME NEW r \in Runs, Implement(r) PROVE HostInv'
    <2>1. ASSUME CreateTaskBranch(r) \/ FinishCode(r) \/ GatePasses(r) \/ GateFails(r)
                    \/ Push(r) \/ OpenPr(r) \/ Record(r)
          PROVE  HostInv'
        <3>1. /\ pc[r] \in InTry /\ UNCHANGED <<directory, container, kept>>
              /\ \E step \in InTry \cup {"removeContainer"} : Goto(r, step)
              BY <2>1 DEF CreateTaskBranch, FinishCode, GatePasses, GateFails, AfterGate, Push,
                          OpenPr, Record, Cleanup, InTry
        <3>2. QED BY <3>1, HostUntouched
    <2>2. ASSUME Tool(r) PROVE HostInv'
        <3>1. UNCHANGED <<pc, directory, container, kept>>
              BY <2>2 DEF Tool, WriteFile, Commit, SwitchBranch, ModelPushes, ModelOpensPullRequest
        <3>2. QED BY <3>1 DEF HostInv
    <2>3. QED BY <1>3, <2>1, <2>2 DEF Implement
<1>4. ASSUME NEW r \in Runs, Leave(r) PROVE HostInv'
      BY <1>4, HostUntouched DEF Leave, Cleanup
<1>5. ASSUME NEW r \in Runs, Destroy(r) PROVE HostInv'
    <2>1. CASE RemoveContainer(r)
          BY <2>1 DEF RemoveContainer, Goto, TypeOK, HostInv, InTry
    <2>2. CASE RemoveDirectory(r)
          BY <2>2 DEF RemoveDirectory, Goto, TypeOK, HostInv, InTry
    <2>3. QED BY <1>5, <2>1, <2>2 DEF Destroy
<1>6. ASSUME Crash PROVE HostInv'
      BY <1>6 DEF Crash, TypeOK, HostInv, InTry
<1>7. QED BY <1>1, <1>2, <1>3, <1>4, <1>5, <1>6 DEF Next

\* A phase that neither failed on the host nor died leaves no directory and no container.
THEOREM CleanedUp == Spec => []NothingLeftBehind
<1>1. Init => TypeOK /\ HostInv
      BY TypeInit, HostInit
<1>2. TypeOK /\ HostInv /\ [Next]_vars => TypeOK' /\ HostInv'
      BY TypeStep, HostStep
<1>3. HostInv => NothingLeftBehind
      BY DEF HostInv, NothingLeftBehind
<1>4. QED BY <1>1, <1>2, <1>3, PTL DEF Spec

\* No container outlives its directory, also when steps of destroying it fail.
THEOREM DirectoryOutlivesContainer == Spec => []ContainerHasDirectory
<1>1. Init => TypeOK /\ HostInv
      BY TypeInit, HostInit
<1>2. TypeOK /\ HostInv /\ [Next]_vars => TypeOK' /\ HostInv'
      BY TypeStep, HostStep
<1>3. HostInv => ContainerHasDirectory
      BY DEF HostInv, ContainerHasDirectory
<1>4. QED BY <1>1, <1>2, <1>3, PTL DEF Spec

-----------------------------------------------------------------------------
(* The clones: each run's work is its own                                  *)

Made(r) == commits[r]["task"] \cup commits[r]["other"] \cup dirty[r]

\* Until its branch is made, a clone has what it was cloned with.
FreshInv ==
    \A r \in Runs : pc[r] \in Creating \cup {"branch"} =>
        commits[r]["task"] = {} /\ commits[r]["other"] = {}

MadeInv ==
    /\ \A r \in Runs : Made(r) \subseteq 1..edits
    /\ \A r, q \in Runs : r # q => Made(r) \cap Made(q) = {}

\* What is on the remote is on one run's branch, and so on no other's.
AuthorInv == remote = {} \/ \E r \in Runs : remote \subseteq commits[r]["task"]

WorkInv == FreshInv /\ MadeInv /\ AuthorInv

LEMMA WorkInit ==
    ASSUME Init PROVE WorkInv
BY DEF Init, WorkInv, FreshInv, MadeInv, AuthorInv, Made, Branches

\* Steps that touch neither a clone nor the remote.
LEMMA WorkUntouched ==
    ASSUME TypeOK, WorkInv, UNCHANGED <<commits, dirty, edits, remote>>,
           \A r \in Runs : pc'[r] \in Creating \cup {"branch"} =>
                            pc[r] \in Creating \cup {"branch"}
    PROVE  WorkInv'
BY DEF WorkInv, FreshInv, MadeInv, AuthorInv, Made

\* A run that only rearranges what it made, and drops nothing from its branch.
LEMMA WorkRearranged ==
    ASSUME TypeOK, WorkInv, NEW r \in Runs, UNCHANGED <<edits, remote>>,
           \A q \in Runs \ {r} : commits'[q] = commits[q] /\ dirty'[q] = dirty[q],
           Made(r)' \subseteq Made(r), commits[r]["task"] \subseteq commits'[r]["task"]
    PROVE  MadeInv' /\ AuthorInv'
<1>1. \A q \in Runs : Made(q)' \subseteq Made(q)
      BY DEF Made
<1>2. MadeInv'
      BY <1>1 DEF WorkInv, MadeInv
<1>3. \A q \in Runs : commits[q]["task"] \subseteq commits'[q]["task"]
      OBVIOUS
<1>4. AuthorInv'
      BY <1>3 DEF WorkInv, AuthorInv
<1>5. QED BY <1>2, <1>4

LEMMA PublishWork ==
    ASSUME TypeOK, WorkInv, NEW r \in Runs, Publish(r), UNCHANGED <<commits, dirty, edits>>,
           \A q \in Runs : pc'[q] \in Creating \cup {"branch"} =>
                            pc[q] \in Creating \cup {"branch"}
    PROVE  WorkInv'
<1>1. FreshInv' /\ MadeInv'
      BY DEF WorkInv, FreshInv, MadeInv, Made
<1>2. AuthorInv'
      BY DEF AuthorInv, Publish
<1>3. QED BY <1>1, <1>2 DEF WorkInv

LEMMA WorkStep ==
    ASSUME TypeOK, WorkInv, [Next]_vars
    PROVE  WorkInv'
<1> USE DEF cloneVars, hubVars, counts
<1> SUFFICES ASSUME Next PROVE WorkInv'
    <2>1. CASE UNCHANGED vars BY <2>1, WorkUntouched DEF vars
    <2>2. QED BY <2>1
<1>1. ASSUME NEW r \in Runs, Create(r) PROVE WorkInv'
      BY <1>1, WorkUntouched DEF Create, MakeDirectory, Clone, CreateContainer, StartContainer,
                                 Goto, TypeOK, Creating
<1>2. ASSUME NEW r \in Runs, HostStepFails(r) PROVE WorkInv'
      BY <1>2, WorkUntouched DEF HostStepFails, Goto, TypeOK, Creating
<1>3. ASSUME NEW r \in Runs, Implement(r) PROVE WorkInv'
    <2>1. CASE CreateTaskBranch(r)
        <3>1. commits[r]["task"] = {} /\ commits[r]["other"] = {}
              BY <2>1 DEF CreateTaskBranch, WorkInv, FreshInv
        <3>2. /\ commits'[r]["task"] = {} /\ commits'[r]["other"] = {}
              /\ \A q \in Runs \ {r} : commits'[q] = commits[q] /\ dirty'[q] = dirty[q]
              BY <2>1, <3>1 DEF CreateTaskBranch, BaseWork, TypeOK, Branches
        <3>3. MadeInv' /\ AuthorInv'
              BY <2>1, <3>1, <3>2, WorkRearranged DEF CreateTaskBranch, Made
        <3>4. FreshInv'
              BY <2>1, <3>2 DEF CreateTaskBranch, Goto, TypeOK, WorkInv, FreshInv, Creating
        <3>5. QED BY <3>3, <3>4 DEF WorkInv
    <2>2. CASE WriteFile(r)
        <3>1. edits' = edits + 1 /\ edits \in Nat /\ UNCHANGED <<commits, pc, remote>>
              BY <2>2, WorkspacesAssumption DEF WriteFile, TypeOK
        <3>2. /\ Made(r)' = Made(r) \cup {edits + 1}
              /\ \A q \in Runs \ {r} : Made(q)' = Made(q)
              BY <2>2, <3>1 DEF WriteFile, TypeOK, Made
        <3>3. \A q \in Runs : Made(q) \subseteq 1..edits /\ edits + 1 \notin Made(q)
              BY <3>1 DEF WorkInv, MadeInv
        <3>4. 1..edits \subseteq 1..(edits + 1) /\ edits + 1 \in 1..(edits + 1)
              BY <3>1
        <3>5. \A q \in Runs : Made(q)' \subseteq 1..edits'
              BY <3>1, <3>2, <3>3, <3>4
        <3>6. ASSUME NEW q1 \in Runs, NEW q2 \in Runs, q1 # q2
              PROVE  Made(q1)' \cap Made(q2)' = {}
              BY <3>2, <3>3, <3>6 DEF WorkInv, MadeInv
        <3>7. MadeInv'
              BY <3>5, <3>6 DEF MadeInv
        <3>8. QED BY <3>1, <3>7 DEF WorkInv, FreshInv, AuthorInv
    <2>3. CASE Commit(r)
        <3>1. PICK staged \in SUBSET dirty[r] :
                  /\ commits' = [commits EXCEPT ![r][on[r]] = @ \cup staged]
                  /\ dirty' = [dirty EXCEPT ![r] = @ \ staged]
              BY <2>3 DEF Commit
        <3>2. \A q \in Runs \ {r} : commits'[q] = commits[q] /\ dirty'[q] = dirty[q]
              BY <3>1 DEF TypeOK
        <3>3. /\ \A b \in Branches : commits[r][b] \subseteq commits'[r][b]
              /\ \A b \in Branches : commits'[r][b] \subseteq commits[r][b] \cup dirty[r]
              /\ dirty'[r] \subseteq dirty[r]
              BY <3>1 DEF TypeOK
        <3>4. MadeInv' /\ AuthorInv'
              BY <2>3, <3>2, <3>3, WorkRearranged DEF Commit, Made, Branches
        <3>5. FreshInv'
              BY <2>3, <3>2 DEF Commit, WorkInv, FreshInv, Creating
        <3>6. QED BY <3>4, <3>5 DEF WorkInv
    <2>4. CASE SwitchBranch(r)
        <3>1. \/ UNCHANGED commits
              \/ commits' = [commits EXCEPT ![r]["other"] = commits[r][on[r]]]
              BY <2>4 DEF SwitchBranch
        <3>2. /\ \A q \in Runs \ {r} : commits'[q] = commits[q]
              /\ commits'[r]["task"] = commits[r]["task"]
              /\ commits'[r]["other"] \subseteq commits[r]["task"] \cup commits[r]["other"]
              BY <3>1 DEF TypeOK, Branches
        <3>3. MadeInv' /\ AuthorInv'
              BY <2>4, <3>2, WorkRearranged DEF SwitchBranch, Made
        <3>4. FreshInv'
              BY <2>4, <3>2 DEF SwitchBranch, WorkInv, FreshInv, Creating
        <3>5. QED BY <3>3, <3>4 DEF WorkInv
    <2>5. CASE ModelPushes(r)
          BY <2>5, PublishWork DEF ModelPushes
    <2>6. CASE ModelOpensPullRequest(r)
          BY <2>6, WorkUntouched DEF ModelOpensPullRequest
    <2>7. CASE Push(r)
          BY <2>7, PublishWork DEF Push, Goto, TypeOK, Creating
    <2>8. CASE FinishCode(r) \/ GatePasses(r) \/ GateFails(r) \/ OpenPr(r) \/ Record(r)
          BY <2>8, WorkUntouched DEF FinishCode, GatePasses, AfterGate, GateFails, OpenPr, Record,
                                     Cleanup, Goto, TypeOK, Creating
    <2>9. QED BY <1>3, <2>1, <2>2, <2>3, <2>4, <2>5, <2>6, <2>7, <2>8 DEF Implement, Tool
<1>4. ASSUME NEW r \in Runs, Leave(r) PROVE WorkInv'
      BY <1>4, WorkUntouched DEF Leave, Cleanup, Goto, TypeOK, Creating
<1>5. ASSUME NEW r \in Runs, Destroy(r) PROVE WorkInv'
      BY <1>5, WorkUntouched DEF Destroy, RemoveContainer, RemoveDirectory, Goto, TypeOK, Creating
<1>6. ASSUME Crash PROVE WorkInv'
      BY <1>6, WorkUntouched DEF Crash, Creating
<1>7. QED BY <1>1, <1>2, <1>3, <1>4, <1>5, <1>6 DEF Next

\* The task's branch on the remote never mixes the work of two runs.
THEOREM OneRunsWork == Spec => []WorkOfOneRun
<1>1. Init => TypeOK /\ WorkInv
      BY TypeInit, WorkInit
<1>2. TypeOK /\ WorkInv /\ [Next]_vars => TypeOK' /\ WorkInv'
      BY TypeStep, WorkStep
<1>3. WorkInv => WorkOfOneRun
    <2>1. SUFFICES ASSUME WorkInv, NEW r \in Runs, NEW q \in Runs, r # q
                   PROVE  remote \cap commits[r]["task"] = {} \/ remote \cap commits[q]["task"] = {}
          BY DEF WorkOfOneRun
    <2>2. \A a, b \in Runs : a # b => commits[a]["task"] \cap commits[b]["task"] = {}
          BY <2>1 DEF WorkInv, MadeInv, Made
    <2>3. CASE remote = {}
          BY <2>3
    <2>4. CASE \E a \in Runs : remote \subseteq commits[a]["task"]
        <3>1. PICK a \in Runs : remote \subseteq commits[a]["task"]
              BY <2>4
        <3>2. CASE a = r
              BY <2>1, <2>2, <3>1, <3>2
        <3>3. CASE a # r
              BY <2>2, <3>1, <3>3
        <3>4. QED BY <3>2, <3>3
    <2>5. QED BY <2>1, <2>3, <2>4 DEF WorkInv, AuthorInv
<1>4. QED BY <1>1, <1>2, <1>3, PTL DEF Spec

-----------------------------------------------------------------------------
(* The pull request on record                                              *)

\* Past its gate a run leaves its clone alone, and what it published stays: another run's
\* push would be no fast-forward.
PublishInv ==
    \A r \in Runs :
        /\ pc[r] \in {"push", "openPr", "record"} \/ recorded = r => tested[r] = Files(r)
        /\ (pc[r] \in {"openPr", "record"} \/ recorded = r) /\ commits[r]["task"] # {} =>
              remote = commits[r]["task"]
        /\ recorded = r => pc[r] \in Removing \cup {"ended"}

LEMMA PublishInit ==
    ASSUME Init PROVE PublishInv
BY WorkspacesAssumption DEF Init, PublishInv

\* Steps of a run that neither has passed its gate nor does so now.
LEMMA PublishUntouched ==
    ASSUME TypeOK, PublishInv, NEW r \in Runs, recorded # r, UNCHANGED <<remote, recorded>>,
           pc'[r] \notin {"push", "openPr", "record"},
           \A q \in Runs \ {r} : /\ pc'[q] = pc[q] /\ on'[q] = on[q] /\ dirty'[q] = dirty[q]
                                 /\ commits'[q] = commits[q] /\ tested'[q] = tested[q]
    PROVE  PublishInv'
BY DEF PublishInv, Files

\* A run that leaves or is cleaned up after; its clone stays what it was.
LEMMA PublishLeaving ==
    ASSUME TypeOK, PublishInv, UNCHANGED <<cloneVars, remote, recorded>>,
           \A r \in Runs : pc'[r] # pc[r] => pc'[r] \in Removing \cup {"ended"}
    PROVE  PublishInv'
BY DEF PublishInv, Files, cloneVars, Removing

\* A push drops nothing that others published: what they pushed is not in the pusher's clone.
LEMMA PushSparesOthers ==
    ASSUME TypeOK, WorkInv, PublishInv, NEW r \in Runs, Publish(r), NEW q \in Runs, q # r,
           pc[q] \in {"openPr", "record"} \/ recorded = q, commits[q]["task"] # {}
    PROVE  FALSE
<1>1. remote = commits[q]["task"]
      BY DEF PublishInv
<1>2. commits[q]["task"] \subseteq commits[r]["task"]
      BY <1>1 DEF Publish, FastForward
<1>3. commits[q]["task"] \cap commits[r]["task"] = {}
      BY DEF WorkInv, MadeInv, Made
<1>4. QED BY <1>2, <1>3

LEMMA PublishStep ==
    ASSUME TypeOK, WorkInv, PublishInv, [Next]_vars
    PROVE  PublishInv'
<1> USE DEF hubVars, counts
<1> SUFFICES ASSUME Next PROVE PublishInv'
    <2>1. CASE UNCHANGED vars BY <2>1, PublishLeaving DEF vars
    <2>2. QED BY <2>1
<1>1. ASSUME NEW r \in Runs, Create(r) PROVE PublishInv'
    <2>1. recorded # r
          BY <1>1 DEF Create, MakeDirectory, Clone, CreateContainer, StartContainer, PublishInv, Removing
    <2>2. QED BY <1>1, <2>1, PublishUntouched
                 DEF Create, MakeDirectory, Clone, CreateContainer, StartContainer, Goto, TypeOK, cloneVars
<1>2. ASSUME NEW r \in Runs, HostStepFails(r) PROVE PublishInv'
      BY <1>2, PublishLeaving DEF HostStepFails, Goto, TypeOK
<1>3. ASSUME NEW r \in Runs, Implement(r) PROVE PublishInv'
    <2>1. pc[r] \notin Removing \cup {"ended"} /\ recorded # r
          BY <1>3 DEF Implement, Tool, CreateTaskBranch, WriteFile, Commit, SwitchBranch, ModelPushes,
                      ModelOpensPullRequest, FinishCode, GatePasses, GateFails, Push, OpenPr, Record,
                      PublishInv, Removing
    <2>2. CASE CreateTaskBranch(r) \/ FinishCode(r) \/ GateFails(r)
          BY <2>1, <2>2, PublishUntouched
             DEF CreateTaskBranch, FinishCode, GateFails, Goto, TypeOK, cloneVars
    <2>3. CASE WriteFile(r) \/ Commit(r) \/ SwitchBranch(r)
          BY <2>1, <2>3, PublishUntouched DEF WriteFile, Commit, SwitchBranch, TypeOK
    <2>4. CASE ModelPushes(r)
        <3>1. UNCHANGED <<pc, cloneVars, recorded>> /\ pc[r] = "code" /\ Publish(r)
              BY <2>4 DEF ModelPushes
        <3>2. QED BY <2>1, <3>1, PushSparesOthers DEF PublishInv, Files, cloneVars
    <2>5. CASE ModelOpensPullRequest(r)
          BY <2>5, PublishLeaving DEF ModelOpensPullRequest
    <2>6. CASE GatePasses(r)
          BY <2>1, <2>6 DEF GatePasses, AfterGate, Goto, PublishInv, Files, TypeOK
    <2>7. CASE Push(r)
        <3>1. /\ UNCHANGED <<cloneVars, recorded>> /\ pc[r] = "push" /\ Publish(r)
              /\ pc' = [pc EXCEPT ![r] = "openPr"] /\ remote' = commits[r]["task"]
              BY <2>7 DEF Push, Publish, Goto
        <3>2. QED BY <2>1, <3>1, PushSparesOthers DEF PublishInv, Files, TypeOK, cloneVars
    <2>8. CASE OpenPr(r)
          BY <2>1, <2>8 DEF OpenPr, Goto, PublishInv, Files, TypeOK, cloneVars
    <2>9. CASE Record(r)
          BY <2>1, <2>9, WorkspacesAssumption
             DEF Record, Cleanup, Goto, PublishInv, Files, TypeOK, cloneVars, Removing
    <2>10. QED BY <1>3, <2>2, <2>3, <2>4, <2>5, <2>6, <2>7, <2>8, <2>9 DEF Implement, Tool
<1>4. ASSUME NEW r \in Runs, Leave(r) PROVE PublishInv'
      BY <1>4, PublishLeaving DEF Leave, Cleanup, Goto, TypeOK, Removing
<1>5. ASSUME NEW r \in Runs, Destroy(r) PROVE PublishInv'
      BY <1>5, PublishLeaving DEF Destroy, RemoveContainer, RemoveDirectory, Goto, TypeOK, Removing
<1>6. ASSUME Crash PROVE PublishInv'
      BY <1>6, PublishLeaving DEF Crash
<1>7. QED BY <1>1, <1>2, <1>3, <1>4, <1>5, <1>6 DEF Next

\* The recorded pull request holds its run's commits, and they are what passed the gate.
THEOREM RecordIsTested == Spec => []RecordedWorkIsPublished
<1>1. Init => TypeOK /\ WorkInv /\ PublishInv
      BY TypeInit, WorkInit, PublishInit
<1>2. TypeOK /\ WorkInv /\ PublishInv /\ [Next]_vars => TypeOK' /\ WorkInv' /\ PublishInv'
      BY TypeStep, WorkStep, PublishStep
<1>3. PublishInv => RecordedWorkIsPublished
      BY DEF PublishInv, RecordedWorkIsPublished, Files
<1>4. QED BY <1>1, <1>2, <1>3, PTL DEF Spec

=============================================================================
