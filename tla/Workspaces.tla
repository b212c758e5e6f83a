----------------------------- MODULE Workspaces -----------------------------
(***************************************************************************)
(* The phases of one task with what they leave on the host, on the remote  *)
(* and at GitHub: each makes a directory, a clone and a container, works   *)
(* in them, and destroys them.  Phases of a task may run at the same time  *)
(* or after each other; all push the same branch.  The task's row is in    *)
(* TaskPipeline: here a transition it refuses is a run that leaves.        *)
(*                                                                         *)
(* A branch is the set of the edits its commits hold.  An edit is made in  *)
(* one clone and commits only add, so a push is a fast-forward iff what    *)
(* the remote branch has is part of what is pushed.                        *)
(***************************************************************************)
EXTENDS Naturals, FiniteSets

CONSTANTS
    Runs, Nobody,                \* calls of runPlannerPhase() and runImplementationPhase()
    MaxEdits, MaxFixAttempts,
    MaxFailures                  \* bounds failing host operations and worker crashes together

Edits == 1..MaxEdits

ASSUME WorkspacesAssumption ==
    /\ Nobody \notin Runs
    /\ MaxEdits \in Nat /\ MaxFixAttempts \in Nat /\ MaxFailures \in Nat

VARIABLES
    phase, pc,    \* of each run: which phase it is, its next step
    directory,    \* runs with a directory on the host
    container,    \* runs with a container
    on,           \* branch checked out: "task", or "other" for the base and any other
    commits,      \* commits of each branch of a clone
    dirty,        \* edits of a clone not yet committed
    tested,       \* what the clone held when the verification gate last passed
    fixes,
    remote,       \* the task's branch on the remote
    pr,           \* an open pull request for it on GitHub
    recorded,     \* the run that wrote the pull_requests row
    edits, failures,
    kept          \* runs of which a step of creating or destroying failed, or the worker died

cloneVars == <<on, commits, dirty, tested, fixes>>
hubVars   == <<remote, pr, recorded>>
counts    == <<edits, failures>>
vars == <<phase, pc, directory, container, cloneVars, hubVars, counts, kept>>

Branches == {"task", "other"}

Init ==
    /\ phase \in [Runs -> {"planner", "implementation"}]
    /\ pc = [r \in Runs |-> "start"] /\ directory = {} /\ container = {}
    /\ on = [r \in Runs |-> "other"] /\ commits = [r \in Runs |-> [b \in Branches |-> {}]]
    /\ dirty = [r \in Runs |-> {}] /\ tested = [r \in Runs |-> {}]
    /\ fixes = [r \in Runs |-> 0]
    /\ remote = {} /\ pr = FALSE /\ recorded = Nobody
    /\ edits = 0 /\ failures = 0 /\ kept = {}

Goto(r, step) == pc' = [pc EXCEPT ![r] = step] /\ UNCHANGED phase

-----------------------------------------------------------------------------
(* createTaskWorkspace()                                                   *)

MakeDirectory(r) ==
    /\ pc[r] = "start" /\ Goto(r, "clone")
    /\ directory' = directory \cup {r}
    /\ UNCHANGED <<container, cloneVars, hubVars, counts, kept>>

\* GitClient.clone(), its setIdentity() included
Clone(r) ==
    /\ pc[r] = "clone" /\ Goto(r, "container")
    /\ UNCHANGED <<directory, container, cloneVars, hubVars, counts, kept>>

CreateContainer(r) ==
    /\ pc[r] = "container" /\ Goto(r, "boot")
    /\ container' = container \cup {r}
    /\ UNCHANGED <<directory, cloneVars, hubVars, counts, kept>>

StartContainer(r) ==
    /\ pc[r] = "boot" /\ Goto(r, IF phase[r] = "planner" THEN "plan" ELSE "branch")
    /\ UNCHANGED <<directory, container, cloneVars, hubVars, counts, kept>>

\* A step outside the phase's try block rejects: the call ends and what exists, stays.
HostStepFails(r) ==
    /\ pc[r] \in {"start", "clone", "container", "boot", "removeContainer", "removeDirectory"}
    /\ failures < MaxFailures /\ failures' = failures + 1
    /\ Goto(r, "ended") /\ kept' = kept \cup {r}
    /\ UNCHANGED <<directory, container, cloneVars, hubVars, edits>>

-----------------------------------------------------------------------------
(* The role-runs, inside the phase's try block                             *)

InTry == {"plan", "branch", "code", "gate", "push", "openPr", "record"}

CleanupDirectoryFirst(r) == Goto(r, "removeDirectory")   \* mutant: the steps in the other order
NoCleanup(r) == Goto(r, "ended")                         \* mutant: no finally
Cleanup(r) == Goto(r, "removeContainer")

\* PlannerRunner.run() comes back; or a run is blocked, rejects, or has nothing left to do.
Leave(r) ==
    /\ pc[r] \in InTry /\ Cleanup(r)
    /\ UNCHANGED <<directory, container, cloneVars, hubVars, counts, kept>>

RemoteWork(r) == remote                  \* mutant: go on from what is on the remote
BaseWork(r) == commits[r]["other"]

CreateTaskBranch(r) ==
    /\ pc[r] = "branch" /\ Goto(r, "code")
    /\ on' = [on EXCEPT ![r] = "task"]
    /\ commits' = [commits EXCEPT ![r]["task"] = BaseWork(r)]
    /\ UNCHANGED <<directory, container, dirty, tested, fixes, hubVars, counts, kept>>

\* repo.write_file
WriteFile(r) ==
    /\ pc[r] = "code" /\ edits < MaxEdits /\ edits' = edits + 1
    /\ dirty' = [dirty EXCEPT ![r] = @ \cup {edits'}]
    /\ UNCHANGED <<phase, pc, directory, container, on, commits, tested, fixes, hubVars,
                   failures, kept>>

\* git.commit, of all files or of those it names
Commit(r) ==
    /\ pc[r] = "code"
    /\ \E staged \in SUBSET dirty[r] :
          /\ staged # {}
          /\ commits' = [commits EXCEPT ![r][on[r]] = @ \cup staged]
          /\ dirty' = [dirty EXCEPT ![r] = @ \ staged]
    /\ UNCHANGED <<phase, pc, directory, container, on, tested, fixes, hubVars, counts, kept>>

\* git.checkout, which keeps what is not committed; or git.create_branch from where the clone is
SwitchBranch(r) ==
    /\ pc[r] = "code"
    /\ \E b \in Branches :
          /\ on' = [on EXCEPT ![r] = b]
          /\ \/ UNCHANGED commits
             \/ b = "other" /\ commits' = [commits EXCEPT ![r][b] = commits[r][on[r]]]
    /\ UNCHANGED <<phase, pc, directory, container, dirty, tested, fixes, hubVars, counts, kept>>

\* git.push of a branch by its plain name.  The gate asks for an approval of a push with
\* `force`, and denyWithoutHuman() gives none; a refspec in place of the name, which git
\* takes and the gate does not look for, is outside this model.
FastForward(r) == remote \subseteq commits[r]["task"]
Publish(r) == FastForward(r) /\ remote' = commits[r]["task"]

\* GitHub takes one pull request for a branch, and none without a commit.
OpenPullRequest == ~pr /\ remote # {} /\ pr' = TRUE

\* The model may push and open a pull request itself.
ModelPushes(r) ==
    /\ pc[r] = "code" /\ Publish(r)
    /\ UNCHANGED <<phase, pc, directory, container, cloneVars, pr, recorded, counts, kept>>

ModelOpensPullRequest(r) ==
    /\ pc[r] = "code" /\ OpenPullRequest
    /\ UNCHANGED <<phase, pc, directory, container, cloneVars, remote, recorded, counts, kept>>

FinishCode(r) ==
    /\ pc[r] = "code" /\ Goto(r, "gate")
    /\ UNCHANGED <<directory, container, cloneVars, hubVars, counts, kept>>

\* The gate looks at the files, committed or not.
Files(r) == commits[r][on[r]] \cup dirty[r]

AfterGateOpen == "openPr"                \* mutant: the pull request without the push
AfterGate == "push"

GatePasses(r) ==
    /\ pc[r] = "gate" /\ Goto(r, AfterGate)
    /\ tested' = [tested EXCEPT ![r] = Files(r)]
    /\ UNCHANGED <<directory, container, on, commits, dirty, fixes, hubVars, counts, kept>>

OneFixMore(r) == fixes[r] <= MaxFixAttempts      \* mutant: off by one
FixLeft(r) == fixes[r] < MaxFixAttempts

GateFails(r) ==
    /\ pc[r] = "gate" /\ FixLeft(r) /\ Goto(r, "code")
    /\ fixes' = [fixes EXCEPT ![r] = @ + 1]
    /\ UNCHANGED <<directory, container, on, commits, dirty, tested, hubVars, counts, kept>>

Push(r) ==
    /\ pc[r] = "push" /\ Publish(r) /\ Goto(r, "openPr")
    /\ UNCHANGED <<directory, container, cloneVars, pr, recorded, counts, kept>>

\* A call GitHub carries out and rejects all the same is this and then Leave.
OpenPr(r) ==
    /\ pc[r] = "openPr" /\ OpenPullRequest /\ Goto(r, "record")
    /\ UNCHANGED <<directory, container, cloneVars, remote, recorded, counts, kept>>

\* pullRequests.create(); the rest of the run changes nothing here.
Record(r) ==
    /\ pc[r] = "record" /\ recorded = Nobody /\ recorded' = r /\ Cleanup(r)
    /\ UNCHANGED <<directory, container, cloneVars, remote, pr, counts, kept>>

-----------------------------------------------------------------------------
(* destroy()                                                               *)

RemoveContainer(r) ==
    /\ pc[r] = "removeContainer" /\ Goto(r, "removeDirectory")
    /\ container' = container \ {r}
    /\ UNCHANGED <<directory, cloneVars, hubVars, counts, kept>>

RemoveDirectory(r) ==
    /\ pc[r] = "removeDirectory" /\ Goto(r, "ended")
    /\ directory' = directory \ {r}
    /\ UNCHANGED <<container, cloneVars, hubVars, counts, kept>>

\* The worker dies; Docker and the host's file system do not.
Crash ==
    /\ failures < MaxFailures /\ failures' = failures + 1
    /\ pc' = [r \in Runs |-> IF pc[r] = "start" THEN "start" ELSE "ended"]
    /\ kept' = kept \cup {r \in Runs : pc[r] \notin {"start", "ended"}}
    /\ UNCHANGED <<phase, directory, container, cloneVars, hubVars, edits>>

-----------------------------------------------------------------------------
Create(r) == MakeDirectory(r) \/ Clone(r) \/ CreateContainer(r) \/ StartContainer(r)
Destroy(r) == RemoveContainer(r) \/ RemoveDirectory(r)

Tool(r) ==
    WriteFile(r) \/ Commit(r) \/ SwitchBranch(r) \/ ModelPushes(r) \/ ModelOpensPullRequest(r)

Implement(r) ==
    \/ CreateTaskBranch(r) \/ Tool(r) \/ FinishCode(r) \/ GatePasses(r) \/ GateFails(r)
    \/ Push(r) \/ OpenPr(r) \/ Record(r)

Next ==
    \/ \E r \in Runs : Create(r) \/ HostStepFails(r) \/ Implement(r) \/ Leave(r) \/ Destroy(r)
    \/ Crash

Spec == Init /\ [][Next]_vars

-----------------------------------------------------------------------------
(* Properties                                                              *)

\* Type correctness of the runs, the clones, the remote and the counters.
TypeOK ==
    /\ pc \in [Runs -> InTry \cup {"start", "clone", "container", "boot",
                                   "removeContainer", "removeDirectory", "ended"}]
    /\ phase \in [Runs -> {"planner", "implementation"}]
    /\ directory \subseteq Runs /\ container \subseteq Runs /\ kept \subseteq Runs
    /\ on \in [Runs -> Branches]
    /\ commits \in [Runs -> [Branches -> SUBSET Edits]]
    /\ dirty \in [Runs -> SUBSET Edits] /\ tested \in [Runs -> SUBSET Edits]
    /\ fixes \in [Runs -> 0..MaxFixAttempts]
    /\ remote \subseteq Edits /\ pr \in BOOLEAN /\ recorded \in Runs \cup {Nobody}
    /\ edits \in 0..MaxEdits /\ failures \in 0..MaxFailures

\* A phase whose workspace was made and unmade without a failure leaves nothing on the host,
\* however its role-run ended: destroy() is in a finally block.
NothingLeftBehind ==
    \A r \in Runs : pc[r] = "ended" /\ r \notin kept => r \notin directory \cup container

\* A container never outlives the directory it mounts: destroy() removes it first.
ContainerHasDirectory == container \subseteq directory

\* The task's branch on the remote never mixes the work of two runs, whoever pushes and in
\* whatever order: every run branches off the base in its own clone, and a run whose branch
\* lacks what another has published cannot push.
WorkOfOneRun ==
    \A r, q \in Runs :
        r # q => remote \cap commits[r]["task"] = {} \/ remote \cap commits[q]["task"] = {}

\* The pull request on record holds the commits of the run that recorded it and no others,
\* and they are what passed its gate, provided the run had committed all on its branch.  A run
\* without a commit is no match: its push makes an empty branch, another run may fill it, and
\* the first then opens and records a pull request for work it never saw.
RecordedWorkIsPublished ==
    \A r \in Runs : recorded = r /\ commits[r]["task"] # {} =>
        /\ remote = commits[r]["task"]
        /\ on[r] = "task" /\ dirty[r] = {} => remote = tested[r]
=============================================================================
