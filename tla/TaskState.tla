----------------------------- MODULE TaskState -----------------------------
(***************************************************************************)
(* The task state graph of packages/agent-core/src/taskStateMachine.ts:    *)
(* which state of an agent_tasks row may follow which.  Pure operators; the *)
(* modules that move a task EXTEND this one.                                *)
(***************************************************************************)

\* The states of a task that does not end by itself: the happy path, in order.
HappyStates ==
    {"CREATED", "ANALYZING", "PLANNED", "AWAITING_APPROVAL", "IMPLEMENTING",
     "TESTING", "FIXING", "SELF_REVIEW", "PR_CREATED", "AWAITING_HUMAN_REVIEW"}

TerminalStates == {"COMPLETED", "CANCELLED", "FAILED"}

\* Exits open from every state that is not terminal.
AlwaysFromActive == {"PAUSED", "CANCELLED", "FAILED", "BLOCKED"}

TaskStates == HappyStates \cup TerminalStates \cup AlwaysFromActive

HappyPath(s) ==
    CASE s = "CREATED"               -> {"ANALYZING"}
      [] s = "ANALYZING"             -> {"PLANNED"}
      [] s = "PLANNED"               -> {"AWAITING_APPROVAL"}
      [] s = "AWAITING_APPROVAL"     -> {"IMPLEMENTING"}
      [] s = "IMPLEMENTING"          -> {"TESTING"}
      [] s = "TESTING"               -> {"FIXING", "SELF_REVIEW"}
      [] s = "FIXING"                -> {"TESTING"}
      [] s = "SELF_REVIEW"           -> {"PR_CREATED"}
      [] s = "PR_CREATED"            -> {"AWAITING_HUMAN_REVIEW"}
      [] s = "AWAITING_HUMAN_REVIEW" -> {"COMPLETED"}
      [] OTHER                       -> {}

CanTransition(from, to) ==
    /\ from # to
    /\ from \notin TerminalStates
    /\ to \in AlwaysFromActive \cup HappyPath(from)

(* States whose work a worker crash loses: only a pull_requests row tells  *)
(* whether such a task is already done.                                     *)
InProgress == {"IMPLEMENTING", "TESTING", "FIXING", "SELF_REVIEW", "PR_CREATED"}

\* States the worker looks for when it boots.  CREATED is not among them.
NeedsAttentionOnBoot ==
    {"ANALYZING", "PLANNED", "AWAITING_APPROVAL"} \cup InProgress
=============================================================================
