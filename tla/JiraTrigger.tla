---------------------------- MODULE JiraTrigger ----------------------------
(***************************************************************************)
(* Which changes of a Jira issue trigger work: evaluateJiraRelevance() of  *)
(* the webhook's payload.  What is known of a change c is the record       *)
(* Change[c]: the issue, the time in milliseconds, whether the issue was   *)
(* created, and its status, labels and assignee before and after.  The     *)
(* payload has those after it, and a changelog of those it has altered.    *)
(***************************************************************************)

CONSTANTS
    JiraChanges, Change,            \* the changes there are, and what they are
    OurIssues,                      \* issues of projects that have a repository
    TriggerStatus, TriggerLabel,    \* the repository's agentTriggerConfig, or the defaults
    AiAccount,                      \* aiAssigneeAccountId, or Nobody if it is not configured
    Nobody                          \* the assignee of an unassigned issue

\* The event's identity, which Jira does not give: the issue and the time.
SourceEventId(c) == <<Change[c].issue, Change[c].time>>

\* The changelog's items; an update that is no change of these fields has none of them.
Altered(c) == {f \in {"status", "labels", "assignee"} : Change[c].before[f] # Change[c].after[f]}

StatusReached(c) == "status" \in Altered(c) /\ Change[c].after.status = TriggerStatus

LabelAdded(c) ==
    "labels" \in Altered(c) /\ TriggerLabel \in Change[c].after.labels /\ TriggerLabel \notin Change[c].before.labels

AssignedToAi(c) ==
    AiAccount # Nobody /\ "assignee" \in Altered(c) /\ Change[c].after.assignee = AiAccount

Evaluate(c) ==
    IF Change[c].created THEN Change[c].after.status = TriggerStatus
                 ELSE StatusReached(c) \/ LabelAdded(c) \/ AssignedToAi(c)

\* Of an issue of no known repository, nothing is evaluated.
TriggersWork(c) == Change[c].issue \in OurIssues /\ Evaluate(c)

-----------------------------------------------------------------------------
(* What it is for, in terms of the issue instead of the changelog          *)

\* The conditions an issue with these fields meets.
Conditions(fields) ==
    {x \in {"status"}   : fields.status = TriggerStatus} \cup
    {x \in {"label"}    : TriggerLabel \in fields.labels} \cup
    {x \in {"assignee"} : fields.assignee = AiAccount /\ AiAccount # Nobody}

\* The change made the issue meet a condition that it did not meet before; of an issue that
\* is created, only the status counts.
EntersTrigger(c) ==
    IF Change[c].created THEN "status" \in Conditions(Change[c].after)
                 ELSE Conditions(Change[c].after) \ Conditions(Change[c].before) # {}
=============================================================================
