------------------------------ MODULE ToolGate ------------------------------
(***************************************************************************)
(* Which tools a role is given, and what PermissionGate.classify() decides *)
(* about a call of one.  A call is a tool with the class of its input.     *)
(* The gate tests the words of an input: a path as it is written, before   *)
(* it is resolved, and a branch as a name in a list, before git reads it.  *)
(* So a class is what those tests find:                                    *)
(*   invalid    refused by the tool's schema                               *)
(*   routine    nothing the gate looks for                                 *)
(*   sensitive  a path that matches the sensitive patterns                 *)
(*   protected  the branch to push is in the list of protected ones        *)
(*   force, force-protected   a push with force, of such a branch          *)
(*   unread     nothing the gate looks for, in words that mean more to the *)
(*              tool: a path spelled in another way, a refspec for a       *)
(*              branch, an option for a revision                           *)
(* What the gate says of an unread input is about its words alone.         *)
(***************************************************************************)

RepoReadTools    == {"repo.search", "repo.read_file", "repo.list_files",
                     "repo.find_references", "repo.find_definition"}
RepoWriteTools   == {"repo.write_file"}
GitReadTools     == {"git.status", "git.diff", "git.log", "git.branch"}
GitWriteTools    == {"git.create_branch", "git.checkout", "git.commit", "git.push"}
ShellTools       == {"shell.run_tests", "shell.run_lint", "shell.run_typecheck",
                     "shell.run_build"}
GitHubReadTools  == {"github.get_repository", "github.get_pr", "github.get_pr_diff",
                     "github.get_pr_comments", "github.get_reviews"}
GitHubWriteTools == {"github.create_pr", "github.comment"}
JiraReadTools    == {"jira.get_issue", "jira.get_comments"}
JiraWriteTools   == {"jira.add_comment", "jira.update_issue", "jira.link_pr"}

ReadTools == RepoReadTools \cup GitReadTools \cup GitHubReadTools \cup JiraReadTools
WriteTools == RepoWriteTools \cup GitWriteTools \cup ShellTools
              \cup GitHubWriteTools \cup JiraWriteTools

Inputs == {"invalid", "routine", "sensitive", "protected", "force", "force-protected",
           "unread"}
Roles == {"planner", "implementation_agent"}

Registered(role) == IF role = "planner" THEN ReadTools ELSE ReadTools \cup WriteTools

\* Calls that may change the files of the clone.  git.diff hands its base to git as it is,
\* so with an unread one it is no read.
ChangesFiles(c) == \/ c.tool \in RepoWriteTools \cup ShellTools
                   \/ c.tool \in GitWriteTools /\ c.tool # "git.push"
                   \/ c.tool = "git.diff" /\ c.input = "unread"

-----------------------------------------------------------------------------
SafeTools == ReadTools \cup ShellTools \cup GitHubWriteTools \cup JiraWriteTools
             \cup {"git.checkout", "git.create_branch"}
ApprovalRequiredTools == {"github.submit_review"}

\* The patterns are tried on the path as it is written.
ClassifyRepoWriteFile(input) == IF input = "sensitive" THEN "approval_required" ELSE "safe"

\* Force is looked at before the branch is, and only as a flag of its own.
ClassifyPush(input) == CASE input \in {"force", "force-protected"} -> "approval_required"
                         [] input = "protected"                    -> "human_only"
                         [] OTHER                                  -> "safe"

\* shell.run and everything unrecognised need an approval.  Nothing passes
\* linesDeleted, so git.commit is always safe.
Classify(c) == CASE c.tool \in SafeTools                  -> "safe"
                 [] c.tool \in ApprovalRequiredTools      -> "approval_required"
                 [] c.tool = "repo.write_file"            -> ClassifyRepoWriteFile(c.input)
                 [] c.tool \in {"git.push", "github.push"} -> ClassifyPush(c.input)
                 [] c.tool = "git.commit"                 -> "safe"
                 [] OTHER                                 -> "approval_required"

\* What ToolRegistry.execute() does with a call before any await.
Verdict(role, c) == IF c.tool \notin Registered(role) THEN "unknown_tool"
                    ELSE IF c.input = "invalid" THEN "invalid_input"
                    ELSE Classify(c)
=============================================================================
