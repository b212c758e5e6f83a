---------------------------- MODULE MCAgentLoop ----------------------------
(***************************************************************************)
(* AgentLoop with turns of up to MaxTurn calls, of each kind the gate and  *)
(* the registry tell apart.                                                *)
(***************************************************************************)
EXTENDS AgentLoop

CONSTANT MaxTurn

MCNames == ReadTools \cup WriteTools \cup {"shell.run"}

MCCalls == {[tool |-> "repo.read_file", input |-> "routine"],
            [tool |-> "repo.read_file", input |-> "invalid"],
            [tool |-> "git.diff", input |-> "unread"],
            [tool |-> "repo.write_file", input |-> "sensitive"],
            [tool |-> "git.commit", input |-> "routine"],
            [tool |-> "git.push", input |-> "routine"],
            [tool |-> "git.push", input |-> "protected"],
            [tool |-> "git.push", input |-> "force-protected"],
            [tool |-> "github.create_pr", input |-> "routine"],
            [tool |-> "shell.run_tests", input |-> "routine"],
            [tool |-> "shell.run", input |-> "routine"]}

MCTurnCalls == UNION {[1..n -> MCCalls] : n \in 0..MaxTurn}
=============================================================================
