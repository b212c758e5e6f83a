----------------------------- MODULE AgentLoop -----------------------------
(***************************************************************************)
(* One role-run: AgentLoopRunner.run(), the tools it calls through         *)
(* ToolRegistry and executeAndRecordTool(), and the runs that follow in    *)
(* the Implementation Agent, which verifies the work and continues the     *)
(* same conversation to fix it.                                            *)
(*                                                                         *)
(* The conversation is its last message; that each message may follow the  *)
(* one before it is then the legality of the whole.  The model's turns are *)
(* arbitrary.                                                              *)
(***************************************************************************)
EXTENDS Naturals, Sequences, ToolGate

CONSTANTS
    MaxToolCalls, MaxFixAttempts,   \* options of the runners
    Names,                          \* tool names the model may come up with
    TurnCalls,                      \* the tool calls the model may make in one turn
    Answers                         \* what requestApproval() may answer

Call == [tool : Names, input : Inputs]

ASSUME LoopAssumption ==
    /\ MaxToolCalls \in Nat /\ MaxFixAttempts \in Nat
    /\ ReadTools \cup WriteTools \subseteq Names
    /\ TurnCalls \subseteq Seq(Call)
    /\ Answers \subseteq {"approved", "denied"} /\ Answers # {}

GateCall(name) == [tool |-> name, input |-> "routine"]
GateCalls == <<GateCall("shell.run_build"), GateCall("shell.run_lint"),
               GateCall("shell.run_typecheck"), GateCall("shell.run_tests")>>

VARIABLES
    role,
    pc,            \* the run's next step
    last,          \* the last message: who wrote it, its tool_use and tool_result blocks
    size,          \* tool_use blocks of the current turn
    count,         \* toolCallCount
    expired,       \* the deadline has passed
    mode, calls,   \* whose calls are being made, and those left
    answered,      \* tool_result blocks collected in this turn
    ok,            \* the outcome of the current call
    unrecorded,    \* calls begun that have no tool_calls row
    failures,      \* the verification gate has seen a failure
    passed,        \* (history) checks that passed on the files as the model left them
    fixes          \* fixAttempts

talkVars  == <<last, size, answered>>
boundVars == <<count, expired>>
callVars  == <<mode, calls, ok, unrecorded>>
gateVars  == <<failures, passed, fixes>>
vars == <<role, pc, talkVars, boundVars, callVars, gateVars>>

UserText == [from |-> "user", uses |-> 0, results |-> 0]

Init ==
    /\ role \in Roles
    /\ pc = "bounds" /\ last = UserText
    /\ size = 0 /\ answered = 0 /\ count = 0 /\ expired = FALSE
    /\ mode = "turn" /\ calls = <<>> /\ ok = FALSE /\ unrecorded = 0
    /\ failures = FALSE /\ passed = {} /\ fixes = 0

-----------------------------------------------------------------------------
(* AgentLoopRunner.run()                                                   *)

\* Time passes during the run.
Expire ==
    /\ pc \in {"bounds", "turn", "calls", "ask", "execute", "record"} /\ mode = "turn"
    /\ ~expired /\ expired' = TRUE
    /\ UNCHANGED <<role, pc, talkVars, count, callVars, gateVars>>

BoundPassed(n) == n > MaxToolCalls       \* mutant: >= became >
BoundReached(n) == n >= MaxToolCalls

CheckBounds ==
    /\ pc = "bounds"
    /\ pc' = IF BoundReached(count) \/ expired THEN "stopped" ELSE "turn"
    /\ UNCHANGED <<role, talkVars, boundVars, callVars, gateVars>>

\* llm.toolCall() answers with a turn.
Turn ==
    /\ pc = "turn"
    /\ \E seq \in TurnCalls :
         /\ last' = [from |-> "assistant", uses |-> Len(seq), results |-> 0]
         /\ size' = Len(seq) /\ calls' = seq /\ answered' = 0
         /\ pc' = IF seq # <<>> THEN "calls"
                  ELSE IF role = "planner" THEN "answer" ELSE "completed"
    /\ UNCHANGED <<role, boundVars, mode, ok, unrecorded, gateVars>>

\* All calls of the turn are made: their results are the next message.
EndTurn ==
    /\ pc = "calls" /\ mode = "turn" /\ calls = <<>>
    /\ last' = [from |-> "user", uses |-> 0, results |-> answered]
    /\ pc' = "bounds"
    /\ UNCHANGED <<role, size, answered, boundVars, callVars, gateVars>>

\* finalize(): the prompt for the structured answer, and the answer or none.
AskForAnswer ==
    /\ pc = "answer" /\ last' = UserText
    /\ pc' = "answering"
    /\ UNCHANGED <<role, size, answered, boundVars, callVars, gateVars>>

Answer ==
    /\ pc = "answering"
    /\ pc' \in {"completed", "no_answer"}
    /\ UNCHANGED <<role, talkVars, boundVars, callVars, gateVars>>

-----------------------------------------------------------------------------
(* One tool call                                                           *)

CountNothing(n) == n                     \* mutant
CountCall(n) == n + 1

\* Up to the first await of the call: counted, looked up, validated, classified.
BeginCall ==
    /\ pc = "calls" /\ calls # <<>>
    /\ count' = IF mode = "turn" THEN CountCall(count) ELSE count
    /\ unrecorded' = unrecorded + 1
    /\ ok' = FALSE
    /\ LET v == Verdict(role, Head(calls)) IN
         pc' = CASE v = "safe"              -> "execute"
                 [] v = "approval_required" -> "ask"
                 [] OTHER                   -> "record"
    /\ UNCHANGED <<role, talkVars, expired, mode, calls, gateVars>>

\* ctx.requestApproval()
AskApproval ==
    /\ pc = "ask"
    /\ \E a \in Answers : pc' = IF a = "denied" THEN "record" ELSE "execute"
    /\ UNCHANGED <<role, talkVars, boundVars, callVars, gateVars>>

\* tool.execute() answers or throws, which is caught; either may follow its effect.
Execute ==
    /\ pc = "execute"
    /\ ok' \in BOOLEAN
    /\ passed' = IF mode = "turn" /\ ChangesFiles(Head(calls)) THEN {} ELSE passed
    /\ pc' = "record"
    /\ UNCHANGED <<role, talkVars, boundVars, mode, calls, unrecorded, failures, fixes>>

\* mutant: failed calls are not recorded
WriteRowIfOk == unrecorded' = IF ok THEN unrecorded - 1 ELSE unrecorded
WriteRow == unrecorded' = unrecorded - 1

AnswerIfOk(n) == IF ok THEN n + 1 ELSE n \* mutant: no tool_result for a failed call
AnswerCall(n) == n + 1

FailsNow(before, failed) == failed       \* mutant: each check replaces the verdict
Fails(before, failed) == before \/ failed

\* What runVerificationGate() makes of one check.
Judge(check, good) ==
    /\ failures' = Fails(failures, ~good)
    /\ passed' = IF good THEN passed \cup {check} ELSE passed \ {check}

\* toolCalls.createCompleted(), and the tool_result block or the gate's judgement: a
\* check that ran may have exited with an error.
Record ==
    /\ pc = "record"
    /\ WriteRow
    /\ calls' = Tail(calls)
    /\ \/ /\ mode = "turn" /\ answered' = AnswerCall(answered)
          /\ UNCHANGED <<failures, passed>>
       \/ /\ mode = "gate" /\ \E good \in {ok, FALSE} : Judge(Head(calls).tool, good)
          /\ UNCHANGED answered
    /\ pc' = "calls"
    /\ UNCHANGED <<role, last, size, boundVars, mode, ok, fixes>>

\* The model, the approval callback or the database rejects, and the run with it; or
\* the worker dies.
Throw ==
    /\ pc \in {"turn", "answering", "ask", "execute", "record"}
    /\ pc' = "threw"
    /\ UNCHANGED <<role, talkVars, boundVars, callVars, gateVars>>

-----------------------------------------------------------------------------
(* ImplementationAgentRunner: the gate and the fix loop                    *)

BeginGate ==
    /\ pc = "completed" /\ role = "implementation_agent"
    /\ mode' = "gate" /\ calls' = GateCalls /\ failures' = FALSE /\ pc' = "calls"
    /\ UNCHANGED <<role, talkVars, boundVars, ok, unrecorded, passed, fixes>>

NoFixTooMany(n) == n <= MaxFixAttempts   \* mutant
FixLeft(n) == n < MaxFixAttempts

\* Another run() on the conversation so far, with bounds of its own.
BeginFix ==
    /\ pc = "calls" /\ mode = "gate" /\ calls = <<>> /\ failures /\ FixLeft(fixes)
    /\ fixes' = fixes + 1
    /\ last' = UserText /\ size' = 0 /\ answered' = 0
    /\ count' = 0 /\ expired' = FALSE
    /\ mode' = "turn" /\ pc' = "bounds"
    /\ UNCHANGED <<role, calls, ok, unrecorded, failures, passed>>

EndGate ==
    /\ pc = "calls" /\ mode = "gate" /\ calls = <<>> /\ ~(failures /\ FixLeft(fixes))
    /\ pc' = IF failures THEN "blocked" ELSE "verified"
    /\ UNCHANGED <<role, talkVars, boundVars, callVars, gateVars>>

-----------------------------------------------------------------------------
Step == \/ CheckBounds \/ Turn \/ EndTurn \/ AskForAnswer \/ Answer
        \/ BeginCall \/ AskApproval \/ Execute \/ Record
        \/ BeginGate \/ BeginFix \/ EndGate

Next == Step \/ Expire \/ Throw

Spec == Init /\ [][Next]_vars

\* Every await of a run settles.
FairSpec == Spec /\ WF_vars(Step)

-----------------------------------------------------------------------------
(* Properties                                                              *)

PCs == {"bounds", "turn", "calls", "ask", "execute", "record", "answer", "answering",
        "stopped", "completed", "no_answer", "threw", "blocked", "verified"}

Messages == [from : {"user", "assistant"}, uses : Nat, results : Nat]

\* Type correctness; fix attempts stay within their budget.
TypeOK ==
    /\ role \in Roles /\ pc \in PCs /\ last \in Messages
    /\ size \in Nat /\ count \in Nat /\ answered \in Nat /\ unrecorded \in Nat
    /\ expired \in BOOLEAN /\ ok \in BOOLEAN /\ failures \in BOOLEAN
    /\ mode \in {"turn", "gate"} /\ calls \in Seq(Call)
    /\ passed \subseteq ShellTools
    /\ fixes \in 0..MaxFixAttempts

\* "This can overshoot maxToolCalls by at most one turn's worth of calls"
\* (agentLoopRunner.ts): the turns before the latest were below the bound.
OvershootsByLessThanATurn == count > 0 => count < MaxToolCalls + size

\* A message may follow another if they alternate and every tool_use of an assistant
\* turn has its tool_result in the next message.
MayFollow(m, n) == n.from # m.from /\ (n.from = "user" => n.results = m.uses)

\* "the transcript handed back to the model never has an assistant turn with more
\* tool_use blocks than the following user turn has matching tool_results": across
\* turns, failed and refused calls, the structured answer and the fix rounds.
ConversationStaysLegal ==
    /\ [](pc \in {"turn", "answering"} => last.from = "user")
    /\ [](pc = "answer" \/ mode = "gate" => last.from = "assistant" /\ last.uses = 0)
    /\ [][last' # last => MayFollow(last, last')]_vars

\* "every tool call must be persisted as it happens": at most one call has no tool_calls
\* row, the one in progress, or the one a run broke off at.
AuditTrailKeepsUp ==
    unrecorded <= 1 /\ (unrecorded = 1 => pc \in {"ask", "execute", "record", "threw"})

\* runVerificationGate() "collects every failure, not just the first" (agent-core's README):
\* a run goes on to its push only if each check passed, in the last gate, on the files the
\* model left, a check whose tool broke being no pass, and is given up for its checks only
\* if one failed there; whatever earlier rounds' gates saw.
VerdictMatchesWork == /\ pc = "verified" => passed = ShellTools
                      /\ pc = "blocked"  => passed # ShellTools

Ended == \/ pc \in {"stopped", "no_answer", "threw", "blocked", "verified"}
         \/ pc = "completed" /\ role = "planner"

\* A role-run ends, whatever the model answers.
RunEnds == <>Ended
=============================================================================
