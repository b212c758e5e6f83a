-------------------------- MODULE AgentLoopProofs --------------------------
(***************************************************************************)
(* Proofs about AgentLoop, for every bound and whatever the model answers. *)
(*                                                                         *)
(* The invariant counts the calls of the turn in progress: what is left of *)
(* the turn, what has been answered and what has been counted always add   *)
(* up, also in the middle of a call.  Of a verification gate in progress   *)
(* it knows which checks are left, and that the others' passes and the     *)
(* failures seen so far complement each other.                             *)
(***************************************************************************)
EXTENDS AgentLoop, TLAPS

InCall == pc \in {"ask", "execute", "record"}

\* Control: where each step can be, and what the calls left are.
ControlInv ==
    /\ InCall => calls # <<>>
    /\ pc \in {"bounds", "turn"} => mode = "turn"
    /\ mode = "gate" => role = "implementation_agent"
    /\ pc \in {"answer", "answering"} => role = "planner" /\ mode = "turn"
    /\ unrecorded = IF InCall THEN 1 ELSE IF pc = "threw" THEN unrecorded ELSE 0
    /\ unrecorded <= 1

\* The arithmetic of a turn: its calls are those left and those answered, and before its
\* first call the count was below the bound.
Begun == IF InCall THEN answered + 1 ELSE answered

TurnInv ==
    /\ pc = "turn" => count < MaxToolCalls
    /\ count > 0 => count < MaxToolCalls + size
    /\ mode = "turn" /\ (pc = "calls" \/ InCall) =>
          /\ answered + Len(calls) = size
          /\ count < MaxToolCalls + Begun

\* The conversation: who spoke last, as the next step needs it.
TalkInv ==
    /\ pc \in {"bounds", "turn", "answering"} => last.from = "user"
    /\ pc = "answer" \/ mode = "gate" => last.from = "assistant" /\ last.uses = 0
    /\ pc = "completed" /\ role = "implementation_agent"
          => last.from = "assistant" /\ last.uses = 0
    /\ mode = "turn" /\ (pc = "calls" \/ InCall) => last.from = "assistant" /\ last.uses = size

\* The verification gate: no check is called twice, and of those called a failure was seen
\* iff one has not passed.
ToBeJudged == {calls[i].tool : i \in 1..Len(calls)}

GateInv ==
    /\ mode = "gate" =>
          /\ ToBeJudged \subseteq ShellTools
          /\ \A i, j \in 1..Len(calls) : calls[i].tool = calls[j].tool => i = j
          /\ failures <=> ~(ShellTools \ ToBeJudged \subseteq passed)
    /\ VerdictMatchesWork

IInv == TypeOK /\ ControlInv /\ TurnInv /\ TalkInv /\ GateInv

-----------------------------------------------------------------------------

\* Outside the gate, or at a step that is none of its, the gate's part is kept.
LEMMA GateKept ==
  ASSUME GateInv, pc' \notin {"verified", "blocked"},
         mode' = "turn" \/ UNCHANGED <<mode, calls, failures, passed>>
  PROVE  GateInv'
BY DEF GateInv, ToBeJudged, VerdictMatchesWork

LEMMA GateCallsType == GateCalls \in Seq(Call) /\ GateCalls # <<>>
<1>1. \A name \in ShellTools : GateCall(name) \in Call
    BY LoopAssumption DEF GateCall, Call, Inputs, WriteTools
<1>2. QED
    BY <1>1 DEF GateCalls, ShellTools

-----------------------------------------------------------------------------
(* The invariant                                                           *)

LEMMA InitIInv == Init => IInv
<1> SUFFICES ASSUME Init PROVE IInv
    OBVIOUS
<1>1. last = UserText /\ UserText \in Messages /\ UserText.from = "user"
    BY DEF Init, UserText, Messages
<1>2. calls \in Seq(Call) /\ fixes \in 0..MaxFixAttempts
    BY LoopAssumption DEF Init
<1>3. TypeOK
    BY <1>1, <1>2, LoopAssumption DEF Init, TypeOK, PCs
<1>4. ControlInv /\ TurnInv /\ TalkInv /\ GateInv
    BY <1>1, LoopAssumption DEF Init, ControlInv, InCall, TurnInv, TalkInv, GateInv,
       VerdictMatchesWork
<1>5. QED
    BY <1>3, <1>4 DEF IInv

LEMMA ExpireKeeps == ASSUME IInv, Expire PROVE IInv'
BY GateKept DEF IInv, TypeOK, ControlInv, InCall, TurnInv, Begun, TalkInv, Expire, talkVars,
   callVars, gateVars

LEMMA CheckBoundsKeeps == ASSUME IInv, CheckBounds PROVE IInv'
BY GateKept, LoopAssumption DEF IInv, TypeOK, PCs, ControlInv, InCall, TurnInv, Begun, TalkInv,
   CheckBounds, BoundReached, talkVars, boundVars, callVars, gateVars

LEMMA TurnKeeps == ASSUME IInv, Turn PROVE IInv'
<1>1. PICK seq \in TurnCalls :
         /\ last' = [from |-> "assistant", uses |-> Len(seq), results |-> 0]
         /\ size' = Len(seq) /\ calls' = seq /\ answered' = 0
         /\ pc' = IF seq # <<>> THEN "calls"
                  ELSE IF role = "planner" THEN "answer" ELSE "completed"
    BY DEF Turn
<1>2. seq \in Seq(Call) /\ Len(seq) \in Nat
      /\ (seq = <<>> => Len(seq) = 0)
    BY LoopAssumption
<1>3. /\ pc = "turn" /\ mode = "turn" /\ count < MaxToolCalls
      /\ UNCHANGED <<role, count, expired, mode, ok, unrecorded, failures, passed, fixes>>
    BY DEF IInv, ControlInv, TurnInv, Turn, boundVars, gateVars
<1>4. TypeOK'
    BY <1>1, <1>2, <1>3 DEF IInv, TypeOK, PCs, Messages
<1>5. ControlInv'
    BY <1>1, <1>2, <1>3 DEF IInv, TypeOK, Roles, ControlInv, InCall
<1>6. TurnInv'
    BY <1>1, <1>2, <1>3, LoopAssumption DEF IInv, TypeOK, TurnInv, Begun, InCall
<1>7. TalkInv' /\ GateInv'
    BY <1>1, <1>2, <1>3, GateKept DEF IInv, TalkInv, InCall
<1>8. QED
    BY <1>4, <1>5, <1>6, <1>7 DEF IInv

LEMMA EndTurnKeeps == ASSUME IInv, EndTurn PROVE IInv'
BY GateKept, LoopAssumption DEF IInv, TypeOK, PCs, Messages, ControlInv, InCall, TurnInv, Begun,
   TalkInv, EndTurn, talkVars, boundVars, callVars, gateVars

LEMMA AskForAnswerKeeps == ASSUME IInv, AskForAnswer PROVE IInv'
<1>1. last' = UserText /\ UserText \in Messages /\ UserText.from = "user"
    BY DEF AskForAnswer, UserText, Messages
<1>2. QED
    BY <1>1, GateKept DEF IInv, TypeOK, PCs, ControlInv, InCall, TurnInv, Begun, TalkInv,
       AskForAnswer, boundVars, callVars, gateVars

LEMMA AnswerKeeps == ASSUME IInv, Answer PROVE IInv'
BY GateKept DEF IInv, TypeOK, PCs, Roles, ControlInv, InCall, TurnInv, Begun, TalkInv, Answer,
   talkVars, boundVars, callVars, gateVars

LEMMA BeginCallKeeps == ASSUME IInv, BeginCall PROVE IInv'
<1>1. /\ pc = "calls" /\ calls # <<>> /\ ok' = FALSE /\ unrecorded' = unrecorded + 1
      /\ count' = IF mode = "turn" THEN count + 1 ELSE count
      /\ pc' \in {"ask", "execute", "record"}
      /\ UNCHANGED <<role, last, size, answered, expired, mode, calls, failures, passed, fixes>>
    BY DEF BeginCall, CountCall, talkVars, gateVars
<1>2. TypeOK'
  <2>1. pc' \in PCs /\ count' \in Nat /\ unrecorded' \in Nat
    BY <1>1 DEF IInv, TypeOK, PCs
  <2>2. QED
    BY <1>1, <2>1 DEF IInv, TypeOK
<1>3. ControlInv'
    BY <1>1 DEF IInv, TypeOK, ControlInv, InCall
<1>4. TurnInv'
  <2>1. mode = "turn" => answered + Len(calls) = size /\ count < MaxToolCalls + answered
                         /\ Len(calls) > 0
    BY <1>1 DEF IInv, TypeOK, TurnInv, InCall, Begun
  <2>2. QED
    BY <1>1, <2>1, LoopAssumption DEF IInv, TypeOK, ControlInv, TurnInv, InCall, Begun
<1>5. TalkInv' /\ GateInv'
    BY <1>1, GateKept DEF IInv, TalkInv, InCall
<1>6. QED
    BY <1>2, <1>3, <1>4, <1>5 DEF IInv

LEMMA AskApprovalKeeps == ASSUME IInv, AskApproval PROVE IInv'
<1>1. /\ pc = "ask" /\ pc' \in {"record", "execute"}
      /\ UNCHANGED <<role, last, size, answered, count, expired, mode, calls, ok, unrecorded,
                     failures, passed, fixes>>
    BY DEF AskApproval, talkVars, boundVars, callVars, gateVars
<1>2. QED
    BY <1>1, GateKept DEF IInv, TypeOK, PCs, ControlInv, InCall, TurnInv, Begun, TalkInv

LEMMA ExecuteKeeps == ASSUME IInv, Execute PROVE IInv'
<1>1. /\ pc = "execute" /\ pc' = "record" /\ ok' \in BOOLEAN
      /\ passed' \subseteq ShellTools /\ (mode = "turn" \/ UNCHANGED passed)
      /\ UNCHANGED <<role, last, size, answered, count, expired, mode, calls, unrecorded,
                     failures, fixes>>
    BY DEF Execute, talkVars, boundVars, IInv, TypeOK
<1>2. QED
    BY <1>1, GateKept DEF IInv, TypeOK, PCs, ControlInv, InCall, TurnInv, Begun, TalkInv

LEMMA RecordKeeps == ASSUME IInv, Record PROVE IInv'
<1>1. /\ pc = "record" /\ pc' = "calls" /\ calls' = Tail(calls)
      /\ unrecorded' = unrecorded - 1
      /\ answered' = IF mode = "turn" THEN answered + 1 ELSE answered
      /\ UNCHANGED <<role, last, size, count, expired, mode, ok, fixes>>
    BY DEF Record, WriteRow, AnswerCall, boundVars
<1>2. /\ calls # <<>> /\ unrecorded = 1 /\ calls \in Seq(Call)
    BY <1>1 DEF IInv, TypeOK, ControlInv, InCall, Call
<1>3. /\ Tail(calls) \in Seq(Call) /\ Len(Tail(calls)) = Len(calls) - 1
      /\ \A i \in 1..Len(calls) - 1 : Tail(calls)[i] = calls[i + 1]
    BY <1>2
<1>4. CASE mode = "turn"
  <2>1. UNCHANGED <<failures, passed>>
    BY <1>1, <1>4 DEF Record
  <2>2. TypeOK'
    BY <1>1, <1>2, <1>3, <2>1 DEF IInv, TypeOK, PCs, Call
  <2>3. GateInv'
    BY <1>1, <1>4, GateKept DEF IInv
  <2>4. QED
    BY <1>1, <1>2, <1>3, <2>2, <2>3, LoopAssumption
       DEF IInv, TypeOK, ControlInv, TurnInv, TalkInv, InCall, Begun
<1>5. CASE mode = "gate"
  <2> DEFINE check == Head(calls).tool
  <2>1. PICK good \in BOOLEAN :
           /\ failures' = (failures \/ ~good)
           /\ passed' = IF good THEN passed \cup {check} ELSE passed \ {check}
    BY <1>1, <1>5 DEF Record, Judge, Fails, IInv, TypeOK
  <2>2. check \in ToBeJudged /\ ToBeJudged' = ToBeJudged \ {check}
    <3>1. check = calls[1].tool
      BY <1>2
    <3>2. \A i \in 1..Len(calls) : i # 1 => calls[i].tool # check
      BY <1>2, <1>5, <3>1 DEF IInv, GateInv
    <3>3. ToBeJudged = {check} \cup {calls[i].tool : i \in 2..Len(calls)}
      BY <1>2, <3>1 DEF ToBeJudged
    <3>4. ToBeJudged' = {calls[i].tool : i \in 2..Len(calls)}
      <4>1. /\ Len(calls') = Len(calls) - 1
            /\ \A i \in 1..Len(calls) - 1 : calls'[i].tool = calls[i + 1].tool
        BY <1>1, <1>3
      <4>2. ToBeJudged' = {calls'[i].tool : i \in 1..Len(calls) - 1}
        BY <4>1 DEF ToBeJudged
      <4>3. ToBeJudged' = {calls[i + 1].tool : i \in 1..Len(calls) - 1}
        BY <4>1, <4>2
      <4>4. \A i \in 2..Len(calls) : i - 1 \in 1..Len(calls) - 1 /\ calls[i] = calls[(i - 1) + 1]
        BY <1>2
      <4>5. \A i \in 1..Len(calls) - 1 : i + 1 \in 2..Len(calls)
        BY <1>2
      <4>6. QED
        BY SMTT(30), <1>2, <4>3, <4>4, <4>5
    <3>5. QED
      BY <1>2, <3>2, <3>3, <3>4
  <2>3. TypeOK'
    BY <1>1, <1>2, <1>3, <1>5, <2>1, <2>2 DEF IInv, TypeOK, PCs, Call, GateInv
  <2>4. GateInv'
    <3>1. \A i, j \in 1..Len(calls') : calls'[i].tool = calls'[j].tool => i = j
      <4>1. SUFFICES ASSUME NEW i \in 1..Len(calls'), NEW j \in 1..Len(calls'),
                            calls'[i].tool = calls'[j].tool
                     PROVE  i = j
        OBVIOUS
      <4>2. /\ i + 1 \in 1..Len(calls) /\ j + 1 \in 1..Len(calls)
            /\ calls[i + 1].tool = calls[j + 1].tool
        BY <1>1, <1>2, <1>3, <4>1
      <4>3. i + 1 = j + 1
        BY <1>5, <4>2 DEF IInv, GateInv
      <4>4. QED
        BY <4>3
    <3>2. ToBeJudged' \subseteq ShellTools /\ check \in ShellTools
      BY <1>5, <2>2 DEF IInv, GateInv
    <3>3. failures' <=> ~(ShellTools \ ToBeJudged' \subseteq passed')
      <4>1. failures <=> ~(ShellTools \ ToBeJudged \subseteq passed)
        BY <1>5 DEF IInv, GateInv
      <4>2. ShellTools \ ToBeJudged' = (ShellTools \ ToBeJudged) \cup {check}
        BY <2>2, <3>2
      <4>3. CASE good
        BY <2>1, <2>2, <4>1, <4>2, <4>3
      <4>4. CASE ~good
        BY <2>1, <4>2, <4>4
      <4>5. QED
        BY <4>3, <4>4
    <3>4. VerdictMatchesWork'
      BY <1>1 DEF VerdictMatchesWork
    <3>5. QED
      BY <3>1, <3>2, <3>3, <3>4 DEF GateInv
  <2>5. QED
    BY <1>1, <1>2, <1>5, <2>3, <2>4 DEF IInv, TypeOK, ControlInv, TurnInv, TalkInv, InCall
<1>6. QED
    BY <1>4, <1>5 DEF IInv, TypeOK

LEMMA ThrowKeeps == ASSUME IInv, Throw PROVE IInv'
<1>1. /\ pc' = "threw"
      /\ UNCHANGED <<role, last, size, answered, count, expired, mode, calls, ok, unrecorded,
                     failures, passed, fixes>>
    BY DEF Throw, talkVars, boundVars, callVars, gateVars
<1>2. QED
    BY <1>1, GateKept DEF IInv, TypeOK, PCs, ControlInv, InCall, TurnInv, Begun, TalkInv

LEMMA BeginGateKeeps == ASSUME IInv, BeginGate PROVE IInv'
<1>1. /\ pc = "completed" /\ role = "implementation_agent" /\ pc' = "calls"
      /\ mode' = "gate" /\ calls' = GateCalls /\ failures' = FALSE
      /\ UNCHANGED <<role, last, size, answered, count, expired, ok, unrecorded, passed, fixes>>
    BY DEF BeginGate, talkVars, boundVars
<1>2. TypeOK'
    BY <1>1, GateCallsType DEF IInv, TypeOK, PCs
<1>3. ControlInv' /\ TurnInv' /\ TalkInv'
    BY <1>1 DEF IInv, TypeOK, ControlInv, InCall, TurnInv, TalkInv
<1>4. GateInv'
  <2>1. ToBeJudged' = ShellTools /\ VerdictMatchesWork'
    BY <1>1 DEF ToBeJudged, GateCalls, GateCall, ShellTools, VerdictMatchesWork
  <2>2. \A i, j \in 1..Len(calls') : calls'[i].tool = calls'[j].tool => i = j
    BY <1>1 DEF GateCalls, GateCall
  <2>3. QED
    BY <1>1, <2>1, <2>2 DEF GateInv
<1>5. QED
    BY <1>2, <1>3, <1>4 DEF IInv

LEMMA BeginFixKeeps == ASSUME IInv, BeginFix PROVE IInv'
<1>1. last' = UserText /\ UserText \in Messages /\ UserText.from = "user"
    BY DEF BeginFix, UserText, Messages
<1>2. fixes' \in 0..MaxFixAttempts
    BY LoopAssumption DEF BeginFix, FixLeft, IInv, TypeOK
<1>3. TypeOK'
    BY <1>1, <1>2 DEF IInv, TypeOK, PCs, BeginFix
<1>4. ControlInv' /\ TurnInv'
    BY DEF IInv, TypeOK, ControlInv, InCall, TurnInv, Begun, BeginFix
<1>5. TalkInv' /\ GateInv'
    BY <1>1, GateKept DEF IInv, TalkInv, InCall, BeginFix
<1>6. QED
    BY <1>3, <1>4, <1>5 DEF IInv

LEMMA EndGateKeeps == ASSUME IInv, EndGate PROVE IInv'
<1>1. /\ mode = "gate" /\ calls = <<>> /\ pc = "calls"
      /\ pc' = IF failures THEN "blocked" ELSE "verified"
      /\ UNCHANGED <<role, last, size, answered, count, expired, mode, calls, ok, unrecorded,
                     failures, passed, fixes>>
    BY DEF EndGate, talkVars, boundVars, callVars, gateVars
<1>2. TypeOK' /\ ControlInv' /\ TurnInv' /\ TalkInv'
    BY <1>1 DEF IInv, TypeOK, PCs, ControlInv, InCall, TurnInv, Begun, TalkInv
<1>3. GateInv'
  <2>1. ToBeJudged = {} /\ ToBeJudged' = ToBeJudged
    BY <1>1 DEF ToBeJudged
  <2>2. failures <=> ~(ShellTools \subseteq passed)
    BY <1>1, <2>1 DEF IInv, GateInv
  <2>3. VerdictMatchesWork'
    BY <1>1, <2>2 DEF IInv, TypeOK, VerdictMatchesWork
  <2>4. QED
    BY <1>1, <2>1, <2>3 DEF IInv, GateInv
<1>4. QED
    BY <1>2, <1>3 DEF IInv

LEMMA Invariance == Spec => []IInv
<1>1. IInv /\ [Next]_vars => IInv'
  <2> SUFFICES ASSUME IInv, [Next]_vars PROVE IInv'
    OBVIOUS
  <2>1. CASE UNCHANGED vars
    BY <2>1 DEF vars, talkVars, boundVars, callVars, gateVars, IInv, TypeOK, ControlInv,
       InCall, TurnInv, Begun, TalkInv, GateInv, ToBeJudged, VerdictMatchesWork
  <2>2. CASE Step
    BY <2>2, CheckBoundsKeeps, TurnKeeps, EndTurnKeeps, AskForAnswerKeeps, AnswerKeeps,
       BeginCallKeeps, AskApprovalKeeps, ExecuteKeeps, RecordKeeps, BeginGateKeeps,
       BeginFixKeeps, EndGateKeeps DEF Step
  <2>3. CASE Expire \/ Throw
    BY <2>3, ExpireKeeps, ThrowKeeps
  <2>4. QED
    BY <2>1, <2>2, <2>3 DEF Next
<1>2. QED
    BY <1>1, InitIInv, PTL DEF Spec

-----------------------------------------------------------------------------
(* The theorems                                                            *)

\* Type correctness; the Implementation Agent makes at most MaxFixAttempts fix attempts.
THEOREM TypeCorrect == Spec => []TypeOK
<1>1. IInv => TypeOK
    BY DEF IInv
<1>2. QED
    BY <1>1, Invariance, PTL

\* The bound on tool calls is overshot by less than one turn, whatever the size of the
\* turns: agentLoopRunner.ts checks it between turns only.
THEOREM BoundHolds == Spec => []OvershootsByLessThanATurn
<1>1. IInv => OvershootsByLessThanATurn
    BY DEF IInv, TurnInv, OvershootsByLessThanATurn
<1>2. QED
    BY <1>1, Invariance, PTL

\* executeAndRecordTool() leaves at most the call in progress without a tool_calls row.
THEOREM TrailComplete == Spec => []AuditTrailKeepsUp
<1>1. IInv => AuditTrailKeepsUp
    BY DEF IInv, TypeOK, ControlInv, InCall, AuditTrailKeepsUp
<1>2. QED
    BY <1>1, Invariance, PTL

\* A verified run passed every check in its last verification gate, on the files the model
\* left; a run blocked by the gate failed one there.
THEOREM VerdictIsSound == Spec => []VerdictMatchesWork
<1>1. IInv => VerdictMatchesWork
    BY DEF IInv, GateInv
<1>2. QED
    BY <1>1, Invariance, PTL

\* The conversation handed to the model is always well-formed: every tool_use has its
\* tool_result in the next message, also after failed calls and across fix rounds.
THEOREM ConversationLegal == Spec => ConversationStaysLegal
<1> DEFINE Spoken == /\ pc \in {"turn", "answering"} => last.from = "user"
                     /\ pc = "answer" \/ mode = "gate"
                           => last.from = "assistant" /\ last.uses = 0
<1>1. IInv => Spoken
    BY DEF IInv, TalkInv
<1>2. IInv /\ [Next]_vars => [last' # last => MayFollow(last, last')]_vars
  <2> SUFFICES ASSUME IInv, Next, last' # last PROVE MayFollow(last, last')
    OBVIOUS
  <2>1. CASE Turn
    <3>1. last.from = "user" /\ last'.from = "assistant"
      BY <2>1 DEF Turn, IInv, TalkInv
    <3>2. QED
      BY <3>1 DEF MayFollow
  <2>2. CASE EndTurn
    <3>1. /\ last.from = "assistant" /\ last.uses = size
          /\ last'.from = "user" /\ last'.results = answered
      BY <2>2 DEF EndTurn, IInv, TalkInv
    <3>2. answered = size
      BY <2>2 DEF EndTurn, IInv, TypeOK, TurnInv
    <3>3. QED
      BY <3>1, <3>2 DEF MayFollow
  <2>3. CASE AskForAnswer \/ BeginFix
    <3>1. last.from = "assistant" /\ last.uses = 0 /\ last' = UserText
      BY <2>3 DEF AskForAnswer, BeginFix, IInv, TalkInv
    <3>2. QED
      BY <3>1 DEF MayFollow, UserText
  <2>4. Turn \/ EndTurn \/ AskForAnswer \/ BeginFix
    BY DEF Next, Step, CheckBounds, Answer, BeginCall, AskApproval, Execute, Record, BeginGate,
       EndGate, Expire, Throw, talkVars
  <2>5. QED
    BY <2>1, <2>2, <2>3, <2>4
<1>3. QED
    BY <1>1, <1>2, Invariance, PTL DEF Spec, ConversationStaysLegal
=============================================================================
