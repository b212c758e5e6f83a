--------------------------- MODULE MCEventIntake ---------------------------
(***************************************************************************)
(* A small instance of EventIntake: the change that moves an issue to the  *)
(* trigger status, delivered twice, an edit in the same millisecond, a     *)
(* later edit, a GitHub event and a direct request.                        *)
(***************************************************************************)
EXTENDS EventIntake

CONSTANTS i1, toTrigger, sameInstant, laterEdit, g1

Fields(s, a) == [status |-> s, labels |-> {}, assignee |-> a]
Update(t, before, after) ==
    [issue |-> i1, time |-> t, created |-> FALSE, before |-> before, after |-> after]

MCChange ==
    [c \in JiraChanges |->
        CASE c = toTrigger   -> Update(1, Fields("todo", Nobody), Fields(TriggerStatus, Nobody))
          [] c = sameInstant -> Update(1, Fields("todo", "ann"), Fields("todo", Nobody))
          [] c = laterEdit   -> Update(2, Fields(TriggerStatus, Nobody), Fields(TriggerStatus, "ann"))]

MCDeliveries ==
    {<<toTrigger, 1>>, <<toTrigger, 2>>, <<sameInstant, 1>>, <<laterEdit, 1>>, <<g1, 1>>}
=============================================================================
