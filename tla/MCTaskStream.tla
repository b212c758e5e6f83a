---------------------------- MODULE MCTaskStream ----------------------------
(***************************************************************************)
(* TaskStream with two tasks, of which one has events, two connections and *)
(* overlapping polls of the second.                                        *)
(***************************************************************************)
EXTENDS TaskStream

CONSTANT Busy                            \* the task with events

MCTaskOf == [e \in Events |-> Busy]
MCPolls  == {<<1, 1>>, <<2, 1>>, <<2, 2>>}
=============================================================================
