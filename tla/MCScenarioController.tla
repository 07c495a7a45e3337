------------------------- MODULE MCScenarioController -------------------------
(***************************************************************************)
(* Small scenarios for model-checking ScenarioController.  Each keeps the  *)
(* shape of orchestrator/scenarios/full-play.v1.json: setup, injects and   *)
(* actions on the clock, a checkpoint with two branches, and an end item.  *)
(***************************************************************************)
EXTENDS ScenarioController

Item(kind, trigger, at, order) ==
  [kind |-> kind, facilitator |-> FALSE, automated |-> kind \in {"setup", "action"},
   trigger |-> trigger, at |-> at, order |-> order, checkpoint |-> 0, outcome |-> "none"]

Branch(checkpoint, outcome, order) ==
  [Item("action", "checkpoint", 0, order) EXCEPT
     !.checkpoint = checkpoint, !.outcome = outcome]

\* Small enough for an event to be lost at any step of any operation: an action
\* and a checkpoint of the same second, and the two branches.
FaultyPlay ==
  << Item("action", "elapsed", 1, 0),
     Item("checkpoint", "elapsed", 1, 0),
     Branch(2, "pass", 10),
     Branch(2, "miss", 20) >>

\* Two setup items, three timed items and the end, with ties on the second
\* broken by the order and then by the position in the file.
TimedPlay ==
  << Item("setup", "pre_exercise", 0, 20),
     Item("setup", "pre_exercise", 0, 10),
     Item("inject", "elapsed", 0, 0),
     Item("action", "elapsed", 2, 10),
     Item("action", "elapsed", 2, 0),
     Item("end", "elapsed", 3, 0) >>

AnyHandler      == {"success", "failure"}
StoppingHandler == {"success", "failure", "stop"}
ReliableSink    == {TRUE}
UnreliableSink  == BOOLEAN
===============================================================================
