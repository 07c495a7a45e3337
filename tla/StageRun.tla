------------------------------- MODULE StageRun --------------------------------
(***************************************************************************)
(* What the stages of a run have in common: the controller's state, the    *)
(* status of the stage's items, the result of its checkpoint, the safe-    *)
(* action adapters and the evidence.  Every operation runs under           *)
(* run.state_lock and is one step, in which the sink may refuse an event   *)
(* and a deadline may pass.  When an item comes due is ScenarioController; *)
(* here a facilitator may deliver any pending item, which includes those   *)
(* times (controller.py, identity_slice.py).                               *)
(***************************************************************************)
EXTENDS ActionAdapter

CONSTANT MaxFaults        \* bound: refused events and missed deadlines of a run

ASSUME FaultsAssumption == MaxFaults \in Nat

VARIABLES phase,          \* controller.state
          item,           \* the status of each item of the stage
          result,         \* checkpoint_results.get() of the stage's checkpoint
          published,      \* how much of an item's evidence the sink has
          adapters,       \* the adapters of the stage
          faults          \* how many faults the run has had

stageVars == <<phase, item, result, published, adapters, faults>>

NewStage(items, names) ==
  /\ item = [i \in items |-> "pending"]
  /\ result = "none"
  /\ published = [i \in items |-> "none"]
  /\ adapters = [a \in names |-> NewAdapter]
  /\ faults = 0

Fault(late, lost, unpublished) ==
  /\ faults' = faults + FaultsOf(late, lost) + (IF unpublished THEN 1 ELSE 0)
  /\ faults' <= MaxFaults

OwnKey == "own"           \* a key that no other request uses

\* A participant's request through an adapter.  What the adapter keeps of a key
\* that is never used again makes no difference and is dropped.
Submission(a, definition, action, role, key, dry, works, late, lost) ==
  Execute(adapters[a], definition,
          [key |-> key, print |-> <<action, role, dry>>, role |-> role,
           target |-> action, dry |-> dry],
          phase, works, late, lost)

Submitted(a, key, outcome) ==
  adapters' = IF key = OwnKey THEN adapters ELSE [adapters EXCEPT ![a] = outcome.adapter]

\* Mutant: the evidence is written without looking at the result.
Delivery_Bug(a, i, states, works, late, lost, unpublished) ==
  LET outcome == Execute(adapters[a],
                   [roles |-> {"scenario_engine"}, target |-> i, states |-> states],
                   [key |-> i, print |-> i, role |-> "scenario_engine", target |-> i,
                    dry |-> FALSE],
                   phase, works, late, lost)
  IN [status    |-> IF unpublished THEN "failed" ELSE "delivered",
      applied   |-> outcome.applied,
      good      |-> Successful(outcome),
      published |-> IF unpublished THEN "part" ELSE "all"]

\* handle() of a reviewed step: one execution under the item's own key, then its
\* evidence, once.  An item is handled at most once in a run, so that what the
\* adapter stores of its key is never read again and is dropped.  unpublished: the
\* sink refuses one of the evidence events.
Delivery(a, i, states, works, late, lost, unpublished) ==
  LET outcome == Execute(adapters[a],
                   [roles |-> {"scenario_engine"}, target |-> i, states |-> states],
                   [key |-> i, print |-> i, role |-> "scenario_engine", target |-> i,
                    dry |-> FALSE],
                   phase, works, late, lost)
      good == Successful(outcome)
  IN [status    |-> IF good /\ ~unpublished THEN "delivered" ELSE "failed",
      applied   |-> outcome.applied,
      good      |-> good,
      published |-> IF ~good THEN "none" ELSE IF unpublished THEN "part" ELSE "all"]

Open(i) == phase \in {"ready", "running", "paused"} /\ item[i] = "pending"

\* The loop of resolve_checkpoint() over branch a, taken on a pass, and branch b,
\* taken on a miss.  A refused event ends it: visited tells how far it comes.  So does
\* an opposite branch that is not pending any more and cannot be skipped.
BranchVisit(a, b, passed, visited) ==
  LET match == IF passed THEN a ELSE b
      opposite == IF passed THEN b ELSE a
      reached(i) == visited >= (IF i = a THEN 1 ELSE 2)
      skips == reached(opposite) /\ item[opposite] = "pending"
  IN [match |-> match, opposite |-> opposite, skips |-> skips,
      runs  |-> reached(match) /\ item[match] = "pending" /\ (match = b => skips)]

\* The items after the loop; status: what became of the delivery.
Visited(visit, status) ==
  [i \in DOMAIN item |->
     CASE i = visit.match /\ visit.runs     -> status
       [] i = visit.opposite /\ visit.skips -> "skipped"
       [] OTHER                             -> item[i]]

SkipItem(i) ==
  /\ Open(i)
  /\ item' = [item EXCEPT ![i] = "skipped"]
  /\ UNCHANGED <<phase, result, published, adapters, faults>>

\* start_run() needs a complete preparation.
Begin(setup) ==
  /\ phase = "ready" /\ \A i \in setup : item[i] = "delivered"
  /\ phase' = "running"
  /\ UNCHANGED <<item, result, published, adapters, faults>>

Pause ==
  /\ phase = "running" /\ phase' = "paused"
  /\ UNCHANGED <<item, result, published, adapters, faults>>

Resume ==
  /\ phase = "paused" /\ phase' = "running"
  /\ UNCHANGED <<item, result, published, adapters, faults>>

\* fail_safe_stop(): every latch is tried whatever the sink refuses.
StopPlay ==
  /\ phase # "completed" /\ phase' = "stopped"
  /\ adapters' = [a \in DOMAIN adapters |-> FailSafe(adapters[a])]
  /\ UNCHANGED <<item, result, published, faults>>

\* reset() builds every component of the stage anew.
Rebuild ==
  /\ phase \in {"stopped", "completed"}
  /\ phase' = "ready"
  /\ item' = [i \in DOMAIN item |-> "pending"]
  /\ result' = "none"
  /\ published' = [i \in DOMAIN item |-> "none"]
  /\ adapters' = [a \in DOMAIN adapters |-> NewAdapter]
  /\ faults' = 0
===============================================================================
