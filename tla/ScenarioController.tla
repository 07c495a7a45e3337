-------------------------- MODULE ScenarioController --------------------------
(***************************************************************************)
(* The deterministic run controller of an exercise: ScenarioController of  *)
(* orchestrator/controller.py.  It walks the reviewed items of a scenario  *)
(* (the master scenario events list, MSEL) through                         *)
(*                                                                         *)
(*      pending -> ready -> delivered | skipped | failed                   *)
(*                                                                         *)
(* driven by an absolute exercise clock, by checkpoint results and by the  *)
(* facilitator, and writes one event for each transition.                  *)
(*                                                                         *)
(* Operations that visit several items (prepare, advance_to and            *)
(* resolve_checkpoint) are modelled one item per step, because each item   *)
(* crosses two extension boundaries that may fail on their own: the action *)
(* handler and the event sink.  `call' holds the operation in progress;    *)
(* the portal's run lock admits no other operation until it is idle again. *)
(*                                                                         *)
(* Definitions named ..._Bug are wrong on purpose: each is a slip of the   *)
(* definition that follows it, and breaks one of the properties below.     *)
(***************************************************************************)
EXTENDS Integers, Sequences

CONSTANTS
  MSEL,             \* the reviewed items, in the order of the definition file
  Horizon,          \* bound: the largest exercise second that is explored
  HandlerOutcomes,  \* what an allowlisted handler may do when it is called
  SinkOutcomes      \* whether the event sink may store (TRUE) or raise (FALSE)

Items    == DOMAIN MSEL
Kinds    == {"setup", "inject", "action", "checkpoint", "end"}
Triggers == {"pre_exercise", "elapsed", "checkpoint"}
Results  == {"pass", "miss"}

\* A reviewed item.  `at' is trigger.seconds (0 when the trigger has none),
\* `checkpoint' and `outcome' are those of a checkpoint trigger.
ItemDefinition ==
  [kind : Kinds, facilitator : BOOLEAN, automated : BOOLEAN, trigger : Triggers,
   at : Nat, order : Nat, checkpoint : Nat, outcome : Results \cup {"none"}]

\* What ScenarioDefinition.from_dict guarantees of a loaded scenario.
ASSUME MSELAssumption ==
  /\ MSEL \in Seq(ItemDefinition)
  /\ \A i \in Items :
       /\ MSEL[i].trigger # "elapsed" => MSEL[i].at = 0
       /\ MSEL[i].trigger = "checkpoint" =>
            /\ MSEL[i].outcome \in Results
            /\ MSEL[i].checkpoint \in Items
            /\ MSEL[MSEL[i].checkpoint].kind = "checkpoint"
ASSUME HorizonAssumption == Horizon \in Nat
ASSUME EnvironmentAssumption ==
  /\ HandlerOutcomes \subseteq {"success", "failure", "stop"}
  /\ SinkOutcomes \subseteq BOOLEAN

Checkpoints == {i \in Items : MSEL[i].kind = "checkpoint"}
BranchesOf(c) ==
  {i \in Items : MSEL[i].trigger = "checkpoint" /\ MSEL[i].checkpoint = c}
Timed == {i \in Items : MSEL[i].trigger = "elapsed"}

RunStates    == {"ready", "running", "paused", "stopped", "completed"}
ItemStatuses == {"pending", "ready", "delivered", "skipped", "failed"}
Live         == {"ready", "running", "paused"}
Open         == {"pending", "ready"}

VARIABLES
  state,        \* RunState
  elapsed,      \* elapsed_seconds, the absolute exercise clock
  status,       \* ItemRuntime.status of every item
  deliveredAt,  \* ItemRuntime.delivered_at_seconds, -1 for None
  results,      \* checkpoint_results, "none" while unresolved
  call,         \* the operation in progress: items left, target, checkpoint
  evidence,     \* the item events the sink has stored, as <<type, role>>
  faults        \* how calls of this run ended early: "sink", "rejected"

vars == <<state, elapsed, status, deliveredAt, results, call, evidence, faults>>
itemVars == <<status, deliveredAt, results>>

Idle == [op |-> "idle", due |-> {}, target |-> 0, checkpoint |-> 0]
Calls == [op : {"idle", "prepare", "advance", "resolve"}, due : SUBSET Items,
          target : Nat, checkpoint : Nat]
EventTypes == {"ready", "delivered", "failed", "skipped", "resolved"}
Roles      == {"controller", "facilitator"}

TypeOK ==
  /\ state \in RunStates
  /\ elapsed \in Nat
  /\ status \in [Items -> ItemStatuses]
  /\ deliveredAt \in [Items -> Nat \cup {-1}]
  /\ results \in [Checkpoints -> Results \cup {"none"}]
  /\ call \in Calls
  /\ evidence \in [Items -> SUBSET (EventTypes \X Roles)]
  /\ faults \in SUBSET {"sink", "rejected"}

\* The sort key of the due lists: (seconds, order), then the order of the file.
Before(i, j) ==
  \/ MSEL[i].at < MSEL[j].at
  \/ /\ MSEL[i].at = MSEL[j].at
     /\ \/ MSEL[i].order < MSEL[j].order
        \/ MSEL[i].order = MSEL[j].order /\ i < j

\* The due list is walked unsorted.
IsFirst_Bug(i, due) == i \in due
IsFirst(i, due) == i \in due /\ \A j \in due \ {i} : Before(i, j)
Rest(i) == [call EXCEPT !.due = @ \ {i}]

\* Only the items of the very second are due, not those a jump passed over.
OverdueNow_Bug(t) == {i \in Timed : MSEL[i].at = t /\ status[i] = "pending"}
Overdue(t) == {i \in Timed : MSEL[i].at <= t /\ status[i] = "pending"}
AdvanceCall(t) ==
  [op |-> "advance", due |-> Overdue(t), target |-> t, checkpoint |-> 0]

(***************************************************************************)
(* Evidence.  _emit builds the event and hands it to the sink, after the   *)
(* state change it reports.  A sink that raises ends the whole call there. *)
(***************************************************************************)
Persist(i, event, stored, rest) ==
  IF stored
  THEN /\ evidence' = [evidence EXCEPT ![i] = @ \cup {event}]
       /\ call' = rest
       /\ UNCHANGED faults
  ELSE /\ call' = Idle
       /\ faults' = faults \cup {"sink"}
       /\ UNCHANGED evidence

PersistRunEvent(stored, rest) ==
  /\ call' = IF stored THEN rest ELSE Idle
  /\ faults' = IF stored THEN faults ELSE faults \cup {"sink"}
  /\ UNCHANGED evidence

Reject ==
  /\ call' = Idle
  /\ faults' = faults \cup {"rejected"}
  /\ UNCHANGED <<state, elapsed, status, deliveredAt, results, evidence>>

(***************************************************************************)
(* One item.  `now' is the exercise second of the delivery, `role' the     *)
(* actor role of the event, `rest' what is left of the surrounding call.   *)
(***************************************************************************)
HandlerOutcomesOf(i) == IF MSEL[i].automated THEN HandlerOutcomes ELSE {"success"}

Succeed(i, role, now, rest) ==
  /\ "success" \in HandlerOutcomesOf(i)
  /\ status' = [status EXCEPT ![i] = "delivered"]
  /\ deliveredAt' = [deliveredAt EXCEPT ![i] = now]
  /\ \E stored \in SinkOutcomes :
       /\ Persist(i, <<"delivered", role>>, stored, rest)
       /\ state' = IF stored /\ MSEL[i].kind = "end" THEN "completed" ELSE state
  /\ UNCHANGED results

\* The handler is missing, raises, returns something else or reports failure.
\* With "stop" it first calls fail_safe_stop on the run it belongs to.
Fail(i, role, rest) ==
  /\ \E outcome \in HandlerOutcomesOf(i) \ {"success"} :
       state' = IF outcome = "stop" /\ state \in Live THEN "stopped" ELSE state
  /\ status' = [status EXCEPT ![i] = "failed"]
  /\ \E stored \in SinkOutcomes : Persist(i, <<"failed", "controller">>, stored, rest)
  /\ UNCHANGED <<deliveredAt, results>>

DeliverItem(i, role, now, rest) == Succeed(i, role, now, rest) \/ Fail(i, role, rest)

HeldForFacilitator(i) == MSEL[i].facilitator \/ MSEL[i].kind = "checkpoint"

MakeReady(i, rest) ==
  /\ status' = [status EXCEPT ![i] = "ready"]
  /\ \E stored \in SinkOutcomes : Persist(i, <<"ready", "controller">>, stored, rest)
  /\ UNCHANGED <<state, deliveredAt, results>>

MakeDue(i, now, rest) ==
  \/ /\ status[i] # "pending"
     /\ call' = rest
     /\ UNCHANGED <<state, status, deliveredAt, results, evidence, faults>>
  \/ status[i] = "pending" /\ HeldForFacilitator(i) /\ MakeReady(i, rest)
  \/ /\ status[i] = "pending" /\ ~HeldForFacilitator(i)
     /\ DeliverItem(i, "controller", now, rest)

\* The reason of a skip is kept in memory but never written as an event.
SkipItem_Bug(i, rest) ==
  /\ status' = [status EXCEPT ![i] = "skipped"]
  /\ call' = rest
  /\ UNCHANGED <<state, elapsed, deliveredAt, results, evidence, faults>>
SkipItem(i, rest) ==
  /\ status' = [status EXCEPT ![i] = "skipped"]
  /\ \E stored \in SinkOutcomes : Persist(i, <<"skipped", "facilitator">>, stored, rest)
  /\ UNCHANGED <<state, elapsed, deliveredAt, results>>

(***************************************************************************)
(* Operations.                                                             *)
(***************************************************************************)
Quiet == call.op = "idle"

Prepare ==
  /\ Quiet /\ state = "ready"
  /\ call' = [Idle EXCEPT !.op = "prepare",
                          !.due = {i \in Items : MSEL[i].trigger = "pre_exercise"}]
  /\ UNCHANGED <<state, elapsed, itemVars, evidence, faults>>

PrepareItem ==
  /\ call.op = "prepare"
  /\ \E i \in call.due : IsFirst(i, call.due) /\ MakeDue(i, elapsed, Rest(i))
  /\ UNCHANGED elapsed

Start ==
  /\ Quiet /\ state = "ready"
  /\ state' = "running"
  /\ \E stored \in SinkOutcomes : PersistRunEvent(stored, AdvanceCall(0))
  /\ UNCHANGED <<elapsed, itemVars>>

Pause ==
  /\ Quiet /\ state = "running"
  /\ state' = "paused"
  /\ \E stored \in SinkOutcomes : PersistRunEvent(stored, Idle)
  /\ UNCHANGED <<elapsed, itemVars>>

Resume ==
  /\ Quiet /\ state = "paused"
  /\ state' = "running"
  /\ \E stored \in SinkOutcomes : PersistRunEvent(stored, Idle)
  /\ UNCHANGED <<elapsed, itemVars>>

AdvanceTo(t) ==
  /\ Quiet /\ state = "running" /\ t >= elapsed
  /\ call' = AdvanceCall(t)
  /\ UNCHANGED <<state, elapsed, itemVars, evidence, faults>>

\* The clock jumps to the target before the due items are visited.
AdvanceItem_Bug ==
  /\ call.op = "advance"
  /\ \E i \in call.due : IsFirst(i, call.due) /\ MakeDue(i, call.target, Rest(i))
  /\ elapsed' = call.target
\* The clock moves to the item's second; an observer of it (the scheduled MFA)
\* may fail to write its own event, otherwise the item is made due.
AdvanceItem ==
  /\ call.op = "advance"
  /\ \E i \in call.due :
       /\ IsFirst(i, call.due)
       /\ elapsed' = MSEL[i].at
       /\ \/ MakeDue(i, MSEL[i].at, Rest(i))
          \/ /\ FALSE \in SinkOutcomes
             /\ PersistRunEvent(FALSE, Idle)
             /\ UNCHANGED <<state, itemVars>>

\* Off by one at the end of the advance.
AdvanceEnd_Bug ==
  /\ call.op = "advance" /\ call.due = {}
  /\ elapsed' = call.target - 1
  /\ call' = Idle
  /\ UNCHANGED <<state, itemVars, evidence, faults>>
AdvanceEnd ==
  /\ call.op = "advance" /\ call.due = {}
  /\ elapsed' = call.target
  /\ \E stored \in SinkOutcomes : PersistRunEvent(stored, Idle)
  /\ UNCHANGED <<state, itemVars>>

Deliver(i) ==
  /\ Quiet /\ state \in Live /\ status[i] \in Open
  /\ DeliverItem(i, "facilitator", elapsed, Idle)
  /\ UNCHANGED elapsed

Skip(i) == Quiet /\ state \in Live /\ status[i] \in Open /\ SkipItem(i, Idle)

ResolveCheckpoint(c, result) ==
  /\ Quiet /\ state \in {"running", "paused"} /\ status[c] \in Open
  /\ status' = [status EXCEPT ![c] = "delivered"]
  /\ deliveredAt' = [deliveredAt EXCEPT ![c] = elapsed]
  /\ results' = [results EXCEPT ![c] = result]
  /\ \E stored \in SinkOutcomes :
       Persist(c, <<"resolved", "facilitator">>, stored,
               [op |-> "resolve", due |-> BranchesOf(c), target |-> 0, checkpoint |-> c])
  /\ UNCHANGED <<state, elapsed>>

\* The opposite branch is left as it is instead of being skipped.
ResolveBranchNoSkip_Bug ==
  /\ call.op = "resolve" /\ state # "stopped"
  /\ \E i \in call.due :
       /\ IsFirst(i, call.due)
       /\ IF MSEL[i].outcome = results[call.checkpoint]
          THEN MakeDue(i, elapsed, Rest(i)) /\ UNCHANGED elapsed
          ELSE call' = Rest(i) /\ UNCHANGED <<state, elapsed, itemVars, evidence, faults>>
\* The matching branch is made due; the opposite one is skipped, and skip()
\* raises when that branch was already delivered, skipped or failed.
ResolveBranch ==
  /\ call.op = "resolve" /\ state # "stopped"
  /\ \E i \in call.due :
       /\ IsFirst(i, call.due)
       /\ IF MSEL[i].outcome = results[call.checkpoint]
          THEN MakeDue(i, elapsed, Rest(i)) /\ UNCHANGED elapsed
          ELSE IF state \in Live /\ status[i] \in Open
               THEN SkipItem(i, Rest(i))
               ELSE Reject

\* The end of prepare and resolve_checkpoint, with the break on a stopped run.
CallEnd ==
  /\ \/ call.op \in {"prepare", "resolve"} /\ call.due = {}
     \/ call.op = "resolve" /\ state = "stopped"
  /\ call' = Idle
  /\ UNCHANGED <<state, elapsed, itemVars, evidence, faults>>

FailSafeStop ==
  /\ Quiet /\ state \in Live
  /\ state' = "stopped"
  /\ \E stored \in SinkOutcomes : PersistRunEvent(stored, Idle)
  /\ UNCHANGED <<elapsed, itemVars>>

\* `faults' and `evidence' start again with the new run's ledger.
Reset ==
  /\ Quiet /\ state \in {"stopped", "completed"}
  /\ state' = "ready"
  /\ elapsed' = 0
  /\ status' = [i \in Items |-> "pending"]
  /\ deliveredAt' = [i \in Items |-> -1]
  /\ results' = [c \in Checkpoints |-> "none"]
  /\ evidence' = [i \in Items |-> {}]
  /\ call' = Idle
  /\ \E stored \in SinkOutcomes : faults' = IF stored THEN {} ELSE {"sink"}

Init ==
  /\ state = "ready"
  /\ elapsed = 0
  /\ status = [i \in Items |-> "pending"]
  /\ deliveredAt = [i \in Items |-> -1]
  /\ results = [c \in Checkpoints |-> "none"]
  /\ evidence = [i \in Items |-> {}]
  /\ call = Idle
  /\ faults = {}

\* A step of the operation in progress; it runs to its end under the lock.
CallStep == PrepareItem \/ AdvanceItem \/ AdvanceEnd \/ ResolveBranch \/ CallEnd

Tick == elapsed < Horizon /\ AdvanceTo(elapsed + 1)

Next ==
  \/ CallStep
  \/ Prepare \/ Start \/ Pause \/ Resume \/ FailSafeStop \/ Reset
  \/ \E t \in 0..Horizon : AdvanceTo(t)
  \/ \E i \in Items : Deliver(i) \/ Skip(i)
  \/ \E c \in Checkpoints, result \in Results : ResolveCheckpoint(c, result)

Spec == Init /\ [][Next]_vars

\* A started operation returns (WF).  While the run is running the portal's clock
\* driver asks for the run lock every second and in the end gets it, however
\* often requests hold it in between (SF).  Nobody else is obliged to act.
FairSpec == Spec /\ WF_vars(CallStep) /\ SF_vars(Tick)

-------------------------------------------------------------------------------
(***************************************************************************)
(* The inductive invariant behind the clock properties.  A run that has    *)
(* not started is at second 0; during an advance the items still due lie   *)
(* between the clock and the target, and no other pending item does.       *)
(***************************************************************************)
ReadyAtZero == state = "ready" => elapsed = 0

AdvanceCovers ==
  call.op = "advance" =>
    /\ state # "ready" /\ elapsed <= call.target
    /\ call.due \subseteq Timed
    /\ \A i \in call.due : elapsed <= MSEL[i].at /\ MSEL[i].at <= call.target
    /\ \A i \in Timed :
         status[i] = "pending" /\ MSEL[i].at <= call.target => i \in call.due

(***************************************************************************)
(* Safety.                                                                 *)
(***************************************************************************)

\* advance_to never leaves an item behind the clock: an elapsed-triggered item
\* whose second has gone by is no longer pending, even when a handler, the sink
\* or a clock observer failed part way through a jump over several items.
NothingBehindTheClock ==
  \A i \in Timed : MSEL[i].at < elapsed => status[i] # "pending"

ClockInv == TypeOK /\ ReadyAtZero /\ AdvanceCovers /\ NothingBehindTheClock

\* A clock-driven delivery happens at the item's own second, whether the clock
\* came there in one-second ticks or jumped over it (_advance_clock before
\* _make_due in advance_to).
DeliveredOnTime ==
  \A i \in Timed :
    <<"delivered", "controller">> \in evidence[i] => deliveredAt[i] = MSEL[i].at

\* resolve_checkpoint lets the controller itself execute a branch item only
\* after its checkpoint was resolved with the outcome of that branch.
BranchFollowsResult ==
  \A c \in Checkpoints : \A i \in BranchesOf(c) :
    <<"delivered", "controller">> \in evidence[i] => results[c] = MSEL[i].outcome

\* When no call of the run ended early, a resolved checkpoint leaves no branch
\* waiting, and no opposite branch that could still be delivered later.
BranchesSettled ==
  faults = {} /\ Quiet /\ state # "stopped" =>
    \A c \in Checkpoints : results[c] # "none" =>
      \A i \in BranchesOf(c) :
        /\ status[i] # "pending"
        /\ MSEL[i].outcome # results[c] => status[i] # "ready"

\* The events an item may have on its way to each status.
Course ==
  [pending |-> {}, ready |-> {"ready"}, delivered |-> {"ready", "delivered", "resolved"},
   skipped |-> {"ready", "skipped"}, failed |-> {"ready", "failed"}]

\* Whatever events the sink refuses, a stored one never speaks of an item that went
\* another way, nor do two different ones report the end of an item.  As long as none
\* was refused, none is missing either: the ledger alone tells every status.
EvidenceTellsStatus ==
  \A i \in Items :
    /\ {event[1] : event \in evidence[i]} \subseteq Course[status[i]]
    /\ \A e, f \in evidence[i] : e[1] # "ready" /\ f[1] # "ready" => e = f
    /\ "sink" \notin faults =>
         /\ status[i] # "pending" => evidence[i] # {}
         /\ status[i] \notin Open => \E event \in evidence[i] : event[1] # "ready"

(***************************************************************************)
(* Action properties.                                                      *)
(***************************************************************************)

\* The exercise clock never moves back within a run, although the advance loop
\* assigns it the second of each due item without comparing.
ClockNeverRetreats == [][elapsed' >= elapsed \/ Reset]_vars

\* The clock makes items due in the reviewed (seconds, order) order: when it
\* touches an item, no earlier elapsed item is still pending.
DueInReviewedOrder ==
  [][\A i \in Timed :
       call.op = "advance" /\ status'[i] # status[i] =>
         \A j \in Timed : Before(j, i) => status[j] # "pending"]_vars

(***************************************************************************)
(* Liveness.                                                               *)
(***************************************************************************)

\* While the run keeps running, the supervised clock reaches every elapsed
\* item up to the horizon: it is made due, unless the run pauses or ends.
EveryTimedItemComesDue ==
  \A i \in Timed :
    (state = "running" /\ MSEL[i].at < Horizon) ~>
      (status[i] # "pending" \/ state # "running")
===============================================================================
