----------------------- MODULE ScenarioControllerProofs -----------------------
(***************************************************************************)
(* Proofs about ScenarioController, for every scenario that satisfies      *)
(* MSELAssumption, every horizon, and handlers and sinks that may fail at  *)
(* any call.                                                               *)
(***************************************************************************)
EXTENDS ScenarioController, TLAPS

\* Persist stores the event or ends the call; in both cases the types are kept.
LEMMA PersistEffect ==
  ASSUME TypeOK, NEW i \in Items, NEW event \in EventTypes \X Roles,
         NEW stored \in BOOLEAN, NEW rest, Persist(i, event, stored, rest)
  PROVE  /\ call' \in {rest, Idle}
         /\ evidence' \in [Items -> SUBSET (EventTypes \X Roles)]
         /\ faults' \in SUBSET {"sink", "rejected"}
<1> DEFINE Events == EventTypes \X Roles
<1>1. CASE stored
  <2>1. evidence \in [Items -> SUBSET Events] /\ event \in Events
    BY DEF TypeOK
  <2>2. evidence' = [evidence EXCEPT ![i] = @ \cup {event}]
    BY <1>1 DEF Persist
  <2> HIDE DEF Events
  <2>3. evidence' \in [Items -> SUBSET Events]
    BY <2>1, <2>2
  <2>4. QED
    BY <1>1, <2>3 DEF Persist, TypeOK, Events
<1>2. CASE ~stored
  BY <1>2 DEF Persist, TypeOK
<1>3. QED
  BY <1>1, <1>2

\* What treating one item may change: only that item, which is pending no more,
\* and the call goes on with `rest' or ends.
LEMMA ItemEffect ==
  ASSUME TypeOK, NEW i \in Items, NEW role \in Roles, NEW now \in Nat,
         NEW rest \in Calls,
         DeliverItem(i, role, now, rest)
  PROVE  /\ state' \in RunStates
         /\ state' = "ready" => state = "ready"
         /\ status' \in [Items -> ItemStatuses]
         /\ status'[i] # "pending"
         /\ \A j \in Items \ {i} : status'[j] = status[j]
         /\ deliveredAt' \in [Items -> Nat \cup {-1}]
         /\ results' = results
         /\ call' \in {rest, Idle}
         /\ evidence' \in [Items -> SUBSET (EventTypes \X Roles)]
         /\ faults' \in SUBSET {"sink", "rejected"}
<1>1. CASE Succeed(i, role, now, rest)
  <2>1. <<"delivered", role>> \in EventTypes \X Roles
    BY DEF EventTypes
  <2>2. PICK stored \in SinkOutcomes :
          /\ Persist(i, <<"delivered", role>>, stored, rest)
          /\ state' = IF stored /\ MSEL[i].kind = "end" THEN "completed" ELSE state
    BY <1>1 DEF Succeed
  <2>3. /\ call' \in {rest, Idle}
        /\ evidence' \in [Items -> SUBSET (EventTypes \X Roles)]
        /\ faults' \in SUBSET {"sink", "rejected"}
    BY <2>1, <2>2, PersistEffect, EnvironmentAssumption
  <2>4. QED
    BY <1>1, <2>2, <2>3 DEF Succeed, TypeOK, ItemStatuses, RunStates
<1>2. CASE Fail(i, role, rest)
  <2>1. <<"failed", "controller">> \in EventTypes \X Roles
    BY DEF EventTypes, Roles
  <2>2. PICK stored \in SinkOutcomes :
          Persist(i, <<"failed", "controller">>, stored, rest)
    BY <1>2 DEF Fail
  <2>3. /\ call' \in {rest, Idle}
        /\ evidence' \in [Items -> SUBSET (EventTypes \X Roles)]
        /\ faults' \in SUBSET {"sink", "rejected"}
    BY <2>1, <2>2, PersistEffect, EnvironmentAssumption
  <2>4. QED
    BY <1>2, <2>3 DEF Fail, TypeOK, ItemStatuses, RunStates
<1>3. QED
  BY <1>1, <1>2 DEF DeliverItem

\* The same for an item that comes due.
LEMMA DueEffect ==
  ASSUME TypeOK, NEW i \in Items, NEW now \in Nat, NEW rest \in Calls,
         MakeDue(i, now, rest)
  PROVE  /\ state' \in RunStates
         /\ state' = "ready" => state = "ready"
         /\ status' \in [Items -> ItemStatuses]
         /\ status'[i] # "pending"
         /\ \A j \in Items \ {i} : status'[j] = status[j]
         /\ deliveredAt' \in [Items -> Nat \cup {-1}]
         /\ results' = results
         /\ call' \in {rest, Idle}
         /\ evidence' \in [Items -> SUBSET (EventTypes \X Roles)]
         /\ faults' \in SUBSET {"sink", "rejected"}
<1>1. CASE status[i] # "pending" /\ call' = rest
           /\ UNCHANGED <<state, status, deliveredAt, results, evidence, faults>>
  BY <1>1 DEF TypeOK
<1>2. CASE MakeReady(i, rest)
  <2>1. <<"ready", "controller">> \in EventTypes \X Roles
    BY DEF EventTypes, Roles
  <2>2. PICK stored \in SinkOutcomes :
          Persist(i, <<"ready", "controller">>, stored, rest)
    BY <1>2 DEF MakeReady
  <2>3. /\ call' \in {rest, Idle}
        /\ evidence' \in [Items -> SUBSET (EventTypes \X Roles)]
        /\ faults' \in SUBSET {"sink", "rejected"}
    BY <2>1, <2>2, PersistEffect, EnvironmentAssumption
  <2>4. QED
    BY <1>2, <2>3 DEF MakeReady, TypeOK, ItemStatuses
<1>3. CASE DeliverItem(i, "controller", now, rest)
  <2>1. "controller" \in Roles
    BY DEF Roles
  <2>2. QED
    BY <1>3, <2>1, ItemEffect
<1>4. QED
  BY <1>1, <1>2, <1>3 DEF MakeDue

\* The same for an item that is skipped.
LEMMA SkipEffect ==
  ASSUME TypeOK, NEW i \in Items, NEW rest \in Calls, SkipItem(i, rest)
  PROVE  /\ UNCHANGED <<state, elapsed, deliveredAt, results>>
         /\ status' \in [Items -> ItemStatuses]
         /\ status'[i] # "pending"
         /\ \A j \in Items \ {i} : status'[j] = status[j]
         /\ call' \in {rest, Idle}
         /\ evidence' \in [Items -> SUBSET (EventTypes \X Roles)]
         /\ faults' \in SUBSET {"sink", "rejected"}
<1>1. <<"skipped", "facilitator">> \in EventTypes \X Roles
  BY DEF EventTypes, Roles
<1>2. PICK stored \in SinkOutcomes :
        Persist(i, <<"skipped", "facilitator">>, stored, rest)
  BY DEF SkipItem
<1>3. /\ call' \in {rest, Idle}
      /\ evidence' \in [Items -> SUBSET (EventTypes \X Roles)]
      /\ faults' \in SUBSET {"sink", "rejected"}
  BY <1>1, <1>2, PersistEffect, EnvironmentAssumption
<1>4. QED
  BY <1>3 DEF SkipItem, TypeOK, ItemStatuses

\* Constants of a loaded scenario, and what is left of a call, are well-typed.
\* An element of a sequence over S is in S.
LEMMA SeqElements ==
  ASSUME NEW S, NEW s \in Seq(S)
  PROVE  DOMAIN s \subseteq Nat /\ \A i \in DOMAIN s : s[i] \in S
OBVIOUS

LEMMA ItemFacts ==
  /\ Idle \in Calls
  /\ Checkpoints \subseteq Items /\ Timed \subseteq Items
  /\ \A c : BranchesOf(c) \subseteq Items
  /\ Items \subseteq Nat
  /\ \A i \in Items : MSEL[i].at \in Nat /\ MSEL[i].order \in Nat
<1>1. MSEL \in Seq(ItemDefinition)
  BY MSELAssumption
<1>2. Items \subseteq Nat /\ \A i \in Items : MSEL[i] \in ItemDefinition
  BY <1>1, SeqElements DEF Items
<1>3. QED
  BY <1>2 DEF ItemDefinition, Idle, Calls, Checkpoints, Timed, BranchesOf

\* What is left of a call after one of its items.
LEMMA RestTyped ==
  ASSUME TypeOK, NEW i
  PROVE  /\ Rest(i) \in Calls
         /\ Rest(i).op = call.op
         /\ Rest(i).due = call.due \ {i}
         /\ Rest(i).target = call.target
         /\ Rest(i).checkpoint = call.checkpoint
BY DEF TypeOK, Calls, Rest
(***************************************************************************)
(* The clock invariant is inductive: one lemma for the steps of a call in  *)
(* progress, one for the operations of the facilitator and the driver.     *)
(***************************************************************************)

LEMMA InitClock == Init => ClockInv
<1> SUFFICES ASSUME Init PROVE ClockInv
  OBVIOUS
<1>1. TypeOK
  BY ItemFacts DEF Init, TypeOK, RunStates, ItemStatuses, Results
<1>2. ReadyAtZero /\ AdvanceCovers
  BY DEF Init, ReadyAtZero, AdvanceCovers, Idle
<1>3. NothingBehindTheClock
  BY ItemFacts DEF Init, NothingBehindTheClock
<1>4. QED
  BY <1>1, <1>2, <1>3 DEF ClockInv

\* A call that ends leaves an item behind the clock only if it moved the clock.
LEMMA IdleKeeps ==
  ASSUME ClockInv, TypeOK', elapsed' = elapsed, call'.op # "advance",
         state' = "ready" => state = "ready",
         \A j \in Items : status'[j] = "pending" => status[j] = "pending"
  PROVE  ClockInv'
BY ItemFacts DEF ClockInv, ReadyAtZero, AdvanceCovers, NothingBehindTheClock

LEMMA AdvanceItemClock == ClockInv /\ AdvanceItem => ClockInv' /\ elapsed <= elapsed'
<1> SUFFICES ASSUME ClockInv, AdvanceItem PROVE ClockInv' /\ elapsed <= elapsed'
  OBVIOUS
<1> USE DEF ClockInv
<1>1. PICK i \in call.due :
        /\ IsFirst(i, call.due)
        /\ elapsed' = MSEL[i].at
        /\ \/ MakeDue(i, MSEL[i].at, Rest(i))
           \/ /\ FALSE \in SinkOutcomes
              /\ PersistRunEvent(FALSE, Idle)
              /\ UNCHANGED <<state, itemVars>>
  BY DEF AdvanceItem
<1>2. /\ call \in Calls /\ call.op = "advance"
      /\ i \in Timed /\ i \in Items
      /\ MSEL[i].at \in Nat /\ elapsed <= MSEL[i].at /\ MSEL[i].at <= call.target
      /\ call.target \in Nat
      /\ state # "ready"
  BY <1>1, ItemFacts DEF AdvanceItem, AdvanceCovers, TypeOK, Calls
<1>3. \A j \in call.due : MSEL[j].at \in Nat /\ MSEL[i].at <= MSEL[j].at
  BY <1>1, <1>2, ItemFacts DEF IsFirst, Before, TypeOK, Calls
<1>4. \A j \in Timed : status[j] = "pending" => MSEL[i].at <= MSEL[j].at
  BY <1>2, <1>3, ItemFacts DEF AdvanceCovers
<1>5. CASE MakeDue(i, MSEL[i].at, Rest(i))
  <2>1. Rest(i) \in Calls /\ Rest(i).op = "advance"
        /\ Rest(i).due = call.due \ {i} /\ Rest(i).target = call.target
    BY <1>2, RestTyped
  <2>2. /\ TypeOK'
        /\ state' # "ready"
        /\ call' \in {Rest(i), Idle}
        /\ \A j \in Items : status'[j] = "pending" => status[j] = "pending" /\ j # i
    BY <1>1, <1>2, <1>5, <2>1, DueEffect, ItemFacts DEF TypeOK
  <2>3. NothingBehindTheClock'
    BY <1>1, <1>2, <1>4, <2>2, ItemFacts DEF NothingBehindTheClock
  <2>4. AdvanceCovers'
    <3>1. CASE call' = Rest(i)
      BY <1>1, <1>2, <1>3, <2>1, <2>2, <3>1, ItemFacts DEF AdvanceCovers
    <3>2. CASE call' = Idle
      BY <3>2 DEF AdvanceCovers, Idle
    <3>3. QED
      BY <2>2, <3>1, <3>2
  <2>5. QED
    BY <1>1, <1>2, <2>2, <2>3, <2>4 DEF ReadyAtZero
<1>6. CASE PersistRunEvent(FALSE, Idle) /\ UNCHANGED <<state, itemVars>>
  <2>1. TypeOK'
    BY <1>1, <1>2, <1>6, ItemFacts DEF TypeOK, PersistRunEvent, itemVars
  <2>2. NothingBehindTheClock'
    BY <1>1, <1>2, <1>4, <1>6, ItemFacts DEF NothingBehindTheClock, itemVars
  <2>3. AdvanceCovers' /\ ReadyAtZero'
    BY <1>2, <1>6 DEF AdvanceCovers, ReadyAtZero, PersistRunEvent, Idle
  <2>4. QED
    BY <1>1, <1>2, <2>1, <2>2, <2>3
<1>7. QED
  BY <1>1, <1>5, <1>6

LEMMA AdvanceEndClock == ClockInv /\ AdvanceEnd => ClockInv' /\ elapsed <= elapsed'
<1> SUFFICES ASSUME ClockInv, AdvanceEnd PROVE ClockInv' /\ elapsed <= elapsed'
  OBVIOUS
<1> USE DEF ClockInv
<1>1. /\ call.op = "advance" /\ call.due = {} /\ elapsed' = call.target
      /\ call.target \in Nat /\ elapsed <= call.target
      /\ state # "ready" /\ state' = state /\ UNCHANGED itemVars
  BY DEF AdvanceEnd, AdvanceCovers, TypeOK, Calls
<1>2. PICK stored \in SinkOutcomes : PersistRunEvent(stored, Idle)
  BY DEF AdvanceEnd
<1>3. TypeOK' /\ call' = Idle
  BY <1>1, <1>2, ItemFacts DEF TypeOK, PersistRunEvent, itemVars
<1>4. NothingBehindTheClock'
  BY <1>1, ItemFacts DEF NothingBehindTheClock, AdvanceCovers, itemVars
<1>5. QED
  BY <1>1, <1>3, <1>4 DEF AdvanceCovers, ReadyAtZero, Idle

LEMMA PrepareItemClock == ClockInv /\ PrepareItem => ClockInv' /\ elapsed' = elapsed
<1> SUFFICES ASSUME ClockInv, PrepareItem PROVE ClockInv' /\ elapsed' = elapsed
  OBVIOUS
<1>1. PICK i \in call.due : IsFirst(i, call.due) /\ MakeDue(i, elapsed, Rest(i))
  BY DEF PrepareItem
<1>2. TypeOK /\ i \in Items /\ elapsed \in Nat /\ elapsed' = elapsed
      /\ call \in Calls /\ call.op = "prepare"
  BY <1>1 DEF ClockInv, TypeOK, Calls, PrepareItem
<1>3. Rest(i) \in Calls /\ Rest(i).op = "prepare"
  BY <1>2, RestTyped
<1>4. /\ state' \in RunStates
      /\ state' = "ready" => state = "ready"
      /\ status' \in [Items -> ItemStatuses]
      /\ \A j \in Items : status'[j] = "pending" => status[j] = "pending"
      /\ deliveredAt' \in [Items -> Nat \cup {-1}]
      /\ results' = results
      /\ call' \in {Rest(i), Idle}
      /\ evidence' \in [Items -> SUBSET (EventTypes \X Roles)]
      /\ faults' \in SUBSET {"sink", "rejected"}
  BY <1>1, <1>2, <1>3, DueEffect
<1>5. call'.op # "advance" /\ call' \in Calls
  BY <1>3, <1>4, ItemFacts DEF Idle
<1>6. TypeOK'
  BY <1>2, <1>4, <1>5 DEF TypeOK
<1>7. QED
  BY <1>2, <1>4, <1>5, <1>6, IdleKeeps

LEMMA ResolveBranchClock == ClockInv /\ ResolveBranch => ClockInv' /\ elapsed' = elapsed
<1> SUFFICES ASSUME ClockInv, ResolveBranch PROVE ClockInv' /\ elapsed' = elapsed
  OBVIOUS
<1>1. PICK i \in call.due :
        \/ MakeDue(i, elapsed, Rest(i)) /\ UNCHANGED elapsed
        \/ SkipItem(i, Rest(i))
        \/ Reject
  BY DEF ResolveBranch
<1>2. TypeOK /\ i \in Items /\ elapsed \in Nat /\ call \in Calls /\ call.op = "resolve"
  BY <1>1 DEF ClockInv, TypeOK, Calls, ResolveBranch
<1>3. Rest(i) \in Calls /\ Rest(i).op = "resolve"
  BY <1>2, RestTyped
<1>4. CASE MakeDue(i, elapsed, Rest(i)) /\ UNCHANGED elapsed
  <2>1. /\ state' \in RunStates
        /\ state' = "ready" => state = "ready"
        /\ status' \in [Items -> ItemStatuses]
        /\ \A j \in Items : status'[j] = "pending" => status[j] = "pending"
        /\ deliveredAt' \in [Items -> Nat \cup {-1}]
        /\ results' = results
        /\ call' \in {Rest(i), Idle}
        /\ evidence' \in [Items -> SUBSET (EventTypes \X Roles)]
        /\ faults' \in SUBSET {"sink", "rejected"}
    BY <1>2, <1>3, <1>4, DueEffect
  <2>2. call'.op # "advance" /\ call' \in Calls
    BY <1>3, <2>1, ItemFacts DEF Idle
  <2>3. TypeOK'
    BY <1>2, <1>4, <2>1, <2>2 DEF TypeOK
  <2>4. QED
    BY <1>4, <2>1, <2>2, <2>3, IdleKeeps
<1>5. CASE SkipItem(i, Rest(i))
  <2>1. /\ UNCHANGED <<state, elapsed, deliveredAt, results>>
        /\ status' \in [Items -> ItemStatuses]
        /\ \A j \in Items : status'[j] = "pending" => status[j] = "pending"
        /\ call' \in {Rest(i), Idle}
        /\ evidence' \in [Items -> SUBSET (EventTypes \X Roles)]
        /\ faults' \in SUBSET {"sink", "rejected"}
    BY <1>2, <1>3, <1>5, SkipEffect
  <2>2. call'.op # "advance" /\ call' \in Calls
    BY <1>3, <2>1, ItemFacts DEF Idle
  <2>3. TypeOK'
    BY <1>2, <2>1, <2>2 DEF TypeOK
  <2>4. QED
    BY <2>1, <2>2, <2>3, IdleKeeps
<1>6. CASE Reject
  <2>1. TypeOK' /\ elapsed' = elapsed /\ state' = state /\ status' = status
        /\ call'.op # "advance"
    BY <1>2, <1>6, ItemFacts DEF TypeOK, Reject, Idle
  <2>2. QED
    BY <2>1, IdleKeeps
<1>7. QED
  BY <1>1, <1>4, <1>5, <1>6

\* Start and AdvanceTo begin an advance whose due list is exactly the overdue items.
LEMMA BeginAdvance ==
  ASSUME ClockInv, NEW t \in Nat, elapsed <= t, TypeOK', UNCHANGED <<elapsed, status>>,
         state' # "ready", call' \in {AdvanceCall(t), Idle}
  PROVE  ClockInv'
<1>1. CASE call' = AdvanceCall(t)
  <2> elapsed \in Nat
    BY DEF ClockInv, TypeOK
  <2>1. \A i \in Overdue(t) : elapsed <= MSEL[i].at
    BY ItemFacts DEF ClockInv, NothingBehindTheClock, Overdue
  <2>2. AdvanceCovers'
    BY <1>1, <2>1, ItemFacts DEF AdvanceCovers, AdvanceCall, Overdue
  <2>3. QED
    BY <2>2 DEF ClockInv, ReadyAtZero, NothingBehindTheClock
<1>2. CASE call' = Idle
  BY <1>2 DEF ClockInv, ReadyAtZero, NothingBehindTheClock, AdvanceCovers, Idle
<1>3. QED
  BY <1>1, <1>2

LEMMA CallTyped ==
  /\ \A t \in Nat : AdvanceCall(t) \in Calls /\ AdvanceCall(t).op = "advance"
  /\ Idle.op = "idle"
BY ItemFacts DEF AdvanceCall, Calls, Overdue, Idle

LEMMA StartClock == ClockInv /\ Start => ClockInv' /\ elapsed' = elapsed
<1> SUFFICES ASSUME ClockInv, Start PROVE ClockInv' /\ elapsed' = elapsed
  OBVIOUS
<1>1. PICK stored \in SinkOutcomes : PersistRunEvent(stored, AdvanceCall(0))
  BY DEF Start
<1>2. /\ elapsed = 0 /\ state' = "running"
      /\ UNCHANGED <<elapsed, status, deliveredAt, results>>
  BY DEF ClockInv, ReadyAtZero, Start, itemVars
<1>3. call' \in {AdvanceCall(0), Idle} /\ evidence' = evidence
      /\ faults' \in SUBSET {"sink", "rejected"}
  BY <1>1 DEF PersistRunEvent, ClockInv, TypeOK
<1>4. TypeOK'
  BY <1>2, <1>3, CallTyped, ItemFacts DEF ClockInv, TypeOK, RunStates
<1>5. QED
  BY <1>2, <1>3, <1>4, BeginAdvance

LEMMA AdvanceToClock ==
  ASSUME ClockInv, NEW t \in Nat, AdvanceTo(t)
  PROVE  ClockInv' /\ elapsed' = elapsed
<1>1. TypeOK'
  BY CallTyped DEF ClockInv, AdvanceTo, TypeOK, itemVars
<1>2. QED
  BY <1>1, BeginAdvance DEF AdvanceTo, itemVars

\* Pause, Resume and FailSafeStop only change the state of the run.
LEMMA RunStateClock ==
  ClockInv /\ (Pause \/ Resume \/ FailSafeStop) => ClockInv' /\ elapsed' = elapsed
<1> SUFFICES ASSUME ClockInv, Pause \/ Resume \/ FailSafeStop
             PROVE  ClockInv' /\ elapsed' = elapsed
  OBVIOUS
<1>1. PICK stored \in SinkOutcomes : PersistRunEvent(stored, Idle)
  BY DEF Pause, Resume, FailSafeStop
<1>2. /\ state' \in {"running", "paused", "stopped"}
      /\ UNCHANGED <<elapsed, status, deliveredAt, results>>
  BY DEF Pause, Resume, FailSafeStop, itemVars
<1>3. call' = Idle /\ evidence' = evidence /\ faults' \in SUBSET {"sink", "rejected"}
  BY <1>1 DEF PersistRunEvent, ClockInv, TypeOK
<1>4. TypeOK'
  BY <1>2, <1>3, ItemFacts DEF ClockInv, TypeOK, RunStates
<1>5. QED
  BY <1>2, <1>3, <1>4, CallTyped, IdleKeeps

LEMMA PrepareClock == ClockInv /\ (Prepare \/ CallEnd) => ClockInv' /\ elapsed' = elapsed
<1> SUFFICES ASSUME ClockInv, Prepare \/ CallEnd PROVE ClockInv' /\ elapsed' = elapsed
  OBVIOUS
<1>1. UNCHANGED <<state, elapsed, status, deliveredAt, results, evidence, faults>>
  BY DEF Prepare, CallEnd, itemVars
<1>2. call' \in Calls /\ call'.op # "advance"
  BY ZenonT(60), ItemFacts DEF Prepare, CallEnd, Idle, Calls
<1>3. TypeOK'
  BY <1>1, <1>2 DEF ClockInv, TypeOK
<1>4. QED
  BY <1>1, <1>2, <1>3, IdleKeeps

LEMMA DeliverClock ==
  ASSUME ClockInv, NEW i \in Items, Deliver(i) \/ Skip(i)
  PROVE  ClockInv' /\ elapsed' = elapsed
<1>1. TypeOK /\ elapsed \in Nat /\ "facilitator" \in Roles
  BY DEF ClockInv, TypeOK, Roles
<1>2. CASE Deliver(i)
  <2>1. DeliverItem(i, "facilitator", elapsed, Idle) /\ elapsed' = elapsed
    BY <1>2 DEF Deliver
  <2>2. /\ TypeOK' /\ call' = Idle
        /\ state' = "ready" => state = "ready"
        /\ \A j \in Items : status'[j] = "pending" => status[j] = "pending"
    BY <1>1, <2>1, ItemEffect, ItemFacts DEF TypeOK
  <2>3. QED
    BY <2>1, <2>2, CallTyped, IdleKeeps
<1>3. CASE Skip(i)
  <2>1. SkipItem(i, Idle)
    BY <1>3 DEF Skip
  <2>2. /\ TypeOK' /\ call' = Idle /\ state' = state /\ elapsed' = elapsed
        /\ \A j \in Items : status'[j] = "pending" => status[j] = "pending"
    BY <1>1, <2>1, SkipEffect, ItemFacts DEF TypeOK
  <2>3. QED
    BY <2>2, CallTyped, IdleKeeps
<1>4. QED
  BY <1>2, <1>3

LEMMA ResolveClock ==
  ASSUME ClockInv, NEW c \in Checkpoints, NEW result \in Results,
         ResolveCheckpoint(c, result)
  PROVE  ClockInv' /\ elapsed' = elapsed
<1> DEFINE branches ==
      [op |-> "resolve", due |-> BranchesOf(c), target |-> 0, checkpoint |-> c]
<1>1. branches \in Calls /\ branches.op = "resolve" /\ c \in Items
  BY ItemFacts DEF Calls
<1>2. <<"resolved", "facilitator">> \in EventTypes \X Roles /\ TypeOK
  BY DEF EventTypes, Roles, ClockInv
<1>3. PICK stored \in SinkOutcomes :
        Persist(c, <<"resolved", "facilitator">>, stored, branches)
  BY DEF ResolveCheckpoint
<1> HIDE DEF branches
<1>4. /\ call' \in {branches, Idle}
      /\ evidence' \in [Items -> SUBSET (EventTypes \X Roles)]
      /\ faults' \in SUBSET {"sink", "rejected"}
  BY <1>1, <1>2, <1>3, PersistEffect, EnvironmentAssumption
<1>5. /\ UNCHANGED <<state, elapsed>>
      /\ status' = [status EXCEPT ![c] = "delivered"]
      /\ deliveredAt' = [deliveredAt EXCEPT ![c] = elapsed]
      /\ results' = [results EXCEPT ![c] = result]
  BY DEF ResolveCheckpoint
<1>6. TypeOK'
  BY <1>1, <1>2, <1>4, <1>5, ItemFacts DEF TypeOK, ItemStatuses
<1>7. call'.op # "advance"
  BY <1>1, <1>4, CallTyped
<1>8. \A j \in Items : status'[j] = "pending" => status[j] = "pending"
  BY <1>1, <1>2, <1>5 DEF TypeOK
<1>9. QED
  BY <1>5, <1>6, <1>7, <1>8, IdleKeeps

LEMMA ResetClock == ClockInv /\ Reset => ClockInv'
<1> SUFFICES ASSUME ClockInv, Reset PROVE ClockInv'
  OBVIOUS
<1>1. TypeOK'
  BY ItemFacts DEF Reset, TypeOK, RunStates, ItemStatuses
<1>2. QED
  BY <1>1, CallTyped, ItemFacts
  DEF Reset, ClockInv, ReadyAtZero, AdvanceCovers, NothingBehindTheClock

\* Every step keeps the invariant, and only Reset may move the clock back.
LEMMA NextClock == ClockInv /\ [Next]_vars => ClockInv' /\ (elapsed' >= elapsed \/ Reset)
<1> SUFFICES ASSUME ClockInv, [Next]_vars PROVE ClockInv' /\ (elapsed' >= elapsed \/ Reset)
  OBVIOUS
<1>1. elapsed \in Nat
  BY DEF ClockInv, TypeOK
<1>2. CASE CallStep
  <2>1. ClockInv' /\ (elapsed' = elapsed \/ elapsed <= elapsed')
    BY <1>2, PrepareItemClock, AdvanceItemClock, AdvanceEndClock, ResolveBranchClock,
       PrepareClock DEF CallStep
  <2>2. elapsed' \in Nat
    BY <2>1 DEF ClockInv, TypeOK
  <2>3. QED
    BY <1>1, <2>1, <2>2
<1>3. CASE Prepare \/ Start \/ Pause \/ Resume \/ FailSafeStop
  BY <1>1, <1>3, PrepareClock, StartClock, RunStateClock
<1>4. CASE Reset
  BY <1>4, ResetClock
<1>5. CASE \E t \in 0..Horizon : AdvanceTo(t)
  BY <1>1, <1>5, AdvanceToClock, HorizonAssumption
<1>6. CASE \E i \in Items : Deliver(i) \/ Skip(i)
  BY <1>1, <1>6, DeliverClock
<1>7. CASE \E c \in Checkpoints, result \in Results : ResolveCheckpoint(c, result)
  BY <1>1, <1>7, ResolveClock
<1>8. CASE UNCHANGED vars
  <2>1. ClockInv'
    BY <1>8 DEF vars, ClockInv, TypeOK, ReadyAtZero, AdvanceCovers,
                NothingBehindTheClock
  <2>2. QED
    BY <1>1, <1>8, <2>1 DEF vars
<1>9. QED
  BY <1>2, <1>3, <1>4, <1>5, <1>6, <1>7, <1>8 DEF Next

\* The clock invariant holds in every reachable state of every scenario.
THEOREM ClockInvariant == Spec => []ClockInv
BY InitClock, NextClock, PTL DEF Spec

\* Every variable of the controller keeps its type, whatever handlers and sinks do.
THEOREM TypeCorrect == Spec => []TypeOK
<1>1. ClockInv => TypeOK
  BY DEF ClockInv
<1>2. QED
  BY <1>1, ClockInvariant, PTL

\* advance_to leaves no pending item behind the clock, for any scenario, any jump
\* and any failure of a handler, of the sink or of a clock observer.
THEOREM NothingLeftBehind == Spec => []NothingBehindTheClock
<1>1. ClockInv => NothingBehindTheClock
  BY DEF ClockInv
<1>2. QED
  BY <1>1, ClockInvariant, PTL

\* The exercise clock never moves back within a run (_advance_clock assigns the
\* second of each due item without comparing it to the clock).
THEOREM ClockIsMonotone == Spec => ClockNeverRetreats
<1>1. ClockInv /\ [Next]_vars => [elapsed' >= elapsed \/ Reset]_vars
  BY NextClock
<1>2. QED
  BY <1>1, ClockInvariant, PTL DEF Spec, ClockNeverRetreats

-------------------------------------------------------------------------------
(***************************************************************************)
(* What the controller executes by itself: a branch only for the result of *)
(* its checkpoint, and a timed item only at its own second; and what the   *)
(* evidence and a resolved checkpoint say of the items.                    *)
(***************************************************************************)

\* The items that a call in progress still visits are those it was made for.
CallScope ==
  /\ call.op = "prepare" => \A i \in call.due : MSEL[i].trigger = "pre_exercise"
  /\ call.op = "advance" => call.due \subseteq Timed
  /\ call.op = "resolve" => call.due \subseteq BranchesOf(call.checkpoint)

\* A checkpoint that has a result cannot be resolved again.
ResolvedIsClosed == \A c \in Checkpoints : results[c] # "none" => status[c] \notin Open

\* The controller itself has executed the item.
Ran(i) == <<"delivered", "controller">> \in evidence[i]

BranchInv == CallScope /\ ResolvedIsClosed /\ BranchFollowsResult

\* The results allow the controller to execute the item.
Permitted(i) == \A c \in Checkpoints : i \in BranchesOf(c) => results[c] = MSEL[i].outcome

-------------------------------------------------------------------------------
\* A stored event is added to the item it is about.
LEMMA PersistRecords ==
  ASSUME TypeOK, NEW i \in Items, NEW event, NEW stored, NEW rest,
         Persist(i, event, stored, rest), NEW j \in Items, Ran(j)'
  PROVE  Ran(j) \/ (j = i /\ event = <<"delivered", "controller">>)
<1>1. CASE stored
  BY <1>1 DEF Persist, Ran, TypeOK
<1>2. CASE ~stored
  BY <1>2 DEF Persist, Ran
<1>3. QED
  BY <1>1, <1>2

\* A delivery closes the item, and counts as the controller's when it made it.
LEMMA DeliveryRecords ==
  ASSUME TypeOK, NEW i \in Items, NEW role, NEW now, NEW rest,
         DeliverItem(i, role, now, rest)
  PROVE  /\ \A j \in Items : Ran(j)' => Ran(j) \/ (j = i /\ role = "controller")
         /\ \A j \in Items : status'[j] \in Open => status[j] \in Open
<1>1. CASE Succeed(i, role, now, rest)
  <2>1. PICK stored \in SinkOutcomes : Persist(i, <<"delivered", role>>, stored, rest)
    BY <1>1 DEF Succeed
  <2>2. ASSUME NEW j \in Items, Ran(j)' PROVE Ran(j) \/ (j = i /\ role = "controller")
    <3>1. Ran(j) \/ (j = i /\ <<"delivered", role>> = <<"delivered", "controller">>)
      BY <2>1, <2>2, PersistRecords
    <3>2. QED
      BY <3>1
  <2>3. QED
    BY <1>1, <2>2 DEF Succeed, TypeOK, Open
<1>2. CASE Fail(i, role, rest)
  <2>1. PICK stored \in SinkOutcomes : Persist(i, <<"failed", "controller">>, stored, rest)
    BY <1>2 DEF Fail
  <2>2. <<"failed", "controller">> # <<"delivered", "controller">>
    OBVIOUS
  <2>3. \A j \in Items : Ran(j)' => Ran(j)
    BY <2>1, <2>2, PersistRecords
  <2>4. QED
    BY <1>2, <2>3 DEF Fail, TypeOK, Open
<1>3. QED
  BY <1>1, <1>2 DEF DeliverItem

\* An item that comes due is executed by the controller, held, or left alone.
LEMMA DueRecords ==
  ASSUME TypeOK, NEW i \in Items, NEW now, NEW rest, MakeDue(i, now, rest)
  PROVE  /\ \A j \in Items : Ran(j)' => Ran(j) \/ j = i
         /\ \A j \in Items : status'[j] \in Open => status[j] \in Open
<1>1. CASE UNCHANGED <<status, evidence>>
  BY <1>1 DEF Ran
<1>2. CASE status[i] = "pending" /\ MakeReady(i, rest)
  <2>1. PICK stored \in SinkOutcomes : Persist(i, <<"ready", "controller">>, stored, rest)
    BY <1>2 DEF MakeReady
  <2>2. <<"ready", "controller">> # <<"delivered", "controller">>
    OBVIOUS
  <2>3. \A j \in Items : Ran(j)' => Ran(j)
    BY <2>1, <2>2, PersistRecords
  <2>4. QED
    BY <1>2, <2>3 DEF MakeReady, TypeOK, Open
<1>3. CASE DeliverItem(i, "controller", now, rest)
  BY <1>3, DeliveryRecords
<1>4. QED
  BY <1>1, <1>2, <1>3 DEF MakeDue

LEMMA SkipRecords ==
  ASSUME TypeOK, NEW i \in Items, NEW rest, SkipItem(i, rest)
  PROVE  /\ \A j \in Items : Ran(j)' => Ran(j)
         /\ \A j \in Items : status'[j] \in Open => status[j] \in Open
<1>1. PICK stored \in SinkOutcomes : Persist(i, <<"skipped", "facilitator">>, stored, rest)
  BY DEF SkipItem
<1>2. <<"skipped", "facilitator">> # <<"delivered", "controller">>
  OBVIOUS
<1>3. \A j \in Items : Ran(j)' => Ran(j)
  BY <1>1, <1>2, PersistRecords
<1>4. QED
  BY <1>3 DEF SkipItem, TypeOK, Open

-------------------------------------------------------------------------------
\* What a step that leaves the results alone has to respect.
LEMMA RespectfulStep ==
  ASSUME TypeOK, BranchInv, results' = results, CallScope',
         \A j \in Items : status'[j] \in Open => status[j] \in Open,
         \A j \in Items : Ran(j)' => Ran(j) \/ Permitted(j)
  PROVE  BranchInv'
<1>1. ResolvedIsClosed'
  BY ItemFacts DEF BranchInv, ResolvedIsClosed
<1>2. BranchFollowsResult'
  BY ItemFacts DEF BranchInv, BranchFollowsResult, Ran, Permitted
<1>3. QED
  BY <1>1, <1>2 DEF BranchInv

\* What is left of a call stays in its scope.
LEMMA RestInScope ==
  ASSUME TypeOK, CallScope, NEW i, call' \in {Rest(i), Idle}
  PROVE  CallScope'
<1>1. CASE call' = Rest(i)
  BY <1>1, RestTyped DEF CallScope
<1>2. CASE call' = Idle
  BY <1>2 DEF CallScope, Idle
<1>3. QED
  BY <1>1, <1>2

\* The walks of prepare() and advance_to() visit no branch.
LEMMA WalkKeepsBranches ==
  ASSUME ClockInv, BranchInv, PrepareItem \/ AdvanceItem
  PROVE  BranchInv'
<1>1. TypeOK /\ CallScope
  BY DEF ClockInv, BranchInv
<1>2. PICK i \in call.due :
        \/ \E now \in Nat : MakeDue(i, now, Rest(i))
        \/ PersistRunEvent(FALSE, Idle) /\ UNCHANGED <<state, itemVars>>
  <2>1. elapsed \in Nat /\ call.due \subseteq Items
    BY <1>1 DEF TypeOK, Calls
  <2>2. QED
    BY <2>1, ItemFacts DEF PrepareItem, AdvanceItem
<1>3. i \in Items /\ MSEL[i].trigger # "checkpoint"
  BY <1>1 DEF PrepareItem, AdvanceItem, CallScope, TypeOK, Calls, Timed
<1>4. Permitted(i)
  BY <1>3 DEF Permitted, BranchesOf
<1>5. CASE \E now \in Nat : MakeDue(i, now, Rest(i))
  <2>1. PICK now \in Nat : MakeDue(i, now, Rest(i))
    BY <1>5
  <2>2. Rest(i) \in Calls
    BY <1>1, RestTyped
  <2>3. results' = results /\ call' \in {Rest(i), Idle}
    BY <1>1, <1>3, <2>1, <2>2, DueEffect
  <2>4. CallScope'
    BY <1>1, <2>3, RestInScope
  <2>5. \A j \in Items : /\ Ran(j)' => Ran(j) \/ j = i
                         /\ status'[j] \in Open => status[j] \in Open
    BY <1>1, <1>3, <2>1, DueRecords
  <2>6. QED
    BY <1>1, <1>4, <2>3, <2>4, <2>5, RespectfulStep
<1>6. CASE PersistRunEvent(FALSE, Idle) /\ UNCHANGED <<state, itemVars>>
  <2>1. UNCHANGED <<status, results, evidence>> /\ call' = Idle
    BY <1>6 DEF PersistRunEvent, itemVars
  <2>2. CallScope'
    BY <2>1 DEF CallScope, Idle
  <2>3. QED
    BY <1>1, <2>1, <2>2, RespectfulStep DEF Ran
<1>7. QED
  BY <1>2, <1>5, <1>6

\* resolve_checkpoint() makes a branch due only when its outcome is the result.
LEMMA ResolveKeepsBranches ==
  ASSUME ClockInv, BranchInv, ResolveBranch
  PROVE  BranchInv'
<1>1. TypeOK /\ CallScope
  BY DEF ClockInv, BranchInv
<1>2. PICK i \in call.due :
        IF MSEL[i].outcome = results[call.checkpoint]
        THEN MakeDue(i, elapsed, Rest(i)) /\ UNCHANGED elapsed
        ELSE IF state \in Live /\ status[i] \in Open
             THEN SkipItem(i, Rest(i))
             ELSE Reject
  BY DEF ResolveBranch
<1>3. i \in BranchesOf(call.checkpoint) /\ i \in Items /\ elapsed \in Nat
  BY <1>1, <1>2 DEF ResolveBranch, CallScope, BranchesOf, TypeOK
<1>4. Rest(i) \in Calls
  BY <1>1, RestTyped
<1>5. CASE MSEL[i].outcome = results[call.checkpoint] /\ MakeDue(i, elapsed, Rest(i))
  <2>1. results' = results /\ call' \in {Rest(i), Idle}
    BY <1>1, <1>3, <1>4, <1>5, DueEffect
  <2>2. CallScope'
    BY <1>1, <2>1, RestInScope
  <2>3. Permitted(i)
    BY <1>3, <1>5 DEF Permitted, BranchesOf
  <2>4. \A j \in Items : /\ Ran(j)' => Ran(j) \/ j = i
                         /\ status'[j] \in Open => status[j] \in Open
    BY <1>1, <1>3, <1>5, DueRecords
  <2>5. QED
    BY <1>1, <2>1, <2>2, <2>3, <2>4, RespectfulStep
<1>6. CASE SkipItem(i, Rest(i))
  <2>1. results' = results /\ call' \in {Rest(i), Idle}
    BY <1>1, <1>3, <1>4, <1>6, SkipEffect
  <2>2. CallScope'
    BY <1>1, <2>1, RestInScope
  <2>3. \A j \in Items : /\ Ran(j)' => Ran(j)
                         /\ status'[j] \in Open => status[j] \in Open
    BY <1>1, <1>3, <1>6, SkipRecords
  <2>4. QED
    BY <1>1, <2>1, <2>2, <2>3, RespectfulStep
<1>7. CASE Reject
  <2>1. UNCHANGED <<status, results, evidence>> /\ call' = Idle
    BY <1>7 DEF Reject
  <2>2. CallScope'
    BY <2>1 DEF CallScope, Idle
  <2>3. QED
    BY <1>1, <2>1, <2>2, RespectfulStep DEF Ran
<1>8. QED
  BY <1>2, <1>5, <1>6, <1>7

\* A delivery by hand is the facilitator's.
LEMMA HandKeepsBranches ==
  ASSUME ClockInv, BranchInv, NEW i \in Items, Deliver(i) \/ Skip(i)
  PROVE  BranchInv'
<1>1. TypeOK /\ elapsed \in Nat /\ Idle \in Calls
  BY ItemFacts DEF ClockInv, TypeOK
<1>2. "facilitator" \in Roles /\ "facilitator" # "controller"
  BY DEF Roles
<1>3. CASE Deliver(i)
  <2>1. DeliverItem(i, "facilitator", elapsed, Idle)
    BY <1>3 DEF Deliver
  <2>2. results' = results /\ call' = Idle
    BY <1>1, <1>2, <2>1, ItemEffect
  <2>3. CallScope'
    BY <2>2 DEF CallScope, Idle
  <2>4. \A j \in Items : /\ Ran(j)' => Ran(j)
                         /\ status'[j] \in Open => status[j] \in Open
    BY <1>1, <1>2, <2>1, DeliveryRecords
  <2>5. QED
    BY <1>1, <2>2, <2>3, <2>4, RespectfulStep
<1>4. CASE Skip(i)
  <2>1. SkipItem(i, Idle)
    BY <1>4 DEF Skip
  <2>2. results' = results /\ call' = Idle
    BY <1>1, <2>1, SkipEffect
  <2>3. CallScope'
    BY <2>2 DEF CallScope, Idle
  <2>4. \A j \in Items : /\ Ran(j)' => Ran(j)
                         /\ status'[j] \in Open => status[j] \in Open
    BY <1>1, <2>1, SkipRecords
  <2>5. QED
    BY <1>1, <2>2, <2>3, <2>4, RespectfulStep
<1>5. QED
  BY <1>3, <1>4

\* A checkpoint that is resolved had no result, and so none of its branches ran.
LEMMA CheckpointKeepsBranches ==
  ASSUME ClockInv, BranchInv, NEW c \in Checkpoints, NEW result \in Results,
         ResolveCheckpoint(c, result)
  PROVE  BranchInv'
<1>1. TypeOK /\ c \in Items
  BY ItemFacts DEF ClockInv
<1>2. results[c] = "none"
  BY DEF BranchInv, ResolvedIsClosed, ResolveCheckpoint
<1>3. PICK stored \in SinkOutcomes :
        Persist(c, <<"resolved", "facilitator">>, stored,
                [op |-> "resolve", due |-> BranchesOf(c), target |-> 0, checkpoint |-> c])
  BY DEF ResolveCheckpoint
<1>4. CallScope'
  BY <1>3 DEF Persist, CallScope, Idle
<1>5. <<"resolved", "facilitator">> # <<"delivered", "controller">>
  OBVIOUS
<1>6. \A j \in Items : Ran(j)' => Ran(j)
  BY <1>1, <1>3, <1>5, PersistRecords
<1>7. \A d \in Checkpoints : d # c => results'[d] = results[d]
  BY DEF ResolveCheckpoint, ClockInv, TypeOK
<1>8. ResolvedIsClosed'
  <2>1. status' = [status EXCEPT ![c] = "delivered"] /\ status \in [Items -> ItemStatuses]
    BY <1>1 DEF ResolveCheckpoint, TypeOK
  <2>2. \A d \in Checkpoints : status'[d] = IF d = c THEN "delivered" ELSE status[d]
    BY <2>1, ItemFacts
  <2>3. QED
    BY <1>7, <2>2 DEF BranchInv, ResolvedIsClosed, Open
<1>9. BranchFollowsResult'
  <2> SUFFICES ASSUME NEW d \in Checkpoints, NEW i \in BranchesOf(d), Ran(i)'
               PROVE  results'[d] = MSEL[i].outcome
    BY DEF BranchFollowsResult, Ran
  <2>1. results[d] = MSEL[i].outcome /\ i \in Items
    BY <1>6, ItemFacts DEF BranchInv, BranchFollowsResult, Ran
  <2>2. MSEL[i].outcome # "none"
    BY <2>1, MSELAssumption DEF BranchesOf, Results
  <2>3. QED
    BY <1>2, <1>7, <2>1, <2>2
<1>10. QED
  BY <1>4, <1>8, <1>9 DEF BranchInv

\* The operations that begin, end or change no item.
LEMMA RunKeepsBranches ==
  ASSUME ClockInv, BranchInv,
         \/ Prepare \/ Start \/ Pause \/ Resume \/ FailSafeStop \/ AdvanceEnd \/ CallEnd
         \/ \E t \in Nat : AdvanceTo(t)
  PROVE  BranchInv'
<1>1. UNCHANGED <<status, results, evidence>>
  BY DEF Prepare, Start, Pause, Resume, FailSafeStop, AdvanceEnd, CallEnd, AdvanceTo,
         PersistRunEvent, itemVars
<1>2. \/ call' = Idle
      \/ call' = [Idle EXCEPT !.op = "prepare",
                              !.due = {i \in Items : MSEL[i].trigger = "pre_exercise"}]
      \/ \E t \in Nat : call' = AdvanceCall(t)
  BY DEF Prepare, Start, Pause, Resume, FailSafeStop, AdvanceEnd, CallEnd, AdvanceTo,
         PersistRunEvent
<1>3. CallScope'
  <2>1. CASE call' = Idle
    BY <2>1 DEF CallScope, Idle
  <2>2. CASE call' = [Idle EXCEPT !.op = "prepare",
                        !.due = {i \in Items : MSEL[i].trigger = "pre_exercise"}]
    BY <2>2 DEF CallScope, Idle
  <2>3. CASE \E t \in Nat : call' = AdvanceCall(t)
    <3>1. call'.op = "advance" /\ call'.due \subseteq Timed
      BY <2>3 DEF AdvanceCall, Overdue
    <3>2. QED
      BY <3>1 DEF CallScope
  <2>4. QED
    BY <1>2, <2>1, <2>2, <2>3
<1>4. TypeOK
  BY DEF ClockInv
<1>5. QED
  BY <1>1, <1>3, <1>4, RespectfulStep DEF Ran

\* The walks, the facilitator and the resets keep the scope of a call and the results
\* of the branches that ran.
THEOREM BranchInvariant == Spec => []BranchInv
<1>1. Init => BranchInv
  BY ItemFacts DEF Init, BranchInv, CallScope, Idle, ResolvedIsClosed,
                   BranchFollowsResult, BranchesOf
<1>2. ClockInv /\ BranchInv /\ [Next]_vars => BranchInv'
  <2> SUFFICES ASSUME ClockInv, BranchInv, [Next]_vars PROVE BranchInv'
    OBVIOUS
  <2>1. CASE UNCHANGED vars
    <3>1. TypeOK /\ CallScope' /\ UNCHANGED <<status, results, evidence>>
      BY <2>1 DEF vars, ClockInv, BranchInv, CallScope
    <3>2. QED
      BY <3>1, RespectfulStep DEF Ran
  <2>2. CASE CallStep
    BY <2>2, WalkKeepsBranches, ResolveKeepsBranches, RunKeepsBranches DEF CallStep
  <2>3. CASE Prepare \/ Start \/ Pause \/ Resume \/ FailSafeStop
             \/ \E t \in 0..Horizon : AdvanceTo(t)
    BY <2>3, RunKeepsBranches, HorizonAssumption
  <2>4. CASE Reset
    BY <2>4, ItemFacts DEF Reset, BranchInv, CallScope, Idle, ResolvedIsClosed,
                           BranchFollowsResult, BranchesOf
  <2>5. QED
    BY <2>1, <2>2, <2>3, <2>4, HandKeepsBranches, CheckpointKeepsBranches DEF Next
<1>3. QED
  BY <1>1, <1>2, ClockInvariant, PTL DEF Spec

\* resolve_checkpoint(), deliver() and the clock: whatever handlers and sinks do, and
\* whatever the facilitator delivers, skips or resolves by hand, the controller
\* itself executes a branch only after its checkpoint got the outcome of that branch.
THEOREM BranchesFollowResults == Spec => []BranchFollowsResult
<1>1. BranchInv => BranchFollowsResult
  BY DEF BranchInv
<1>2. QED
  BY <1>1, BranchInvariant, PTL

-------------------------------------------------------------------------------
(***************************************************************************)
(* Timed items.  An item that the controller has executed is closed, so    *)
(* that nothing writes its delivery time again.                            *)
(***************************************************************************)
ClosedInTime(i) ==
  Ran(i) => status[i] \notin Open /\ (i \in Timed => deliveredAt[i] = MSEL[i].at)

TimeInv == \A i \in Items : ClosedInTime(i)

\* A step that touches one item, and leaves that one closed in time.
LEMMA TouchOne ==
  ASSUME TimeInv, NEW i \in Items, ClosedInTime(i)',
         \A j \in Items \ {i} :
           /\ status'[j] = status[j] /\ deliveredAt'[j] = deliveredAt[j]
           /\ Ran(j)' => Ran(j)
  PROVE  TimeInv'
<1> SUFFICES ASSUME NEW j \in Items, j # i PROVE ClosedInTime(j)'
  BY DEF TimeInv
<1>1. status'[j] = status[j] /\ deliveredAt'[j] = deliveredAt[j] /\ (Ran(j)' => Ran(j))
  OBVIOUS
<1>2. ClosedInTime(j)
  BY DEF TimeInv
<1>3. QED
  BY <1>1, <1>2 DEF ClosedInTime

\* A delivery of an open item is stamped with the second it is made at.
LEMMA DeliveryInTime ==
  ASSUME TypeOK, TimeInv, NEW i \in Items, status[i] \in Open, NEW role, NEW now \in Nat,
         NEW rest, DeliverItem(i, role, now, rest),
         role = "controller" /\ i \in Timed => now = MSEL[i].at
  PROVE  TimeInv'
<1>1. ~Ran(i)
  BY DEF TimeInv, ClosedInTime
<1>2. \A j \in Items : Ran(j)' => Ran(j) \/ (j = i /\ role = "controller")
  BY DeliveryRecords
<1>3. CASE Succeed(i, role, now, rest)
  <2>1. /\ status' = [status EXCEPT ![i] = "delivered"]
        /\ deliveredAt' = [deliveredAt EXCEPT ![i] = now]
    BY <1>3 DEF Succeed
  <2>2. /\ \A j \in Items \ {i} : status'[j] = status[j] /\ deliveredAt'[j] = deliveredAt[j]
        /\ status'[i] = "delivered" /\ deliveredAt'[i] = now
    BY <2>1 DEF TypeOK
  <2>3. ClosedInTime(i)'
    BY <1>1, <1>2, <2>2 DEF ClosedInTime, Open
  <2>4. QED
    BY <1>2, <2>2, <2>3, TouchOne
<1>4. CASE Fail(i, role, rest)
  <2>1. status' = [status EXCEPT ![i] = "failed"] /\ deliveredAt' = deliveredAt
    BY <1>4 DEF Fail
  <2>2. \A j \in Items \ {i} : status'[j] = status[j]
    BY <2>1 DEF TypeOK
  <2>3. PICK stored \in SinkOutcomes : Persist(i, <<"failed", "controller">>, stored, rest)
    BY <1>4 DEF Fail
  <2>4. <<"failed", "controller">> # <<"delivered", "controller">>
    OBVIOUS
  <2>5. \A j \in Items : Ran(j)' => Ran(j)
    BY <2>3, <2>4, PersistRecords
  <2>6. ClosedInTime(i)'
    BY <1>1, <2>5 DEF ClosedInTime
  <2>7. QED
    BY <2>1, <2>2, <2>5, <2>6, TouchOne
<1>5. QED
  BY <1>3, <1>4 DEF DeliverItem

\* An item that comes due is delivered at the clock's second, or not at all.
LEMMA DueInTime ==
  ASSUME TypeOK, TimeInv, NEW i \in Items, NEW now \in Nat, NEW rest,
         MakeDue(i, now, rest), i \in Timed => now = MSEL[i].at
  PROVE  TimeInv'
<1>1. CASE UNCHANGED <<status, deliveredAt, evidence>>
  BY <1>1 DEF TimeInv, ClosedInTime, Ran
<1>2. CASE status[i] = "pending" /\ MakeReady(i, rest)
  <2>1. PICK stored \in SinkOutcomes : Persist(i, <<"ready", "controller">>, stored, rest)
    BY <1>2 DEF MakeReady
  <2>2. <<"ready", "controller">> # <<"delivered", "controller">>
    OBVIOUS
  <2>3. \A j \in Items : Ran(j)' => Ran(j)
    BY <2>1, <2>2, PersistRecords
  <2>4. status' = [status EXCEPT ![i] = "ready"] /\ deliveredAt' = deliveredAt
    BY <1>2 DEF MakeReady
  <2>5. \A j \in Items \ {i} : status'[j] = status[j]
    BY <2>4 DEF TypeOK
  <2>6. ClosedInTime(i)'
    BY <1>2, <2>3 DEF TimeInv, ClosedInTime, Open
  <2>7. QED
    BY <2>3, <2>4, <2>5, <2>6, TouchOne
<1>3. CASE status[i] = "pending" /\ DeliverItem(i, "controller", now, rest)
  BY <1>3, DeliveryInTime DEF Open
<1>4. QED
  BY <1>1, <1>2, <1>3 DEF MakeDue

\* A skip executes nothing.
LEMMA SkipInTime ==
  ASSUME TypeOK, TimeInv, NEW i \in Items, status[i] \in Open, NEW rest, SkipItem(i, rest)
  PROVE  TimeInv'
<1>1. \A j \in Items : Ran(j)' => Ran(j)
  BY SkipRecords
<1>2. status' = [status EXCEPT ![i] = "skipped"] /\ deliveredAt' = deliveredAt
  BY DEF SkipItem
<1>3. \A j \in Items \ {i} : status'[j] = status[j]
  BY <1>2 DEF TypeOK
<1>4. ClosedInTime(i)'
  BY <1>1 DEF TimeInv, ClosedInTime
<1>5. QED
  BY <1>1, <1>2, <1>3, <1>4, TouchOne

\* A checkpoint that is open has not been executed before.
LEMMA CheckpointInTime ==
  ASSUME TypeOK, TimeInv, NEW c \in Checkpoints, NEW result, ResolveCheckpoint(c, result)
  PROVE  TimeInv'
<1>1. c \in Items /\ ~Ran(c)
  BY ItemFacts DEF ResolveCheckpoint, TimeInv, ClosedInTime
<1>2. PICK stored \in SinkOutcomes :
        Persist(c, <<"resolved", "facilitator">>, stored,
                [op |-> "resolve", due |-> BranchesOf(c), target |-> 0, checkpoint |-> c])
  BY DEF ResolveCheckpoint
<1>3. <<"resolved", "facilitator">> # <<"delivered", "controller">>
  OBVIOUS
<1>4. \A j \in Items : Ran(j)' => Ran(j)
  BY <1>1, <1>2, <1>3, PersistRecords
<1>5. /\ status' = [status EXCEPT ![c] = "delivered"]
      /\ deliveredAt' = [deliveredAt EXCEPT ![c] = elapsed]
  BY DEF ResolveCheckpoint
<1>6. \A j \in Items \ {c} : status'[j] = status[j] /\ deliveredAt'[j] = deliveredAt[j]
  BY <1>5 DEF TypeOK
<1>7. ClosedInTime(c)'
  BY <1>1, <1>4 DEF ClosedInTime
<1>8. QED
  BY <1>1, <1>4, <1>6, <1>7, TouchOne

\* The steps of a call in progress.
LEMMA CallInTime ==
  ASSUME ClockInv, BranchInv, TimeInv, PrepareItem \/ AdvanceItem \/ ResolveBranch
  PROVE  TimeInv'
<1>1. TypeOK /\ CallScope /\ elapsed \in Nat /\ call.due \subseteq Items
  BY DEF ClockInv, BranchInv, TypeOK, Calls
<1>2. CASE PrepareItem
  <2>1. PICK i \in call.due : MakeDue(i, elapsed, Rest(i))
    BY <1>2 DEF PrepareItem
  <2>2. i \in Items /\ i \notin Timed
    BY <1>1, <1>2 DEF PrepareItem, CallScope, Timed
  <2>3. QED
    BY <1>1, <2>1, <2>2, DueInTime
<1>3. CASE AdvanceItem
  <2>1. PICK i \in call.due :
          \/ MakeDue(i, MSEL[i].at, Rest(i))
          \/ PersistRunEvent(FALSE, Idle) /\ UNCHANGED itemVars
    BY <1>3 DEF AdvanceItem
  <2>2. i \in Items /\ MSEL[i].at \in Nat
    BY <1>1, ItemFacts
  <2>3. CASE MakeDue(i, MSEL[i].at, Rest(i))
    BY <1>1, <2>2, <2>3, DueInTime
  <2>4. CASE PersistRunEvent(FALSE, Idle) /\ UNCHANGED itemVars
    BY <2>4 DEF PersistRunEvent, itemVars, TimeInv, ClosedInTime, Ran
  <2>5. QED
    BY <2>1, <2>3, <2>4
<1>4. CASE ResolveBranch
  <2>1. PICK i \in call.due :
          \/ MakeDue(i, elapsed, Rest(i))
          \/ status[i] \in Open /\ SkipItem(i, Rest(i))
          \/ Reject
    BY <1>4 DEF ResolveBranch
  <2>2. i \in Items /\ i \notin Timed
    BY <1>1, <1>4 DEF ResolveBranch, CallScope, BranchesOf, Timed
  <2>3. CASE Reject
    BY <2>3 DEF Reject, TimeInv, ClosedInTime, Ran
  <2>4. QED
    BY <1>1, <2>1, <2>2, <2>3, DueInTime, SkipInTime
<1>5. QED
  BY <1>2, <1>3, <1>4

\* The operations that begin, end or change no item.
LEMMA RunInTime ==
  ASSUME TimeInv,
         \/ Prepare \/ Start \/ Pause \/ Resume \/ FailSafeStop \/ AdvanceEnd \/ CallEnd
         \/ \E t \in Nat : AdvanceTo(t)
         \/ UNCHANGED vars
  PROVE  TimeInv'
<1>1. UNCHANGED <<status, deliveredAt, evidence>>
  BY DEF Prepare, Start, Pause, Resume, FailSafeStop, AdvanceEnd, CallEnd, AdvanceTo,
         PersistRunEvent, itemVars, vars
<1>2. QED
  BY <1>1 DEF TimeInv, ClosedInTime, Ran

\* advance_to(): whether the clock ticks or jumps, and whatever fails on the way, an
\* item that the clock delivers is delivered at its own second.
THEOREM DeliveriesAreOnTime == Spec => []DeliveredOnTime
<1>1. Init => TimeInv
  BY DEF Init, TimeInv, ClosedInTime, Ran
<1>2. ClockInv /\ BranchInv /\ TimeInv /\ [Next]_vars => TimeInv'
  <2> SUFFICES ASSUME ClockInv, BranchInv, TimeInv, [Next]_vars PROVE TimeInv'
    OBVIOUS
  <2>1. TypeOK /\ elapsed \in Nat
    BY DEF ClockInv, TypeOK
  <2>2. CASE CallStep
    BY <2>2, CallInTime, RunInTime DEF CallStep
  <2>3. CASE Prepare \/ Start \/ Pause \/ Resume \/ FailSafeStop \/ UNCHANGED vars
             \/ \E t \in 0..Horizon : AdvanceTo(t)
    BY <2>3, RunInTime, HorizonAssumption
  <2>4. CASE Reset
    BY <2>4 DEF Reset, TimeInv, ClosedInTime, Ran
  <2>5. ASSUME NEW i \in Items, Deliver(i) PROVE TimeInv'
    <3>1. DeliverItem(i, "facilitator", elapsed, Idle) /\ status[i] \in Open
      BY <2>5 DEF Deliver
    <3>2. QED
      BY <2>1, <3>1, DeliveryInTime
  <2>6. ASSUME NEW i \in Items, Skip(i) PROVE TimeInv'
    BY <2>1, <2>6, SkipInTime DEF Skip
  <2>7. QED
    BY <2>1, <2>2, <2>3, <2>4, <2>5, <2>6, CheckpointInTime DEF Next
<1>3. TimeInv => DeliveredOnTime
  BY DEF TimeInv, ClosedInTime, Ran, DeliveredOnTime, Timed
<1>4. Spec => []BranchInv
  BY BranchInvariant, PTL
<1>5. QED
  BY <1>1, <1>2, <1>3, <1>4, ClockInvariant, PTL DEF Spec

\* advance_to(): the walk touches the items of the clock in their reviewed order, as no
\* earlier pending one is missing from what is left of it.
THEOREM WalkIsInReviewedOrder == Spec => DueInReviewedOrder
<1> DEFINE InOrder ==
      \A i \in Timed :
        call.op = "advance" /\ status'[i] # status[i] =>
          \A j \in Timed : Before(j, i) => status[j] # "pending"
<1>1. ASSUME ClockInv, Next PROVE InOrder
  <2> SUFFICES ASSUME NEW i \in Timed, call.op = "advance", status'[i] # status[i],
                      NEW j \in Timed, Before(j, i), status[j] = "pending"
               PROVE  FALSE
    OBVIOUS
  <2>1. AdvanceItem
    <3>1. ~Quiet
      BY DEF Quiet
    <3>2. CASE CallStep
      BY <3>2 DEF CallStep, PrepareItem, AdvanceEnd, ResolveBranch, CallEnd, itemVars
    <3>3. QED
      BY <1>1, <3>1, <3>2 DEF Next, Prepare, Start, Pause, Resume, FailSafeStop, Reset,
                              AdvanceTo, Deliver, Skip, ResolveCheckpoint
  <2>2. PICK first \in call.due :
          /\ IsFirst(first, call.due)
          /\ \/ MakeDue(first, MSEL[first].at, Rest(first))
             \/ UNCHANGED itemVars
    BY <2>1 DEF AdvanceItem
  <2>3. /\ TypeOK /\ first \in Items /\ i \in Items /\ j \in Items
        /\ MSEL[first].at \in Nat /\ Rest(first) \in Calls
    BY <1>1, ItemFacts, RestTyped DEF ClockInv, TypeOK, Calls
  <2>4. first = i
    <3>1. MakeDue(first, MSEL[first].at, Rest(first))
      BY <2>2 DEF itemVars
    <3>2. \A k \in Items \ {first} : status'[k] = status[k]
      BY <2>3, <3>1, DueEffect
    <3>3. QED
      BY <2>3, <3>2
  <2>5. /\ MSEL[i].at \in Nat /\ MSEL[j].at \in Nat /\ MSEL[i].order \in Nat
        /\ MSEL[j].order \in Nat /\ i \in Nat /\ j \in Nat
    BY <2>3, ItemFacts
  <2>6. j # i /\ MSEL[j].at <= MSEL[i].at
    BY <2>5 DEF Before
  <2>7. j \in call.due
    <3>1. MSEL[i].at <= call.target /\ call.target \in Nat
      BY <1>1, <2>2, <2>4 DEF ClockInv, AdvanceCovers, TypeOK, Calls
    <3>2. QED
      BY <1>1, <2>5, <2>6, <3>1 DEF ClockInv, AdvanceCovers
  <2>8. Before(i, j)
    BY <2>2, <2>4, <2>6, <2>7 DEF IsFirst
  <2>9. QED
    BY <2>5, <2>8 DEF Before
<1>2. ClockInv /\ [Next]_vars => [InOrder]_vars
  BY <1>1
<1>3. QED
  BY <1>2, ClockInvariant, PTL DEF Spec, DueInReviewedOrder

-------------------------------------------------------------------------------
(***************************************************************************)
(* Evidence.  Each transition leaves an open item, and adds at most the    *)
(* one event that names it.                                                *)
(***************************************************************************)
Types(events) == {event[1] : event \in events}

\* Nothing stored contradicts the status ...
Agrees(is, events) ==
  /\ Types(events) \subseteq Course[is]
  /\ \A e, f \in events : e[1] # "ready" /\ f[1] # "ready" => e = f

\* ... and nothing is missing.
Complete(is, events) ==
  /\ is # "pending" => events # {}
  /\ is \notin Open => \E event \in events : event[1] # "ready"

LEMMA EvidenceTells ==
  EvidenceTellsStatus <=>
    \A i \in Items : /\ Agrees(status[i], evidence[i])
                     /\ "sink" \notin faults => Complete(status[i], evidence[i])
BY DEF EvidenceTellsStatus, Agrees, Complete, Types

LEMMA NothingTells == Agrees("pending", {}) /\ Complete("pending", {})
  BY DEF Agrees, Complete, Types, Open

\* The transitions and the event of each.
Announces(from, to, type) ==
  \/ from = "pending" /\ to = "ready" /\ type = "ready"
  \/ from \in Open /\ to = "delivered" /\ type \in {"delivered", "resolved"}
  \/ from \in Open /\ to = "skipped" /\ type = "skipped"
  \/ from \in Open /\ to = "failed" /\ type = "failed"

\* Before a transition at most "ready" is stored, and that fits whatever follows.
LEMMA UntoldAgrees ==
  ASSUME NEW from, NEW to, NEW type, NEW events,
         Announces(from, to, type), Agrees(from, events)
  PROVE  Types(events) \subseteq {"ready"} /\ Agrees(to, events)
<1>1. Types(events) \subseteq {"ready"}
  BY DEF Agrees, Announces, Course, Open
<1>2. from = "pending" => Types(events) = {}
  BY DEF Agrees, Course
<1>3. Types(events) \subseteq Course[to]
  BY <1>1, <1>2 DEF Announces, Course
<1>4. QED
  BY <1>1, <1>3 DEF Agrees

LEMMA ToldAgrees ==
  ASSUME NEW from, NEW to, NEW event, NEW events,
         Announces(from, to, event[1]), Agrees(from, events)
  PROVE  Agrees(to, events \cup {event}) /\ Complete(to, events \cup {event})
<1>1. Types(events) \subseteq {"ready"} /\ Types(events) \subseteq Course[to]
  BY UntoldAgrees DEF Agrees
<1>2. event[1] \in Course[to] /\ to # "pending"
  BY DEF Announces, Course
<1>3. \A e \in events : e[1] = "ready"
  BY <1>1 DEF Types
<1>4. Types(events \cup {event}) \subseteq Course[to]
  BY <1>1, <1>2 DEF Types
<1>5. to \notin Open => event[1] # "ready"
  BY DEF Announces, Open
<1>6. QED
  BY <1>2, <1>3, <1>4, <1>5 DEF Agrees, Complete

\* A refused event leaves what was told; a stored one tells the transition.
LEMMA TransitionTells ==
  ASSUME TypeOK, EvidenceTellsStatus, NEW i \in Items, NEW to, NEW event, NEW stored,
         NEW rest, Announces(status[i], to, event[1]),
         Persist(i, event, stored, rest), status' = [status EXCEPT ![i] = to]
  PROVE  EvidenceTellsStatus'
<1>1. Agrees(status[i], evidence[i])
  BY EvidenceTells
<1>2. status'[i] = to /\ \A j \in Items \ {i} : status'[j] = status[j]
  BY DEF TypeOK
<1>3. /\ \A j \in Items \ {i} : evidence'[j] = evidence[j]
      /\ "sink" \in faults => "sink" \in faults'
  BY DEF Persist, TypeOK
<1>4. /\ Agrees(status'[i], evidence'[i])
      /\ "sink" \notin faults' => Complete(status'[i], evidence'[i])
  <2>1. CASE stored
    <3>1. evidence'[i] = evidence[i] \cup {event}
      BY <2>1 DEF Persist, TypeOK
    <3>2. QED
      BY <1>1, <1>2, <3>1, ToldAgrees
  <2>2. CASE ~stored
    <3>1. evidence'[i] = evidence[i] /\ "sink" \in faults'
      BY <2>2 DEF Persist
    <3>2. QED
      BY <1>1, <1>2, <3>1, UntoldAgrees
  <2>3. QED
    BY <2>1, <2>2
<1>5. SUFFICES ASSUME NEW j \in Items
               PROVE  /\ Agrees(status'[j], evidence'[j])
                      /\ "sink" \notin faults' => Complete(status'[j], evidence'[j])
  BY DEF EvidenceTellsStatus, Agrees, Complete, Types
<1>6. CASE j # i
  BY <1>2, <1>3, <1>6, EvidenceTells
<1>7. QED
  BY <1>4, <1>6

LEMMA DeliveryTells ==
  ASSUME TypeOK, EvidenceTellsStatus, NEW i \in Items, status[i] \in Open,
         NEW role, NEW now, NEW rest, DeliverItem(i, role, now, rest)
  PROVE  EvidenceTellsStatus'
<1>1. CASE Succeed(i, role, now, rest)
  <2>1. PICK stored \in SinkOutcomes : Persist(i, <<"delivered", role>>, stored, rest)
    BY <1>1 DEF Succeed
  <2>2. Announces(status[i], "delivered", <<"delivered", role>>[1])
    BY DEF Announces
  <2>3. status' = [status EXCEPT ![i] = "delivered"]
    BY <1>1 DEF Succeed
  <2>4. QED
    BY <2>1, <2>2, <2>3, TransitionTells
<1>2. CASE Fail(i, role, rest)
  <2>1. PICK stored \in SinkOutcomes : Persist(i, <<"failed", "controller">>, stored, rest)
    BY <1>2 DEF Fail
  <2>2. Announces(status[i], "failed", <<"failed", "controller">>[1])
    BY DEF Announces
  <2>3. status' = [status EXCEPT ![i] = "failed"]
    BY <1>2 DEF Fail
  <2>4. QED
    BY <2>1, <2>2, <2>3, TransitionTells
<1>3. QED
  BY <1>1, <1>2 DEF DeliverItem

LEMMA DueTells ==
  ASSUME TypeOK, EvidenceTellsStatus, NEW i \in Items, NEW now, NEW rest,
         MakeDue(i, now, rest)
  PROVE  EvidenceTellsStatus'
<1>1. CASE UNCHANGED <<status, evidence, faults>>
  BY <1>1 DEF EvidenceTellsStatus
<1>2. CASE status[i] = "pending" /\ MakeReady(i, rest)
  <2>1. PICK stored \in SinkOutcomes : Persist(i, <<"ready", "controller">>, stored, rest)
    BY <1>2 DEF MakeReady
  <2>2. Announces(status[i], "ready", <<"ready", "controller">>[1])
    BY <1>2 DEF Announces
  <2>3. status' = [status EXCEPT ![i] = "ready"]
    BY <1>2 DEF MakeReady
  <2>4. QED
    BY <2>1, <2>2, <2>3, TransitionTells
<1>3. CASE status[i] = "pending" /\ DeliverItem(i, "controller", now, rest)
  BY <1>3, DeliveryTells DEF Open
<1>4. QED
  BY <1>1, <1>2, <1>3 DEF MakeDue

LEMMA SkipTells ==
  ASSUME TypeOK, EvidenceTellsStatus, NEW i \in Items, status[i] \in Open, NEW rest,
         SkipItem(i, rest)
  PROVE  EvidenceTellsStatus'
<1>1. PICK stored \in SinkOutcomes : Persist(i, <<"skipped", "facilitator">>, stored, rest)
  BY DEF SkipItem
<1>2. Announces(status[i], "skipped", <<"skipped", "facilitator">>[1])
  BY DEF Announces
<1>3. status' = [status EXCEPT ![i] = "skipped"]
  BY DEF SkipItem
<1>4. QED
  BY <1>1, <1>2, <1>3, TransitionTells

LEMMA CheckpointTells ==
  ASSUME TypeOK, EvidenceTellsStatus, NEW c \in Checkpoints, NEW result,
         ResolveCheckpoint(c, result)
  PROVE  EvidenceTellsStatus'
<1>1. PICK stored \in SinkOutcomes :
        Persist(c, <<"resolved", "facilitator">>, stored,
                [op |-> "resolve", due |-> BranchesOf(c), target |-> 0, checkpoint |-> c])
  BY DEF ResolveCheckpoint
<1>2. Announces(status[c], "delivered", <<"resolved", "facilitator">>[1])
  BY DEF Announces, ResolveCheckpoint
<1>3. status' = [status EXCEPT ![c] = "delivered"] /\ c \in Items
  BY ItemFacts DEF ResolveCheckpoint
<1>4. QED
  BY <1>1, <1>2, <1>3, TransitionTells

\* The operations that begin, end or change no item write no item event.
LEMMA RunTells ==
  ASSUME EvidenceTellsStatus,
         \/ Prepare \/ Start \/ Pause \/ Resume \/ FailSafeStop \/ AdvanceEnd \/ CallEnd
         \/ \E t \in Nat : AdvanceTo(t)
         \/ UNCHANGED vars
  PROVE  EvidenceTellsStatus'
<1>1. UNCHANGED <<status, evidence>> /\ ("sink" \in faults => "sink" \in faults')
  BY DEF Prepare, Start, Pause, Resume, FailSafeStop, AdvanceEnd, CallEnd, AdvanceTo,
         PersistRunEvent, itemVars, vars
<1>2. QED
  BY <1>1 DEF EvidenceTellsStatus

LEMMA CallTells ==
  ASSUME TypeOK, EvidenceTellsStatus, PrepareItem \/ AdvanceItem \/ ResolveBranch
  PROVE  EvidenceTellsStatus'
<1>1. call.due \subseteq Items
  BY DEF TypeOK, Calls
<1>2. PICK i \in call.due :
        \/ \E now : MakeDue(i, now, Rest(i))
        \/ status[i] \in Open /\ SkipItem(i, Rest(i))
        \/ UNCHANGED <<status, evidence>> /\ faults \subseteq faults'
  BY DEF PrepareItem, AdvanceItem, ResolveBranch, PersistRunEvent, itemVars, Reject
<1>3. CASE UNCHANGED <<status, evidence>> /\ faults \subseteq faults'
  BY <1>3 DEF EvidenceTellsStatus
<1>4. QED
  BY <1>1, <1>2, <1>3, DueTells, SkipTells

\* _emit after every transition, for any scenario, any handlers and any order in which
\* the clock, the checkpoints and the facilitator reach an item: an event that the sink
\* refuses may be missing, but no stored event contradicts the status of its item and no
\* two different ones end it; without a refused event the ledger alone tells every status.
THEOREM LedgerTellsStatus == Spec => []EvidenceTellsStatus
<1>1. Init => EvidenceTellsStatus
  <2> SUFFICES ASSUME Init, NEW i \in Items
               PROVE  Agrees(status[i], evidence[i]) /\ Complete(status[i], evidence[i])
    BY EvidenceTells
  <2>1. status[i] = "pending" /\ evidence[i] = {}
    BY DEF Init
  <2>2. QED
    BY <2>1, NothingTells
<1>2. ClockInv /\ EvidenceTellsStatus /\ [Next]_vars => EvidenceTellsStatus'
  <2> SUFFICES ASSUME ClockInv, EvidenceTellsStatus, [Next]_vars
               PROVE  EvidenceTellsStatus'
    OBVIOUS
  <2>1. TypeOK
    BY DEF ClockInv
  <2>2. CASE CallStep
    BY <2>1, <2>2, CallTells, RunTells DEF CallStep
  <2>3. CASE Prepare \/ Start \/ Pause \/ Resume \/ FailSafeStop \/ UNCHANGED vars
             \/ \E t \in 0..Horizon : AdvanceTo(t)
    BY <2>3, RunTells, HorizonAssumption
  <2>4. CASE Reset
    <3> SUFFICES ASSUME NEW i \in Items
                 PROVE  /\ Agrees(status'[i], evidence'[i])
                        /\ Complete(status'[i], evidence'[i])
      BY DEF EvidenceTellsStatus, Agrees, Complete, Types
    <3>1. status'[i] = "pending" /\ evidence'[i] = {}
      BY <2>4 DEF Reset
    <3>2. QED
      BY <3>1, NothingTells
  <2>5. ASSUME NEW i \in Items, Deliver(i) PROVE EvidenceTellsStatus'
    BY <2>1, <2>5, DeliveryTells DEF Deliver
  <2>6. ASSUME NEW i \in Items, Skip(i) PROVE EvidenceTellsStatus'
    BY <2>1, <2>6, SkipTells DEF Skip
  <2>7. QED
    BY <2>1, <2>2, <2>3, <2>4, <2>5, <2>6, CheckpointTells DEF Next
<1>3. QED
  BY <1>1, <1>2, ClockInvariant, PTL DEF Spec

-------------------------------------------------------------------------------
(***************************************************************************)
(* Branches after resolve_checkpoint().  While the call runs, a branch is  *)
(* settled or still to be visited; a stop within it leaves the rest.       *)
(***************************************************************************)
Settled(c, i) ==
  status[i] # "pending" /\ (MSEL[i].outcome # results[c] => status[i] # "ready")

Awaited(c, i) == call.op = "resolve" /\ call.checkpoint = c /\ i \in call.due

Excused == faults # {} \/ (state = "stopped" /\ call.op \in {"idle", "resolve"})

SettleInv ==
  \/ Excused
  \/ \A c \in Checkpoints : results[c] # "none" =>
       \A i \in BranchesOf(c) : Awaited(c, i) \/ Settled(c, i)

\* An item only moves forward: out of pending, and out of ready into a final status.
Forward(j) ==
  \/ status'[j] = status[j]
  \/ status'[j] # "pending" /\ (status'[j] = "ready" => status[j] = "pending")

LEMMA DeliveryForward ==
  ASSUME TypeOK, NEW i \in Items, NEW role, NEW now, NEW rest,
         DeliverItem(i, role, now, rest)
  PROVE  /\ \A j \in Items : Forward(j)
         /\ status'[i] \notin Open
         /\ results' = results /\ faults \subseteq faults'
         /\ call' = rest \/ faults' # {}
BY DEF DeliverItem, Succeed, Fail, Persist, TypeOK, Forward, Open

LEMMA DueForward ==
  ASSUME TypeOK, NEW i \in Items, NEW now, NEW rest, MakeDue(i, now, rest)
  PROVE  /\ \A j \in Items : Forward(j)
         /\ status'[i] # "pending"
         /\ results' = results /\ faults \subseteq faults'
         /\ call' = rest \/ faults' # {}
<1>1. CASE status[i] # "pending" /\ call' = rest /\ UNCHANGED <<status, results, faults>>
  BY <1>1 DEF Forward
<1>2. CASE status[i] = "pending" /\ MakeReady(i, rest)
  BY <1>2 DEF MakeReady, Persist, TypeOK, Forward
<1>3. CASE DeliverItem(i, "controller", now, rest)
  BY <1>3, DeliveryForward DEF Open
<1>4. QED
  BY <1>1, <1>2, <1>3 DEF MakeDue

LEMMA SkipForward ==
  ASSUME TypeOK, NEW i \in Items, NEW rest, SkipItem(i, rest)
  PROVE  /\ \A j \in Items : Forward(j)
         /\ status'[i] = "skipped" /\ state' = state
         /\ results' = results /\ faults \subseteq faults'
         /\ call' = rest \/ faults' # {}
BY DEF SkipItem, Persist, TypeOK, Forward

\* A step that keeps the results, and loses no branch that it was to visit.
LEMMA SettledStep ==
  ASSUME SettleInv, results' = results, Excused => Excused',
         \A j \in Items : Forward(j),
         \A c \in Checkpoints : \A i \in BranchesOf(c) :
           Awaited(c, i) => Excused' \/ Awaited(c, i)' \/ Settled(c, i)'
  PROVE  SettleInv'
<1> SUFFICES ASSUME ~Excused', NEW c \in Checkpoints, results[c] # "none",
                    NEW i \in BranchesOf(c)
             PROVE  Awaited(c, i)' \/ Settled(c, i)'
  BY DEF SettleInv
<1>1. Awaited(c, i) \/ Settled(c, i)
  BY DEF SettleInv
<1>2. Settled(c, i) => Settled(c, i)'
  BY ItemFacts DEF Settled, Forward
<1>3. QED
  BY <1>1, <1>2

\* The walks of prepare() and advance_to(): no branch waits for them.
LEMMA WalkSettles ==
  ASSUME TypeOK, SettleInv, PrepareItem \/ AdvanceItem
  PROVE  SettleInv'
<1>1. call.due \subseteq Items /\ call.op \in {"prepare", "advance"}
  BY DEF TypeOK, Calls, PrepareItem, AdvanceItem
<1>2. PICK i \in call.due :
        \/ \E now : MakeDue(i, now, Rest(i))
        \/ PersistRunEvent(FALSE, Idle) /\ UNCHANGED <<state, itemVars>>
  BY DEF PrepareItem, AdvanceItem
<1>3. \A j \in Items : Forward(j)
  BY <1>1, <1>2, DueForward DEF Forward, itemVars
<1>4. results' = results /\ faults \subseteq faults'
  BY <1>1, <1>2, DueForward DEF PersistRunEvent, itemVars
<1>5. Excused => Excused'
  BY <1>1, <1>4 DEF Excused
<1>6. \A c, j : ~Awaited(c, j)
  BY <1>1 DEF Awaited
<1>7. QED
  BY <1>3, <1>4, <1>5, <1>6, SettledStep

\* resolve_checkpoint(): the branch that is visited is settled by it.
LEMMA ResolveSettles ==
  ASSUME TypeOK, CallScope, SettleInv, ResolveBranch
  PROVE  SettleInv'
<1>1. PICK i \in call.due :
        IF MSEL[i].outcome = results[call.checkpoint]
        THEN MakeDue(i, elapsed, Rest(i)) /\ UNCHANGED elapsed
        ELSE IF state \in Live /\ status[i] \in Open
             THEN SkipItem(i, Rest(i))
             ELSE Reject
  BY DEF ResolveBranch
<1>2. /\ i \in Items /\ call.op = "resolve" /\ state # "stopped"
      /\ MSEL[i].checkpoint = call.checkpoint
  BY <1>1 DEF ResolveBranch, CallScope, BranchesOf, TypeOK
<1>3. /\ \A j \in Items : Forward(j)
      /\ results' = results /\ faults \subseteq faults'
      /\ call' = Rest(i) \/ faults' # {}
  BY <1>1, <1>2, DueForward, SkipForward DEF Reject, Forward
<1>4. Excused => Excused'
  BY <1>2, <1>3 DEF Excused
<1>5. Excused' \/ call' = Rest(i)
  BY <1>3 DEF Excused
<1>6. ASSUME NEW c, c = call.checkpoint PROVE Excused' \/ Settled(c, i)'
  <2>1. CASE MSEL[i].outcome = results[call.checkpoint] /\ MakeDue(i, elapsed, Rest(i))
    <3>1. status'[i] # "pending" /\ results' = results
      BY <1>2, <2>1, DueForward
    <3>2. QED
      BY <1>6, <2>1, <3>1 DEF Settled
  <2>2. CASE SkipItem(i, Rest(i))
    BY <1>2, <2>2, SkipForward DEF Settled
  <2>3. CASE Reject
    BY <2>3 DEF Reject, Excused
  <2>4. QED
    BY <1>1, <2>1, <2>2, <2>3
<1>7. ASSUME NEW c \in Checkpoints, NEW j \in BranchesOf(c), Awaited(c, j)
      PROVE  Excused' \/ Awaited(c, j)' \/ Settled(c, j)'
  <2>1. c = call.checkpoint /\ j \in call.due
    BY <1>7 DEF Awaited
  <2>2. CASE j = i
    BY <1>6, <2>1, <2>2
  <2>3. CASE j # i /\ call' = Rest(i)
    BY <1>2, <2>1, <2>3, RestTyped DEF Awaited
  <2>4. QED
    BY <1>5, <2>2, <2>3
<1>8. QED
  BY <1>3, <1>4, <1>7, SettledStep

\* A checkpoint that gets its result has all of its branches still to visit.
LEMMA CheckpointSettles ==
  ASSUME TypeOK, SettleInv, NEW c \in Checkpoints, NEW result \in Results,
         ResolveCheckpoint(c, result)
  PROVE  SettleInv'
<1> DEFINE branches ==
      [op |-> "resolve", due |-> BranchesOf(c), target |-> 0, checkpoint |-> c]
<1>1. PICK stored \in SinkOutcomes :
        Persist(c, <<"resolved", "facilitator">>, stored, branches)
  BY DEF ResolveCheckpoint
<1>2. /\ Quiet /\ state \in {"running", "paused"} /\ state' = state /\ c \in Items
      /\ status' = [status EXCEPT ![c] = "delivered"]
      /\ results' = [results EXCEPT ![c] = result]
  BY ItemFacts DEF ResolveCheckpoint
<1>3. faults \subseteq faults' /\ (call' = branches \/ faults' # {})
  BY <1>1 DEF Persist
<1> SUFFICES ASSUME ~Excused', NEW d \in Checkpoints, results'[d] # "none",
                    NEW i \in BranchesOf(d)
             PROVE  Awaited(d, i)' \/ Settled(d, i)'
  BY DEF SettleInv
<1>4. ~Excused /\ call' = branches
  BY <1>2, <1>3 DEF Excused
<1>5. CASE d = c
  BY <1>4, <1>5 DEF Awaited
<1>6. CASE d # c
  <2>1. results'[d] = results[d]
    BY <1>2, <1>6 DEF TypeOK
  <2>2. Settled(d, i)
    BY <1>2, <1>4, <2>1 DEF SettleInv, Awaited, Quiet
  <2>3. i \in Items /\ (status'[i] = status[i] \/ status'[i] = "delivered")
    BY <1>2, ItemFacts DEF TypeOK
  <2>4. QED
    BY <2>1, <2>2, <2>3 DEF Settled
<1>7. QED
  BY <1>5, <1>6

\* Deliveries and skips by hand, between two calls.
LEMMA HandSettles ==
  ASSUME TypeOK, SettleInv, NEW i \in Items, Deliver(i) \/ Skip(i)
  PROVE  SettleInv'
<1>1. call.op = "idle" /\ state # "stopped"
  BY DEF Deliver, Skip, Quiet, Live
<1>2. /\ \A j \in Items : Forward(j)
      /\ results' = results /\ faults \subseteq faults'
  BY DeliveryForward, SkipForward DEF Deliver, Skip
<1>3. Excused => Excused'
  BY <1>1, <1>2 DEF Excused
<1>4. \A c, j : ~Awaited(c, j)
  BY <1>1 DEF Awaited
<1>5. QED
  BY <1>2, <1>3, <1>4, SettledStep

\* The operations that begin, end or change no item; a call that ends has visited its
\* branches, or was stopped.
LEMMA RunSettles ==
  ASSUME SettleInv,
         \/ Prepare \/ Start \/ Pause \/ Resume \/ FailSafeStop \/ AdvanceEnd \/ CallEnd
         \/ \E t \in Nat : AdvanceTo(t)
  PROVE  SettleInv'
<1>1. UNCHANGED <<status, results>> /\ faults \subseteq faults'
  BY DEF Prepare, Start, Pause, Resume, FailSafeStop, AdvanceEnd, CallEnd, AdvanceTo,
         PersistRunEvent, itemVars
<1>2. \A j \in Items : Forward(j)
  BY <1>1 DEF Forward
<1>3. Excused => Excused'
  BY <1>1 DEF Excused, Prepare, Start, Pause, Resume, FailSafeStop, AdvanceEnd, CallEnd,
         AdvanceTo, Live, Idle
<1>4. ASSUME NEW c, NEW i, Awaited(c, i) PROVE Excused'
  BY <1>4 DEF Awaited, Excused, Prepare, Start, Pause, Resume, FailSafeStop, AdvanceEnd,
         CallEnd, AdvanceTo, Quiet, Idle
<1>5. QED
  BY <1>1, <1>2, <1>3, <1>4, SettledStep

\* resolve_checkpoint(): in a run without a refused event, a rejected skip or a stop,
\* a checkpoint that has a result leaves no branch pending and no opposite branch
\* that a facilitator could still deliver.
THEOREM BranchesAreSettled == Spec => []BranchesSettled
<1>1. Init => SettleInv
  BY DEF Init, SettleInv
<1>2. ClockInv /\ BranchInv /\ SettleInv /\ [Next]_vars => SettleInv'
  <2> SUFFICES ASSUME ClockInv, BranchInv, SettleInv, [Next]_vars PROVE SettleInv'
    OBVIOUS
  <2>1. TypeOK /\ CallScope
    BY DEF ClockInv, BranchInv
  <2>2. CASE CallStep
    BY <2>1, <2>2, WalkSettles, ResolveSettles, RunSettles DEF CallStep
  <2>3. CASE Prepare \/ Start \/ Pause \/ Resume \/ FailSafeStop
             \/ \E t \in 0..Horizon : AdvanceTo(t)
    BY <2>3, RunSettles, HorizonAssumption
  <2>4. CASE Reset
    BY <2>4 DEF Reset, SettleInv
  <2>5. CASE UNCHANGED vars
    BY <2>5 DEF vars, SettleInv, Excused, Awaited, Settled
  <2>6. QED
    BY <2>1, <2>2, <2>3, <2>4, <2>5, HandSettles, CheckpointSettles DEF Next
<1>3. SettleInv => BranchesSettled
  BY DEF SettleInv, Excused, Awaited, Settled, Quiet, BranchesSettled
<1>4. Spec => []BranchInv
  BY BranchInvariant, PTL
<1>5. QED
  BY <1>1, <1>2, <1>3, <1>4, ClockInvariant, PTL DEF Spec
===============================================================================
