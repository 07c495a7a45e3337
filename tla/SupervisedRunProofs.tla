------------------------- MODULE SupervisedRunProofs --------------------------
(***************************************************************************)
(* Proofs about SupervisedRun, for every schedule, timeout, heartbeat      *)
(* budget and horizon, and for a sink that may refuse any event.           *)
(***************************************************************************)
EXTENDS SupervisedRun, MfaProofs

\* A tick in progress was begun without a fault, and nothing but its own end
\* latches one before that.
TickUnlatched == job = "tick" => fault = "none"

LatchInv == NoPlayUnderFault /\ TickUnlatched

\* Nothing but a complete reset of a terminal run changes a latched code.
FaultKept ==
  fault # "none" /\ fault' # fault =>
    state \in {"stopped", "completed"} /\ ~gap /\ MfaInit'

-------------------------------------------------------------------------------
(***************************************************************************)
(* What the steps of ScheduledMfa do to the run state and to the gap.      *)
(***************************************************************************)

\* The walk over the due items may complete the run and nothing else.
LEMMA CallStepEffect ==
  CallStep => state' \in {state, "completed"} /\ (gap => gap')
<1>1. ASSUME ClockStep PROVE state' = state /\ (gap => gap')
  BY <1>1 DEF ClockStep, MfaAdvance
<1>2. ASSUME NEW i, NEW rest, DeliverItem(i, rest)
      PROVE  state' \in {state, "completed"} /\ (gap => gap')
  <2>1. CASE DeliverEnd(rest)
    BY <2>1 DEF DeliverEnd
  <2>2. CASE RefuseChallenge(i, rest)
    BY <2>2 DEF RefuseChallenge
  <2>3. CASE SendChallenge(i, rest)
    BY <2>3 DEF SendChallenge
  <2>4. CASE LoseChallenge(i, rest)
    BY <2>4 DEF LoseChallenge
  <2>5. QED
    BY <1>2, <2>1, <2>2, <2>3, <2>4 DEF DeliverItem
<1>3. ASSUME ItemStep PROVE state' \in {state, "completed"} /\ (gap => gap')
  <2>1. PICK i, rest : DeliverItem(i, rest)
    BY <1>3 DEF ItemStep
  <2>2. QED
    BY <1>2, <2>1
<1>4. QED
  BY <1>1, <1>3 DEF CallStep

\* The guarded calls other than the transitions of the run leave its state alone.
LEMMA MutationEffect ==
  Mutation => /\ state' = state /\ (gap => gap')
              /\ fault' = fault /\ job' = job /\ fault = "none"
<1>1. ASSUME NEW i, Deliver(i) PROVE state' = state /\ (gap => gap')
  <2>1. CASE i # End /\ state = "running" /\ Overdue(elapsed)
    BY <1>1, <2>1 DEF Deliver, MfaAdvance
  <2>2. CASE ~(i # End /\ state = "running" /\ Overdue(elapsed))
    BY <1>1, <2>2 DEF Deliver
  <2>3. QED
    BY <2>1, <2>2
<1>2. ASSUME NEW i, Skip(i) PROVE state' = state /\ (gap => gap')
  BY <1>2 DEF Skip
<1>3. ASSUME NEW i, NEW answer, Decide(i, answer) PROVE state' = state /\ (gap => gap')
  BY <1>3 DEF Decide, MfaAdvance
<1>4. ASSUME Contain PROVE state' = state /\ (gap => gap')
  <2>1. \/ gap' = TRUE
        \/ UNCHANGED <<mfaVars, gap>>
        \/ \E stored \in SinkOutcomes : gap' = (gap \/ ~stored)
    BY <1>4, Zenon DEF Contain
  <2>2. UNCHANGED <<mfaVars, gap>> => (gap => gap')
    BY Zenon
  <2>3. state' = state
    BY <1>4, Zenon DEF Contain
  <2>4. QED
    BY <2>1, <2>2, <2>3
<1>5. ASSUME OtherAction PROVE state' = state /\ (gap => gap')
  BY <1>5 DEF OtherAction, MfaAdvance
<1>6. ASSUME SignInDecision PROVE state' = state /\ (gap => gap')
  BY <1>6 DEF SignInDecision
<1>7. Mutation => state' = state /\ (gap => gap')
  BY <1>1, <1>2, <1>3, <1>4, <1>5, <1>6 DEF Mutation
<1>8. QED
  BY <1>7 DEF Mutation, Healthy, clockVars

\* Latching stops the run, unless it is complete, and ends the call around it.
LEMMA LatchEffect ==
  ASSUME NEW code, Latch(code)
  PROVE  /\ state' \in {"stopped", "completed"} /\ (gap => gap')
         /\ fault' = code /\ job' = "none"
BY DEF Latch, StopRun

-------------------------------------------------------------------------------
(***************************************************************************)
(* The steps of SupervisedRun.                                             *)
(***************************************************************************)

\* What each step must keep.
Kept == LatchInv' /\ FaultKept

LEMMA JobStepKept == LatchInv /\ JobStep => Kept
<1> SUFFICES ASSUME LatchInv, JobStep PROVE Kept
  OBVIOUS
<1>1. CASE CallStep /\ UNCHANGED clockVars
  BY <1>1, CallStepEffect
  DEF Kept, LatchInv, NoPlayUnderFault, TickUnlatched, FaultKept, clockVars
<1>2. CASE Reanchor
  BY <1>2
  DEF Reanchor, playVars, Kept, LatchInv, NoPlayUnderFault, TickUnlatched, FaultKept
<1>3. CASE PauseEnd
  <2>1. state' \in {state, "paused"} /\ (state' # state => state = "running") /\ (gap => gap')
    BY <1>3 DEF PauseEnd, PausePlay, Transition, playVars
  <2>2. fault' = fault /\ job' = "none"
    BY <1>3 DEF PauseEnd
  <2>3. QED
    BY <2>1, <2>2 DEF Kept, LatchInv, NoPlayUnderFault, TickUnlatched, FaultKept
<1>4. CASE TickEnd
  <2>1. fault = "none"
    BY <1>4 DEF TickEnd, LatchInv, TickUnlatched
  <2>2. CASE TickVerdict # "none"
    BY <1>4, <2>1, <2>2, LatchEffect
    DEF TickEnd, Kept, LatchInv, NoPlayUnderFault, TickUnlatched, FaultKept
  <2>3. CASE TickVerdict = "none"
    BY <1>4, <2>1, <2>3
    DEF TickEnd, playVars, Kept, LatchInv, NoPlayUnderFault, TickUnlatched, FaultKept
  <2>4. QED
    BY <2>2, <2>3
<1>5. QED
  BY <1>1, <1>2, <1>3, <1>4 DEF JobStep

LEMMA DriverKept ==
  LatchInv /\ (Attach \/ TickBegin \/ DriverFails \/ Detach \/ Refuse) => Kept
<1> SUFFICES ASSUME LatchInv, Attach \/ TickBegin \/ DriverFails \/ Detach \/ Refuse
             PROVE  Kept
  OBVIOUS
<1> USE DEF Kept, LatchInv, NoPlayUnderFault, TickUnlatched, FaultKept
<1>1. CASE Attach
  <2>1. CASE monotonic \/ fault # "none"
    BY <1>1, <2>1 DEF Attach, runVars, playVars
  <2>2. CASE ~(monotonic \/ fault # "none")
    BY <1>1, <2>2, LatchEffect DEF Attach
  <2>3. QED
    BY <2>1, <2>2
<1>2. CASE TickBegin
  <2>1. fault = "none"
    BY <1>2 DEF TickBegin
  <2>2. CASE Latch(Diagnosis)
    BY <2>1, <2>2, LatchEffect
  <2>3. CASE ~Latch(Diagnosis)
    <3>1. state' = state /\ (gap => gap') /\ fault' = fault
      BY <1>2, <2>3 DEF TickBegin, SchedulerTick, runVars, playVars
    <3>2. QED
      BY <2>1, <3>1
  <2>4. QED
    BY <2>2, <2>3
<1>3. CASE DriverFails
  BY <1>3, LatchEffect DEF DriverFails
<1>4. CASE Detach
  <2>1. CASE state \in {"running", "paused"}
    BY ZenonT(60), <1>4, <2>1 DEF Detach, StopRun, Free
  <2>2. CASE state \notin {"running", "paused"}
    BY <1>4, <2>2 DEF Detach, runVars, playVars
  <2>3. QED
    BY <2>1, <2>2
<1>5. CASE Refuse
  BY <1>5, LatchEffect DEF Refuse
<1>6. QED
  BY <1>1, <1>2, <1>3, <1>4, <1>5

LEMMA CallsKept ==
  /\ LatchInv
  /\ Start \/ PauseBegin \/ Resume \/ Mutation \/ StopRequest \/ \E t \in 0..Horizon : Jump(t)
  => Kept
<1> SUFFICES ASSUME LatchInv,
                    \/ Start \/ PauseBegin \/ Resume \/ Mutation \/ StopRequest
                    \/ \E t \in 0..Horizon : Jump(t)
             PROVE  Kept
  OBVIOUS
<1> USE DEF Kept, LatchInv, NoPlayUnderFault, TickUnlatched, FaultKept
<1>1. CASE Start
  BY <1>1 DEF Start, StartPlay, Transition, Healthy
<1>2. CASE PauseBegin
  BY <1>2 DEF PauseBegin, SchedulerTick, Healthy
<1>3. CASE Resume
  BY <1>3 DEF Resume, ResumePlay, Transition, Healthy
<1>4. CASE Mutation
  BY <1>4, MutationEffect
<1>5. CASE StopRequest
  BY <1>5 DEF StopRequest, Stop, StopRun, clockVars
<1>6. CASE \E t \in 0..Horizon : Jump(t)
  BY <1>6 DEF Jump, AdvanceTo, Healthy
<1>7. QED
  BY <1>1, <1>2, <1>3, <1>4, <1>5, <1>6

\* A reset needs a ledger without a gap, and only a complete one clears the latch.
LEMMA ResetKept == LatchInv /\ Reset => Kept
<1> SUFFICES ASSUME LatchInv, Reset PROVE Kept
  OBVIOUS
<1> USE DEF Kept, LatchInv, NoPlayUnderFault, TickUnlatched, FaultKept
<1>1. Free /\ state \in {"stopped", "completed"} /\ ~gap
  BY DEF Reset
<1>2. CASE ArchiveFails
  BY <1>1, <1>2 DEF ArchiveFails, clockVars
<1>3. CASE ResetStops
  BY <1>1, <1>3 DEF ResetStops, clockVars
<1>4. CASE ResetRun
  BY <1>1, <1>4 DEF ResetRun, NewClock, MfaInit, Free
<1>5. QED
  BY <1>2, <1>3, <1>4 DEF Reset

LEMMA NextKept == LatchInv /\ Next => Kept
<1> SUFFICES ASSUME LatchInv, Next PROVE Kept
  OBVIOUS
<1>1. CASE TimePasses \/ ProviderChanges
  BY <1>1 DEF TimePasses, ProviderChanges, runVars, playVars,
              Kept, LatchInv, NoPlayUnderFault, TickUnlatched, FaultKept
<1>2. QED
  BY <1>1, JobStepKept, DriverKept, CallsKept, ResetKept DEF Next

THEOREM LatchInvariant == Spec => []LatchInv
<1>1. Init => LatchInv
  BY DEF Init, MfaInit, LatchInv, NoPlayUnderFault, TickUnlatched
<1>2. LatchInv /\ [Next]_vars => LatchInv'
  <2>1. ASSUME LatchInv, UNCHANGED vars PROVE LatchInv'
    BY <2>1 DEF vars, runVars, playVars, clockVars, LatchInv, NoPlayUnderFault, TickUnlatched
  <2>2. QED
    BY <2>1, NextKept DEF Kept
<1>3. QED
  BY <1>1, <1>2, PTL DEF Spec

-------------------------------------------------------------------------------
(***************************************************************************)
(* The results.                                                            *)
(***************************************************************************)

\* ClockSupervisor.fault and everything that may follow it: play is never live
\* under a latched fault, whichever of the events of the stop, of a tick, of a
\* pause or of a reset the sink refuses.
THEOREM FaultMeansNoPlay == Spec => []NoPlayUnderFault
BY LatchInvariant, PTL DEF LatchInv

\* Only ClockSupervisor.reset, at the end of a complete reset of a terminal run,
\* clears a latched fault; no driver, tick, request or partial reset does.
THEOREM LatchIsFinal == Spec => LatchOutlivesTheRun
<1>1. LatchInv /\ [Next]_vars => [FaultKept]_vars
  BY NextKept DEF Kept
<1>2. QED
  BY <1>1, LatchInvariant, PTL DEF Spec, LatchOutlivesTheRun, FaultKept

-------------------------------------------------------------------------------
(***************************************************************************)
(* The exercise clock and real time.  As long as no event was lost, the    *)
(* seconds that the scheduler may still hand to the controller are already *)
(* accounted for (AnchorInv): before a tick they are those since the       *)
(* anchor, and while the controller walks, its target with those since the *)
(* anchor.  BeatInv relates the anchor to the heartbeat, which each tick   *)
(* sets after the anchor.                                                  *)
(***************************************************************************)
Walking == call.op \in {"clock", "item"}

TimeTypes ==
  /\ elapsed \in Nat /\ allowed \in Nat
  /\ heartbeat \in Nat \cup {Unset} /\ anchor \in Nat \cup {Unset}
  /\ call \in CallTypes
  /\ Walking => \A i \in call.due : At(i) <= call.target

\* Exercise seconds s and those since the anchor are accounted for.
Covered(s) == anchor # Unset => allowed = Horizon \/ s + anchor <= allowed

AnchorInv ==
  ~gap =>
    /\ elapsed <= allowed /\ allowed <= Horizon
    /\ state \in {"ready", "paused"} => anchor = Unset
    /\ state = "running" => Covered(elapsed)
    /\ Walking => call.target <= allowed /\ (state = "running" => Covered(call.target))

\* A tick that began after the heartbeat has set the anchor: it is younger than the
\* heartbeat until the tick ends, and by at most one budget older afterwards.
BeatInv ==
  /\ attached => managed
  /\ managed /\ ~attached => state \notin {"running", "paused"}
  /\ job = "tick" => attached
  /\ job \in {"start", "jump"} => state \in {"running", "completed"}
  /\ ~gap /\ attached /\ state = "running" /\ heartbeat \in 0..StaleAfter =>
       IF job = "tick" THEN anchor <= heartbeat ELSE anchor <= heartbeat + StaleAfter

TimeInv == TimeTypes /\ AnchorInv /\ BeatInv

\* What a step of the controller's walk does to the clock.
LEMMA WalkEffect ==
  ASSUME TimeTypes, CallStep
  PROVE  /\ elapsed' \in Nat
         /\ elapsed' = elapsed \/ (Walking /\ elapsed' <= call.target)
         /\ call' \in CallTypes
         /\ Walking' => /\ Walking /\ call'.target = call.target
                        /\ \A i \in call'.due : At(i) <= call'.target
<1>1. call = [op |-> call.op, due |-> call.due, target |-> call.target]
      /\ call.due \subseteq Items /\ call.target \in Nat /\ elapsed \in Nat
  BY DEF TimeTypes, CallTypes
<1>2. CASE ClockStep
  <2>1. PICK now \in {call.target} \cup {At(i) : i \in call.due}, stored \in SinkOutcomes :
          /\ elapsed' = now
          /\ call' = IF ~stored THEN Raised
                     ELSE IF call.due = {} THEN Idle
                     ELSE [call EXCEPT !.op = "item"]
    BY <1>2 DEF ClockStep
  <2>2. Walking /\ call.op = "clock"
    BY <1>2 DEF ClockStep, Walking
  <2>3. now \in Nat /\ now <= call.target
    BY <1>1, <2>2, ScheduleFacts DEF TimeTypes
  <2>4. \/ call' = Raised \/ call' = Idle
        \/ call' = [op |-> "item", due |-> call.due, target |-> call.target]
    BY <1>1, <2>1
  <2>5. call' \in CallTypes
        /\ (Walking' => call'.target = call.target /\ call'.due = call.due)
    BY <1>1, <2>4 DEF CallTypes, Walking, Raised, Idle
  <2>6. QED
    BY <2>1, <2>2, <2>3, <2>5 DEF TimeTypes
<1>3. CASE ItemStep
  <2>1. PICK i, rest :
          /\ i \in call.due /\ DeliverItem(i, rest)
          /\ rest = IF call.op = "deliver" THEN Idle
                    ELSE [call EXCEPT !.op = "clock", !.due = @ \ {i}]
    BY <1>3 DEF ItemStep
  <2>2. call.op \in {"item", "deliver"} /\ elapsed' = elapsed
    BY <1>3 DEF ItemStep
  <2>3. call' \in {rest, Raised}
    BY <2>1 DEF DeliverItem, DeliverEnd, RefuseChallenge, SendChallenge, LoseChallenge,
                ItemEvent
  <2>4. \/ call' = Raised \/ call' = Idle
        \/ /\ call.op = "item"
           /\ call' = [op |-> "clock", due |-> call.due \ {i}, target |-> call.target]
    BY <1>1, <2>1, <2>2, <2>3
  <2>5. call' \in CallTypes
        /\ (Walking' => Walking /\ call'.target = call.target /\ call'.due \subseteq call.due)
    BY <1>1, <2>4 DEF CallTypes, Walking, Raised, Idle
  <2>6. QED
    BY <1>1, <2>2, <2>5 DEF TimeTypes
<1>4. QED
  BY <1>2, <1>3 DEF CallStep

\* The guarded calls of people neither move the clock nor begin a walk.
LEMMA MutationStands ==
  ASSUME TimeTypes, Mutation
  PROVE  elapsed' = elapsed /\ call' \in CallTypes /\ ~Walking'
<1>1. Idle \in CallTypes /\ Idle.op = "idle"
  BY DEF Idle, CallTypes
<1>2. \A i \in Items :
        /\ [Idle EXCEPT !.op = "deliver", !.due = {i}] \in CallTypes
        /\ [Idle EXCEPT !.op = "deliver", !.due = {i}].op = "deliver"
  BY DEF Idle, CallTypes
<1>3. Raised \in CallTypes /\ Raised.op = "raised"
  BY DEF Raised, Idle, CallTypes
<1>4. ASSUME NEW i \in Items, Deliver(i)
      PROVE  /\ elapsed' = elapsed
             /\ call' \in {Idle, Raised, [Idle EXCEPT !.op = "deliver", !.due = {i}]}
  <2>1. CASE i # End /\ state = "running" /\ Overdue(elapsed)
    BY <1>4, <2>1 DEF Deliver, ItemEvent
  <2>2. CASE ~(i # End /\ state = "running" /\ Overdue(elapsed))
    BY <1>4, <2>2 DEF Deliver
  <2>3. QED
    BY <2>1, <2>2
<1>5. ASSUME NEW i \in Items, Skip(i) PROVE elapsed' = elapsed /\ call' \in {Idle, Raised}
  BY <1>5 DEF Skip, ItemEvent
<1>6. ASSUME \/ \E i \in Attempts, answer \in Answers : Decide(i, answer)
             \/ Contain \/ OtherAction \/ SignInDecision
      PROVE  elapsed' = elapsed /\ call' = Idle
  <2>1. CASE \E i \in Attempts, answer \in Answers : Decide(i, answer)
    BY <2>1 DEF Decide
  <2>2. CASE Contain
    BY <2>2, Zenon DEF Contain
  <2>3. CASE OtherAction
    BY <2>3, Zenon DEF OtherAction
  <2>4. CASE SignInDecision
    BY <2>4 DEF SignInDecision
  <2>5. QED
    BY <1>6, <2>1, <2>2, <2>3, <2>4
<1>7. QED
  BY <1>1, <1>2, <1>3, <1>4, <1>5, <1>6 DEF Mutation, Walking


LEMMA Quieted ==
  ASSUME call' \in {Idle, Raised}
  PROVE  call' \in CallTypes /\ ~Walking'
<1>1. /\ call' = [op |-> call'.op, due |-> call'.due, target |-> call'.target]
      /\ call'.op \in {"idle", "raised"} /\ call'.due = {} /\ call'.target = 0
  BY DEF Idle, Raised
<1>2. QED
  BY <1>1 DEF CallTypes, Walking

\* A jump or a tick begins: its items lie at or before its target.
LEMMA WalkBegins ==
  ASSUME NEW t \in Nat, call' = AdvanceCall(t)
  PROVE  /\ call' \in CallTypes /\ call'.target = t /\ call'.op = "clock"
         /\ Walking' /\ \A i \in call'.due : At(i) <= call'.target
BY DEF AdvanceCall, CallTypes, Walking

\* A tick of the scheduler uses up the seconds since the anchor.
LEMMA TickUsesAnchor ==
  ASSUME TimeInv, state = "running", SchedulerTick, allowed' = allowed, heartbeat' = heartbeat
  PROVE  /\ UNCHANGED <<state, elapsed, gap>> /\ anchor' = 0
         /\ TimeTypes' /\ AnchorInv'
         /\ call'.op = "clock" => anchor # Unset /\ call'.target <= elapsed + anchor
<1>1. UNCHANGED <<state, elapsed, gap>> /\ anchor' = 0
  BY DEF SchedulerTick
<1>2. /\ elapsed \in Nat /\ allowed \in Nat /\ Horizon \in Nat
      /\ anchor \in Nat \cup {Unset} /\ heartbeat \in Nat \cup {Unset}
  BY TimeAssumption DEF TimeInv, TimeTypes
<1>3. CASE anchor \in {Unset, 0}
  <2>1. call' = Idle
    BY <1>3 DEF SchedulerTick
  <2>2. call' \in CallTypes /\ ~Walking' /\ call'.op = "idle"
    BY <2>1, Quieted DEF Idle
  <2>3. TimeTypes'
    BY <1>1, <1>2, <2>2 DEF TimeTypes
  <2>4. AnchorInv'
    BY <1>1, <1>2, <2>2 DEF AnchorInv, Covered, Unset, TimeInv
  <2>5. QED
    BY <1>1, <2>2, <2>3, <2>4
<1>4. CASE anchor \notin {Unset, 0}
  <2>1. PICK t : t = Least(elapsed + anchor, Horizon)
    OBVIOUS
  <2>2. t \in Nat /\ t <= elapsed + anchor /\ t <= Horizon
    BY <1>2, <1>4, <2>1 DEF Least, Unset
  <2>3. call' = AdvanceCall(t)
    BY <1>4, <2>1 DEF SchedulerTick
  <2>4. /\ call' \in CallTypes /\ call'.target = t /\ call'.op = "clock"
        /\ Walking' /\ \A i \in call'.due : At(i) <= call'.target
    BY <2>2, <2>3, WalkBegins
  <2>5. TimeTypes'
    BY <1>1, <1>2, <2>4 DEF TimeTypes
  <2>6. AnchorInv'
    BY <1>1, <1>2, <1>4, <2>2, <2>4 DEF AnchorInv, Covered, Unset, TimeInv
  <2>7. QED
    BY <1>1, <1>4, <2>2, <2>4, <2>5, <2>6
<1>5. QED
  BY <1>3, <1>4

\* A step that ends or begins no walk leaves the account of the clock as it was.
LEMMA AccountStands ==
  ASSUME TimeInv, UNCHANGED <<elapsed, allowed>>, gap => gap',
         call' \in CallTypes, ~Walking', heartbeat' \in {heartbeat, 0, Unset},
         \/ anchor' = anchor /\ state' = state
         \/ anchor' = anchor /\ state' \in {"stopped", "completed"}
         \/ anchor' = 0 /\ state' \notin {"ready", "paused"}
         \/ anchor' = Unset
         \/ gap' /\ anchor' = anchor
         \/ anchor' = anchor /\ state = "paused" /\ state' = "running"
  PROVE  TimeTypes' /\ AnchorInv'
<1>1. TimeTypes'
  BY DEF TimeInv, TimeTypes, Unset
<1>2. AnchorInv'
  BY TimeAssumption DEF TimeInv, TimeTypes, AnchorInv, Covered, Unset
<1>3. QED
  BY <1>1, <1>2


LEMMA BeatWithoutPlay ==
  ASSUME attached' => managed', job' \in {"none", "pause"},
         state' \notin {"running", "paused"}
  PROVE  BeatInv'
BY DEF BeatInv

LEMMA BeatStands ==
  ASSUME BeatInv, UNCHANGED <<attached, managed, heartbeat, anchor>>, gap => gap',
         job' = job \/ (job # "tick" /\ job' \in {"none", "pause"}),
         state' \in {state, "completed"} \/ (state' = "stopped" /\ job' = "none")
  PROVE  BeatInv'
BY DEF BeatInv

LEMMA LatchTimes ==
  ASSUME TimeInv, NEW code, Latch(code), UNCHANGED <<allowed, anchor, managed>>,
         heartbeat' \in {heartbeat, 0}, attached' => managed'
  PROVE  TimeInv'
<1>1. /\ state' \in {"stopped", "completed"} /\ (gap => gap') /\ job' = "none"
      /\ elapsed' = elapsed /\ call' = Idle
  BY LatchEffect DEF Latch, StopRun
<1>2. call' \in CallTypes /\ ~Walking'
  BY <1>1, Quieted
<1>3. TimeTypes' /\ AnchorInv'
  BY <1>1, <1>2, AccountStands
<1>4. BeatInv'
  BY <1>1, BeatWithoutPlay
<1>5. QED
  BY <1>3, <1>4 DEF TimeInv

LEMMA JobTimes == ASSUME TimeInv, JobStep PROVE TimeInv'
<1>1. CASE CallStep /\ UNCHANGED clockVars
  <2>1. /\ elapsed' \in Nat
        /\ elapsed' = elapsed \/ (Walking /\ elapsed' <= call.target)
        /\ call' \in CallTypes
        /\ Walking' => /\ Walking /\ call'.target = call.target
                       /\ \A i \in call'.due : At(i) <= call'.target
    BY <1>1, WalkEffect DEF TimeInv
  <2>2. state' \in {state, "completed"} /\ (gap => gap')
    BY <1>1, CallStepEffect
  <2>3. UNCHANGED <<attached, managed, heartbeat, anchor, job, allowed>>
    BY <1>1 DEF clockVars
  <2>4. TimeTypes'
    BY <2>1, <2>3 DEF TimeInv, TimeTypes
  <2>5. AnchorInv'
    <3> SUFFICES ASSUME ~gap'
                 PROVE  /\ elapsed' <= allowed' /\ allowed' <= Horizon
                        /\ state' \in {"ready", "paused"} => anchor' = Unset
                        /\ state' = "running" => Covered(elapsed)'
                        /\ Walking' => /\ call'.target <= allowed'
                                       /\ state' = "running" => Covered(call.target)'
      BY DEF AnchorInv
    <3>1. /\ call.target \in Nat /\ elapsed \in Nat /\ allowed \in Nat
          /\ anchor \in Nat \cup {Unset} /\ Horizon \in Nat
      BY TimeAssumption DEF TimeInv, TimeTypes, CallTypes
    <3>2. /\ elapsed <= allowed /\ allowed <= Horizon
          /\ state \in {"ready", "paused"} => anchor = Unset
          /\ state = "running" => Covered(elapsed)
          /\ Walking => call.target <= allowed /\ (state = "running" => Covered(call.target))
      BY <2>2 DEF TimeInv, AnchorInv
    <3>3. elapsed' <= allowed'
      BY <2>1, <2>3, <3>1, <3>2
    <3>4. state' = "running" => Covered(elapsed)'
      <4> SUFFICES ASSUME state' = "running", anchor' # Unset, allowed' # Horizon
                   PROVE  elapsed' + anchor' <= allowed'
        BY DEF Covered
      <4>1. state = "running" /\ anchor \in Nat /\ elapsed + anchor <= allowed
        BY <2>2, <2>3, <3>1, <3>2 DEF Covered
      <4>2. CASE elapsed' = elapsed
        BY <2>3, <4>1, <4>2
      <4>3. CASE Walking /\ elapsed' <= call.target
        <5>1. call.target + anchor <= allowed
          BY <2>3, <3>2, <4>1, <4>3 DEF Covered
        <5>2. PICK e \in Nat : e = elapsed'
          BY <2>1
        <5>3. e + anchor <= allowed
          <6>1. PICK t \in Nat, a \in Nat, d \in Nat :
                  t = call.target /\ a = anchor /\ d = allowed
            BY <3>1, <4>1
          <6>2. e <= t /\ t + a <= d
            BY <4>3, <5>1, <5>2, <6>1
          <6>3. e + a <= d
            BY <6>2
          <6>4. QED
            BY <6>1, <6>3
        <5>4. QED
          BY <2>3, <5>2, <5>3
      <4>4. QED
        BY <2>1, <4>2, <4>3
    <3>5. Walking' => /\ call'.target <= allowed'
                      /\ state' = "running" => Covered(call.target)'
      BY <2>1, <2>2, <2>3, <3>2 DEF Covered
    <3>6. allowed' <= Horizon /\ (state' \in {"ready", "paused"} => anchor' = Unset)
      BY <2>2, <2>3, <3>2
    <3>7. QED
      BY <3>3, <3>4, <3>5, <3>6
  <2>6. BeatInv'
    BY <2>2, <2>3, BeatStands DEF TimeInv
  <2>7. QED
    BY <2>4, <2>5, <2>6 DEF TimeInv
<1>2. CASE Reanchor
  <2>1. /\ call' = Idle /\ job' = "none" /\ job # "tick"
        /\ UNCHANGED <<state, elapsed, gap, attached, managed, heartbeat>>
    BY <1>2 DEF Reanchor, playVars
  <2>2. call' \in CallTypes /\ ~Walking'
    BY <2>1, Quieted
  <2>3. CASE anchor' = 0 /\ allowed' = elapsed
    <3>1. TimeTypes'
      BY <2>1, <2>2, <2>3 DEF TimeInv, TimeTypes
    <3>2. state \notin {"ready", "paused"}
      BY <1>2 DEF Reanchor, TimeInv, BeatInv
    <3>3. AnchorInv'
      BY <2>1, <2>2, <2>3, <3>2, TimeAssumption DEF TimeInv, TimeTypes, AnchorInv, Covered, Unset
    <3>4. BeatInv'
      BY <2>1, <2>3, StaleAssumption DEF TimeInv, BeatInv, TimeTypes, Unset
    <3>5. QED
      BY <3>1, <3>3, <3>4 DEF TimeInv
  <2>4. CASE UNCHANGED <<anchor, allowed>>
    BY <2>1, <2>2, <2>4, AccountStands, BeatStands DEF TimeInv
  <2>5. QED
    BY <1>2, <2>3, <2>4 DEF Reanchor
<1>3. CASE PauseEnd
  <2>1. /\ job' = "none" /\ job = "pause" /\ call' = Idle
        /\ UNCHANGED <<elapsed, attached, managed, heartbeat, allowed>> /\ (gap => gap')
    BY <1>3 DEF PauseEnd, PausePlay, Transition, playVars
  <2>2. \/ UNCHANGED <<state, anchor>>
        \/ /\ state = "running" /\ state' = "paused"
           /\ anchor' = Unset \/ (gap' /\ anchor' = anchor)
    BY <1>3 DEF PauseEnd, PausePlay, Transition, playVars
  <2>3. call' \in CallTypes /\ ~Walking'
    BY <2>1, Quieted
  <2>4. TimeTypes' /\ AnchorInv'
    BY <2>1, <2>2, <2>3, AccountStands
  <2>5. BeatInv'
    BY <2>1, <2>2 DEF TimeInv, BeatInv
  <2>6. QED
    BY <2>4, <2>5 DEF TimeInv
<1>4. CASE TickEnd
  <2>1. UNCHANGED <<attached, managed, anchor, allowed>>
    BY <1>4 DEF TickEnd
  <2>2. CASE TickVerdict # "none"
    BY <1>4, <2>1, <2>2, LatchTimes DEF TickEnd, TimeInv, BeatInv
  <2>3. CASE TickVerdict = "none"
    <3>1. /\ heartbeat' = 0 /\ job' = "none" /\ job = "tick" /\ call' = Idle
          /\ UNCHANGED <<state, elapsed, gap>>
      BY <1>4, <2>3 DEF TickEnd, playVars
    <3>2. heartbeat \in 0..StaleAfter
      BY <1>4, <2>3, <3>1, StaleAssumption
      DEF TickVerdict, Diagnosis, TimeInv, TimeTypes, BeatInv, Unset
    <3>3. call' \in CallTypes /\ ~Walking'
      BY <3>1, Quieted
    <3>4. TimeTypes' /\ AnchorInv'
      BY <2>1, <3>1, <3>3, AccountStands
    <3>5. BeatInv'
      BY <2>1, <3>1, <3>2, StaleAssumption DEF TimeInv, TimeTypes, BeatInv, Unset
    <3>6. QED
      BY <3>4, <3>5 DEF TimeInv
  <2>4. QED
    BY <2>2, <2>3
<1>5. QED
  BY <1>1, <1>2, <1>3, <1>4 DEF JobStep


\* A supervised tick of running play: the heartbeat that admits it is fresh.
LEMMA TickTimes ==
  ASSUME TimeInv, TickBegin
  PROVE  /\ TimeInv'
         /\ ~gap /\ job' = "tick" /\ call'.op = "clock" =>
              call'.target - elapsed <= 2 * StaleAfter
<1>1. UNCHANGED <<attached, managed, monotonic, allowed>> /\ attached /\ managed
      /\ job = "none" /\ Quiet
  BY DEF TickBegin, Free, TimeInv, BeatInv
<1>2. CASE Diagnosis # "none" /\ Latch(Diagnosis) /\ UNCHANGED <<heartbeat, anchor>>
  BY <1>1, <1>2, LatchTimes, LatchEffect
<1>3. CASE Diagnosis = "none" /\ state = "running" /\ SchedulerTick /\ job' = "tick"
           /\ UNCHANGED <<fault, heartbeat>>
  <2>1. heartbeat \in 0..StaleAfter
    BY <1>1, <1>3, StaleAssumption DEF Diagnosis, TimeInv, TimeTypes, Unset
  <2>2. /\ UNCHANGED <<state, elapsed, gap>> /\ anchor' = 0
        /\ TimeTypes' /\ AnchorInv'
        /\ call'.op = "clock" => anchor # Unset /\ call'.target <= elapsed + anchor
    BY <1>1, <1>3, TickUsesAnchor
  <2>3. BeatInv'
    BY <1>1, <1>3, <2>1, <2>2, StaleAssumption DEF BeatInv
  <2>4. ASSUME ~gap, call'.op = "clock"
        PROVE  call'.target - elapsed <= 2 * StaleAfter
    <3>1. anchor <= heartbeat + StaleAfter
      BY <1>1, <1>3, <2>1, <2>4 DEF TimeInv, BeatInv
    <3>2. PICK t \in Nat, a \in Nat, s \in Nat, h \in Nat, e \in Nat :
            t = call'.target /\ a = anchor /\ s = StaleAfter /\ h = heartbeat /\ e = elapsed
      BY <2>1, <2>2, <2>4, StaleAssumption DEF TimeInv, TimeTypes, CallTypes
    <3>3. t <= e + a /\ a <= h + s /\ h <= s
      BY <2>1, <2>2, <2>4, <3>1, <3>2
    <3>4. t - e <= 2 * s
      BY <3>3
    <3>5. QED
      BY <3>2, <3>4
  <2>5. QED
    BY <2>2, <2>3, <2>4 DEF TimeInv
<1>4. CASE state # "running" /\ heartbeat' = 0 /\ UNCHANGED <<runVars, fault, anchor, job>>
  <2>1. UNCHANGED <<state, elapsed, gap, call, anchor, job>> /\ job # "tick"
    BY <1>1, <1>4 DEF runVars, playVars
  <2>2. call' \in CallTypes /\ ~Walking'
    BY <1>1, <2>1 DEF TimeInv, TimeTypes, Walking, Quiet
  <2>3. TimeTypes' /\ AnchorInv'
    BY <1>1, <1>4, <2>1, <2>2, AccountStands
  <2>4. BeatInv'
    BY <1>1, <1>4, <2>1 DEF BeatInv, TimeInv
  <2>5. QED
    BY <2>1, <2>3, <2>4 DEF TimeInv
<1>5. QED
  BY <1>2, <1>3, <1>4 DEF TickBegin

LEMMA DriverTimes == ASSUME TimeInv, Attach \/ DriverFails \/ Detach \/ Refuse PROVE TimeInv'
<1>1. CASE Attach
  <2>1. /\ attached' /\ managed' /\ heartbeat' \in {heartbeat, 0}
        /\ UNCHANGED <<anchor, allowed>> /\ Free
        /\ state \notin {"running", "paused"}
    BY <1>1 DEF Attach, TimeInv, BeatInv
  <2>2. CASE Latch("invalid_monotonic")
    <3>1. /\ state' \in {"stopped", "completed"} /\ (gap => gap') /\ job' = "none"
          /\ elapsed' = elapsed /\ call' = Idle
      BY <2>2, LatchEffect DEF Latch, StopRun
    <3>2. TimeTypes' /\ AnchorInv'
      BY <2>1, <3>1, Quieted, AccountStands
    <3>3. QED
      BY <2>1, <3>1, <3>2, BeatWithoutPlay DEF TimeInv
  <2>3. CASE UNCHANGED <<runVars, fault, job>>
    <3>1. UNCHANGED <<state, elapsed, gap, call, job>> /\ job = "none"
      BY <2>1, <2>3 DEF runVars, playVars, Free
    <3>2. call' \in CallTypes /\ ~Walking'
      BY <2>1, <3>1 DEF TimeInv, TimeTypes, Walking, Quiet, Free
    <3>3. TimeTypes' /\ AnchorInv'
      BY <2>1, <3>1, <3>2, AccountStands
    <3>4. QED
      BY <2>1, <3>1, <3>3, BeatWithoutPlay DEF TimeInv
  <2>4. QED
    BY <1>1, <2>2, <2>3 DEF Attach
<1>2. CASE DriverFails
  BY <1>2, LatchTimes DEF DriverFails, TimeInv, BeatInv
<1>3. CASE Detach
  <2>1. /\ ~attached' /\ managed' = managed /\ managed /\ job' = job /\ job = "none"
        /\ UNCHANGED <<heartbeat, anchor, allowed>> /\ Quiet
    BY <1>3 DEF Detach, Free, TimeInv, BeatInv
  <2>2. CASE state \in {"running", "paused"}
    <3>1. state' = "stopped" /\ elapsed' = elapsed /\ call' = Idle /\ (gap => gap')
      BY ZenonT(60), <1>3, <2>2 DEF Detach, StopRun
    <3>2. TimeTypes' /\ AnchorInv'
      BY <2>1, <3>1, Quieted, AccountStands
    <3>3. QED
      BY <2>1, <3>1, <3>2, BeatWithoutPlay DEF TimeInv
  <2>3. CASE state \notin {"running", "paused"}
    <3>1. UNCHANGED <<state, elapsed, gap, call>>
      BY <1>3, <2>3 DEF Detach, runVars, playVars
    <3>2. call' \in CallTypes /\ ~Walking'
      BY <2>1, <3>1 DEF TimeInv, TimeTypes, Walking, Quiet
    <3>3. TimeTypes' /\ AnchorInv'
      BY <2>1, <3>1, <3>2, AccountStands
    <3>4. QED
      BY <2>1, <2>3, <3>1, <3>3, BeatWithoutPlay DEF TimeInv
  <2>4. QED
    BY <2>2, <2>3
<1>4. CASE Refuse
  BY <1>4, LatchTimes DEF Refuse, TimeInv, BeatInv
<1>5. QED
  BY <1>1, <1>2, <1>3, <1>4

LEMMA ResetTimes == ASSUME TimeInv, Reset PROVE TimeInv'
<1>1. /\ job = "none" /\ Quiet /\ state \in {"stopped", "completed"}
      /\ attached => managed
  BY DEF Reset, Free, TimeInv, BeatInv
<1>2. CASE ArchiveFails
  <2>1. UNCHANGED <<state, elapsed, call, attached, managed, heartbeat, anchor, job, allowed>>
        /\ gap'
    BY <1>2 DEF ArchiveFails, clockVars
  <2>2. call' \in CallTypes /\ ~Walking'
    BY <1>1, <2>1 DEF TimeInv, TimeTypes, Walking, Quiet
  <2>3. TimeTypes' /\ AnchorInv'
    BY <2>1, <2>2, AccountStands
  <2>4. QED
    BY <1>1, <2>1, <2>3, BeatWithoutPlay DEF TimeInv
<1>3. CASE ResetStops
  <2>1. UNCHANGED <<call, attached, managed, heartbeat, anchor, job, allowed>>
        /\ gap' /\ elapsed' = 0 /\ state' = "ready"
    BY <1>3 DEF ResetStops, clockVars
  <2>2. ~Walking'
    BY <1>1, <2>1 DEF Walking, Quiet
  <2>3. TimeTypes' /\ AnchorInv'
    BY <2>1, <2>2 DEF TimeInv, TimeTypes, AnchorInv
  <2>4. QED
    BY <1>1, <2>1, <2>3, BeatWithoutPlay DEF TimeInv
<1>4. CASE ResetRun
  <2>1. UNCHANGED <<attached, managed, job>> /\ elapsed' = 0 /\ allowed' = 0
        /\ state' = "ready" /\ anchor' = Unset /\ call' = Idle
        /\ heartbeat' \in {heartbeat, 0, Unset}
    BY <1>4 DEF ResetRun, NewClock
  <2>2. call' \in CallTypes /\ ~Walking'
    BY <2>1, Quieted
  <2>3. TimeTypes' /\ AnchorInv'
    BY <2>1, <2>2, TimeAssumption DEF TimeInv, TimeTypes, AnchorInv, Unset
  <2>4. QED
    BY <1>1, <2>1, <2>3, BeatWithoutPlay DEF TimeInv
<1>5. QED
  BY <1>2, <1>3, <1>4 DEF Reset


LEMMA StartTimes == ASSUME TimeInv, Start PROVE TimeInv'
<1>1. /\ job = "none" /\ Quiet /\ elapsed = 0
      /\ UNCHANGED <<attached, managed, heartbeat, anchor, allowed>>
  BY DEF Start, Healthy, Free, ReadyToStart
<1>2. attached <=> managed
  BY DEF Start, Healthy, Diagnosis, TimeInv, BeatInv
<1>3. CASE gap' = TRUE /\ UNCHANGED <<state, elapsed, call, job>>
  <2>1. call' \in CallTypes /\ ~Walking'
    BY <1>1, <1>3 DEF TimeInv, TimeTypes, Walking, Quiet
  <2>2. TimeTypes' /\ AnchorInv'
    BY <1>1, <1>3, <2>1, AccountStands
  <2>3. BeatInv'
    BY <1>1, <1>3, BeatStands DEF TimeInv
  <2>4. QED
    BY <2>2, <2>3 DEF TimeInv
<1>4. ASSUME NEW stored \in SinkOutcomes, StartPlay(stored), job' = "start"
      PROVE  TimeInv'
  <2>1. /\ state = "ready" /\ state' = "running" /\ elapsed' = elapsed
        /\ (gap => gap') /\ (~stored => gap')
        /\ call' = IF stored THEN AdvanceCall(0) ELSE Raised
    BY <1>4, SinkAssumption DEF StartPlay, Transition
  <2>2. ~gap => anchor = Unset
    BY <2>1 DEF TimeInv, AnchorInv
  <2>3. /\ call' \in CallTypes
        /\ Walking' => call'.target = 0 /\ \A i \in call'.due : At(i) <= call'.target
    <3>1. CASE stored
      BY <2>1, <3>1, WalkBegins
    <3>2. CASE ~stored
      BY <2>1, <3>2, Quieted
    <3>3. QED
      BY <3>1, <3>2
  <2>4. TimeTypes'
    BY <1>1, <2>1, <2>3 DEF TimeInv, TimeTypes
  <2>5. AnchorInv'
    BY <1>1, <2>1, <2>2, <2>3 DEF TimeInv, TimeTypes, AnchorInv, Covered
  <2>6. BeatInv'
    BY <1>1, <1>2, <1>4, <2>1, <2>2, StaleAssumption DEF TimeInv, BeatInv, Unset
  <2>7. QED
    BY <2>4, <2>5, <2>6 DEF TimeInv
<1>5. QED
  BY <1>3, <1>4 DEF Start

\* A jump accounts for the seconds it passes over.
LEMMA JumpTimes == ASSUME TimeInv, NEW t \in 0..Horizon, Jump(t) PROVE TimeInv'
<1>1. /\ call' = AdvanceCall(t) /\ state = "running" /\ t >= elapsed
      /\ UNCHANGED <<state, elapsed, gap, attached, managed, heartbeat, anchor>>
      /\ job' = "jump" /\ job = "none" /\ allowed' = Least(allowed + (t - elapsed), Horizon)
  BY DEF Jump, AdvanceTo, Healthy, Free
<1>2. PICK e \in Nat, d \in Nat, h \in Nat :
        e = elapsed /\ d = allowed /\ h = Horizon /\ t \in Nat /\ t <= h /\ e <= t
  BY <1>1, TimeAssumption DEF TimeInv, TimeTypes
<1>3. allowed' = Least(d + (t - e), h) /\ allowed' \in Nat /\ allowed' <= h
  BY <1>1, <1>2 DEF Least
<1>4. /\ call' \in CallTypes /\ call'.target = t
      /\ Walking' /\ \A i \in call'.due : At(i) <= call'.target
  BY <1>1, <1>2, WalkBegins
<1>5. TimeTypes'
  BY <1>1, <1>3, <1>4 DEF TimeInv, TimeTypes
<1>6. ASSUME ~gap
      PROVE  e <= d /\ d <= h /\ (anchor # Unset => d = h \/ e + anchor <= d)
  BY <1>1, <1>2, <1>6 DEF TimeInv, AnchorInv, Covered
<1>7. AnchorInv'
  <2> SUFFICES ASSUME ~gap
               PROVE  /\ e <= allowed' /\ t <= allowed'
                      /\ anchor # Unset => allowed' = h \/ e + anchor <= allowed'
                      /\ anchor # Unset => allowed' = h \/ t + anchor <= allowed'
    BY <1>1, <1>2, <1>3, <1>4 DEF AnchorInv, Covered
  <2>1. e <= allowed' /\ t <= allowed'
    BY <1>2, <1>3, <1>6 DEF Least
  <2>2. ASSUME anchor # Unset, allowed' # h
        PROVE  e + anchor <= allowed' /\ t + anchor <= allowed'
    <3>1. PICK a \in Nat : a = anchor
      BY <2>2 DEF TimeInv, TimeTypes
    <3>2. allowed' = d + (t - e) /\ d # h
      BY <1>2, <1>3, <1>6, <2>2 DEF Least
    <3>3. e + a <= d
      BY <1>6, <2>2, <3>1, <3>2
    <3>4. QED
      BY <1>2, <3>1, <3>2, <3>3
  <2>3. QED
    BY <2>1, <2>2
<1>8. BeatInv'
  BY <1>1 DEF TimeInv, BeatInv
<1>9. QED
  BY <1>5, <1>7, <1>8 DEF TimeInv

LEMMA RequestTimes ==
  ASSUME TimeInv, PauseBegin \/ Resume \/ Mutation \/ StopRequest
  PROVE  TimeInv'
<1>1. CASE PauseBegin
  <2>1. /\ job = "none" /\ job' = "pause" /\ state = "running" /\ SchedulerTick
        /\ UNCHANGED <<attached, managed, heartbeat, allowed>>
    BY <1>1 DEF PauseBegin, Healthy, Free
  <2>2. /\ UNCHANGED <<state, elapsed, gap>> /\ anchor' = 0
        /\ TimeTypes' /\ AnchorInv'
    BY <2>1, TickUsesAnchor
  <2>3. BeatInv'
    BY <2>1, <2>2, StaleAssumption DEF TimeInv, TimeTypes, BeatInv, Unset
  <2>4. QED
    BY <2>2, <2>3 DEF TimeInv
<1>2. CASE Resume
  <2>1. PICK stored \in SinkOutcomes :
          /\ ResumePlay(stored)
          /\ anchor' = IF stored /\ monotonic THEN 0 ELSE anchor
    BY <1>2 DEF Resume
  <2>2. /\ state = "paused" /\ state' = "running" /\ call' = Idle /\ (gap => gap')
        /\ UNCHANGED <<elapsed, attached, managed, heartbeat, job, allowed>> /\ job = "none"
        /\ anchor' \in {0, anchor}
    BY <1>2, <2>1 DEF Resume, ResumePlay, Transition, Healthy, Free
  <2>3. call' \in CallTypes /\ ~Walking'
    BY <2>2, Quieted
  <2>4. TimeTypes' /\ AnchorInv'
    BY <2>2, <2>3, AccountStands
  <2>5. BeatInv'
    <3>1. ~gap => anchor = Unset
      BY <2>2 DEF TimeInv, AnchorInv
    <3>2. QED
      BY <2>2, <3>1, StaleAssumption DEF TimeInv, TimeTypes, BeatInv, Unset
  <2>6. QED
    BY <2>4, <2>5 DEF TimeInv
<1>3. CASE Mutation
  <2>1. elapsed' = elapsed /\ call' \in CallTypes /\ ~Walking'
    BY <1>3, MutationStands DEF TimeInv
  <2>2. state' = state /\ (gap => gap')
    BY <1>3, MutationEffect
  <2>3. UNCHANGED <<attached, managed, heartbeat, anchor, job, allowed>>
    BY <1>3 DEF Mutation, clockVars
  <2>4. TimeTypes' /\ AnchorInv'
    BY <2>1, <2>2, <2>3, AccountStands
  <2>5. BeatInv'
    BY <2>2, <2>3, BeatStands DEF TimeInv
  <2>6. QED
    BY <2>4, <2>5 DEF TimeInv
<1>4. CASE StopRequest
  <2>1. /\ state' = "stopped" /\ elapsed' = elapsed /\ call' = Idle /\ (gap => gap')
        /\ UNCHANGED <<attached, managed, heartbeat, anchor, job, allowed>> /\ job = "none"
    BY <1>4 DEF StopRequest, Stop, StopRun, clockVars
  <2>2. TimeTypes' /\ AnchorInv'
    BY <2>1, Quieted, AccountStands
  <2>3. BeatInv'
    BY <2>1, BeatStands DEF TimeInv
  <2>4. QED
    BY <2>2, <2>3 DEF TimeInv
<1>5. QED
  BY <1>1, <1>2, <1>3, <1>4

\* A second of real time ages the anchor and, in running play, is accounted for.
LEMMA ClockTimes == ASSUME TimeInv, TimePasses \/ ProviderChanges PROVE TimeInv'
<1>1. UNCHANGED <<state, elapsed, gap, call, attached, managed, job>>
  BY DEF TimePasses, ProviderChanges, runVars, playVars
<1>2. CASE TimePasses
  <2>1. PICK h \in Nat, s \in Nat, d \in Nat, e \in Nat :
          h = Horizon /\ s = StaleAfter /\ d = allowed /\ e = elapsed
    BY TimeAssumption, StaleAssumption DEF TimeInv, TimeTypes
  <2>2. /\ heartbeat' = Older(heartbeat, s + 1) /\ anchor' = Older(anchor, h)
        /\ allowed' = IF state = "running" THEN Least(d + 1, h) ELSE d
    BY <1>2, <2>1 DEF TimePasses
  <2>3. TimeTypes'
    <3>1. allowed' \in Nat
      BY <2>1, <2>2 DEF Least
    <3>2. \A age \in Nat \cup {Unset}, bound \in Nat : Older(age, bound) \in Nat \cup {Unset}
      BY DEF Older, Least
    <3>3. heartbeat' \in Nat \cup {Unset} /\ anchor' \in Nat \cup {Unset}
      BY <2>1, <2>2, <3>2 DEF TimeInv, TimeTypes
    <3>4. QED
      BY <1>1, <3>1, <3>3 DEF TimeInv, TimeTypes, Walking
  <2>4. ASSUME NEW t \in Nat, state = "running", Covered(t), d <= h, t <= d
        PROVE  /\ t <= allowed'
               /\ anchor' # Unset => allowed' = Horizon \/ t + anchor' <= allowed'
    <3>1. CASE anchor = Unset
      BY <2>1, <2>2, <2>4, <3>1 DEF Older, Least
    <3>2. CASE anchor # Unset
      <4>1. PICK a \in Nat : a = anchor
        BY <3>2 DEF TimeInv, TimeTypes
      <4>2. d = h \/ t + a <= d
        BY <2>1, <2>4, <3>2, <4>1 DEF Covered
      <4>3. anchor' = Least(a + 1, h) /\ allowed' = Least(d + 1, h)
        BY <2>2, <2>4, <3>2, <4>1 DEF Older
      <4>4. QED
        BY <2>1, <2>4, <4>2, <4>3 DEF Least
    <3>3. QED
      BY <3>1, <3>2
  <2>5. AnchorInv'
    <3> SUFFICES ASSUME ~gap PROVE AnchorInv'
      BY <1>1 DEF AnchorInv
    <3>1. /\ e <= d /\ d <= h
          /\ state \in {"ready", "paused"} => anchor = Unset
          /\ state = "running" => Covered(e)
          /\ Walking => call.target <= d /\ (state = "running" => Covered(call.target))
      BY <2>1 DEF TimeInv, AnchorInv
    <3>2. PICK t \in Nat : t = call.target
      BY DEF TimeInv, TimeTypes, CallTypes
    <3>3. CASE state = "running"
      <4>1. allowed' <= Horizon
        BY <2>1, <2>2, <3>1, <3>3 DEF Least
      <4>2. e <= allowed' /\ (anchor' # Unset => allowed' = Horizon \/ e + anchor' <= allowed')
        BY <2>1, <2>4, <3>1, <3>3
      <4>3. Walking => /\ t <= allowed'
                       /\ anchor' # Unset => allowed' = Horizon \/ t + anchor' <= allowed'
        BY <2>1, <2>4, <3>1, <3>2, <3>3
      <4>4. QED
        BY <1>1, <2>1, <3>2, <3>3, <4>1, <4>2, <4>3 DEF AnchorInv, Covered, Walking
    <3>4. CASE state # "running"
      <4>1. allowed' = allowed
        BY <2>1, <2>2, <3>4
      <4>2. state \in {"ready", "paused"} => anchor' = Unset
        BY <2>2, <3>1 DEF Older
      <4>3. QED
        BY <1>1, <2>1, <3>1, <3>4, <4>1, <4>2 DEF AnchorInv, Walking
    <3>5. QED
      BY <3>3, <3>4
  <2>6. BeatInv'
    <3>1. ASSUME ~gap, attached, state = "running", heartbeat' \in 0..StaleAfter
          PROVE  IF job = "tick" THEN anchor' <= heartbeat' ELSE anchor' <= heartbeat' + StaleAfter
      <4>1. PICK b \in Nat : b = heartbeat /\ b < s /\ heartbeat' = b + 1
        BY <2>1, <2>2, <3>1 DEF TimeInv, TimeTypes, Older, Least, Unset
      <4>2. IF job = "tick" THEN anchor <= b ELSE anchor <= b + s
        BY <2>1, <3>1, <4>1 DEF TimeInv, BeatInv
      <4>3. anchor' = Unset \/ anchor' <= anchor + 1
        BY <2>1, <2>2 DEF TimeInv, TimeTypes, Older, Least, Unset
      <4>4. anchor' \in Int /\ anchor \in Int
        BY <2>1, <2>3 DEF TimeInv, TimeTypes, Unset
      <4>5. QED
        BY <2>1, <4>1, <4>2, <4>3, <4>4 DEF Unset
    <3>2. QED
      BY <1>1, <3>1 DEF TimeInv, BeatInv
  <2>7. QED
    BY <2>3, <2>5, <2>6 DEF TimeInv
<1>3. CASE ProviderChanges
  <2>1. UNCHANGED <<heartbeat, anchor, allowed>>
    BY <1>3 DEF ProviderChanges
  <2>2. QED
    BY <1>1, <2>1 DEF TimeInv, TimeTypes, AnchorInv, BeatInv, Covered, Walking
<1>4. QED
  BY <1>2, <1>3


LEMMA TimeInvariant == Spec => []TimeInv
<1>1. Init => TimeInv
  <2> SUFFICES ASSUME Init PROVE TimeInv
    OBVIOUS
  <2>1. /\ elapsed = 0 /\ allowed = 0 /\ anchor = Unset /\ heartbeat = Unset /\ call = Idle
        /\ state = "ready" /\ ~attached /\ ~managed /\ job = "none"
    BY DEF Init, MfaInit
  <2>2. call \in CallTypes /\ ~Walking
    BY <2>1 DEF Idle, CallTypes, Walking
  <2>3. QED
    BY <2>1, <2>2, TimeAssumption DEF TimeInv, TimeTypes, AnchorInv, BeatInv
<1>2. TimeInv /\ [Next]_vars => TimeInv'
  <2> SUFFICES ASSUME TimeInv, [Next]_vars PROVE TimeInv'
    OBVIOUS
  <2>1. CASE UNCHANGED vars
    BY <2>1 DEF vars, runVars, playVars, clockVars, TimeInv, TimeTypes, AnchorInv, BeatInv,
                Covered, Walking
  <2>2. CASE Next
    BY <2>2, JobTimes, TickTimes, DriverTimes, StartTimes, JumpTimes, RequestTimes,
       ResetTimes, ClockTimes DEF Next
  <2>3. QED
    BY <2>1, <2>2
<1>3. QED
  BY <1>1, <1>2, PTL DEF Spec

\* ScenarioScheduler: as long as no event was lost, the exercise clock is never ahead of
\* the real time spent in running play and the seconds jumped over - with any number of
\* pauses, resumes, jumps, slow ticks, failing clock readings and changes of the driver.
THEOREM ClockFollowsRealTime == Spec => []PlayFollowsRealTime
<1>1. TimeInv => PlayFollowsRealTime
  BY DEF TimeInv, AnchorInv, PlayFollowsRealTime
<1>2. QED
  BY <1>1, TimeInvariant, PTL

\* ClockSupervisor.tick compares the heartbeat with its budget before the scheduler's
\* tick and after it; together they bound the seconds one tick hands to the controller.
THEOREM TicksAreShort == Spec => CatchUpIsBounded
<1> DEFINE Short == ~gap /\ job = "none" /\ job' = "tick" /\ call'.op = "clock" =>
                      call'.target - elapsed <= 2 * StaleAfter
<1>1. ASSUME TimeInv, [Next]_vars PROVE [Short]_vars
  <2>1. CASE TickBegin
    BY <1>1, <2>1, TickTimes
  <2>2. ASSUME Next, ~TickBegin PROVE ~(job = "none" /\ job' = "tick")
    <3>1. JobStep => job' \in {job, "none"}
      BY LatchEffect DEF JobStep, clockVars, Reanchor, PauseEnd, TickEnd
    <3>2. Attach \/ DriverFails \/ Detach \/ Refuse => job' \in {job, "none"}
      BY LatchEffect DEF Attach, DriverFails, Detach, Refuse
    <3>3. Start \/ PauseBegin \/ Resume \/ Mutation \/ StopRequest =>
            job' \in {job, "start", "pause"}
      BY DEF Start, PauseBegin, Resume, Mutation, StopRequest, clockVars
    <3>4. Reset => job' = job
      BY DEF Reset, ArchiveFails, ResetStops, ResetRun, clockVars
    <3>5. \A t \in 0..Horizon : Jump(t) => job' = "jump"
      BY DEF Jump
    <3>6. TimePasses \/ ProviderChanges => job' = job
      BY DEF TimePasses, ProviderChanges
    <3>7. QED
      BY <2>2, <3>1, <3>2, <3>3, <3>4, <3>5, <3>6 DEF Next
  <2>3. QED
    BY <1>1, <2>1, <2>2
<1>2. QED
  BY <1>1, TimeInvariant, PTL DEF Spec, CatchUpIsBounded
===============================================================================
