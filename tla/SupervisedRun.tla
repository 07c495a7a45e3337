---------------------------- MODULE SupervisedRun -----------------------------
(***************************************************************************)
(* The running exercise as the portal supervises it: the challenges and    *)
(* the exercise clock of ScheduledMfa, the ScenarioScheduler that feeds    *)
(* real time to that clock, the ClockSupervisor that latches a fault when  *)
(* its driver cannot be trusted, and the reset into a new run.             *)
(*                                                                         *)
(* Every portal call and every tick of the driver holds the run lock; only *)
(* real time passes while one is in progress.  `job' is the call that has  *)
(* to finish after the controller returns.  Real time is kept as ages: the *)
(* seconds since the last heartbeat and since the scheduler's anchor.      *)
(*                                                                         *)
(* cleanup_complete and fault_audit_persisted are reports no code reads,   *)
(* and are left out.                                                       *)
(***************************************************************************)
EXTENDS ScheduledMfa

CONSTANT StaleAfter      \* stale_after_seconds

ASSUME StaleAssumption == StaleAfter \in Nat \ {0}

Unset == -1

VARIABLES
  attached,   \* a lifespan driver holds the clock
  managed,    \* a driver was attached at some time
  fault,      \* fault_code, "none" for None
  heartbeat,  \* seconds since last_heartbeat, Unset for None
  anchor,     \* seconds since the scheduler's _last_observed, Unset for None
  monotonic,  \* the clock provider returns finite, forward readings
  job,        \* the portal call or tick around the controller call
  allowed     \* exercise seconds that running time and jumps account for

clockVars == <<attached, managed, fault, heartbeat, anchor, monotonic, job, allowed>>
vars == <<runVars, clockVars>>

Codes == {"heartbeat_stale", "invalid_monotonic", "driver_unavailable",
          "scheduler_tick_failed", "driver_failed"}
Jobs  == {"none", "start", "jump", "tick", "pause"}

TypeOK ==
  /\ MfaTypeOK
  /\ attached \in BOOLEAN /\ managed \in BOOLEAN /\ monotonic \in BOOLEAN
  /\ fault \in Codes \cup {"none"}
  /\ heartbeat \in Nat \cup {Unset} /\ anchor \in Nat \cup {Unset}
  /\ job \in Jobs
  /\ allowed \in Nat

Least(m, n)   == IF m <= n THEN m ELSE n
Free          == job = "none" /\ Quiet
SomeFailed    == \E i \in Items : status[i] = "failed"

\* snapshot()["status"] and the item check of require_healthy, as the fault code
\* they lead to.  A clock that no driver ever managed is not supervised.
Diagnosis ==
  IF ~managed THEN "none"
  ELSE IF ~attached THEN "driver_unavailable"
  ELSE IF heartbeat = Unset \/ ~monotonic THEN "invalid_monotonic"
  ELSE IF heartbeat > StaleAfter THEN "heartbeat_stale"
  ELSE IF state \in {"running", "paused"} /\ SomeFailed THEN "scheduler_tick_failed"
  ELSE "none"

(***************************************************************************)
(* fault(): latch the code, try every part of the stop (s1, s2, s3), then  *)
(* write the exercise.clock.faulted event (s4).                            *)
(***************************************************************************)
\* The fault is latched without stopping a paused run.
Latch_Bug(code) ==
  /\ fault' = code
  /\ \E s1, s2, s3, s4 \in SinkOutcomes :
       /\ IF state \in {"completed", "paused"}
          THEN s1 /\ s2 /\ s3 /\ UNCHANGED <<state, elapsed, status, containedAt, mfaVars>>
          ELSE StopRun(s1, s2)
       /\ gap' = (gap \/ ~(s1 /\ s2 /\ s3 /\ s4))
  /\ call' = Idle /\ job' = "none"
Latch(code) ==
  /\ fault' = code
  /\ \E s1, s2, s3, s4 \in SinkOutcomes :
       /\ IF state = "completed"
          THEN s1 /\ s2 /\ s3 /\ UNCHANGED <<state, elapsed, status, containedAt, mfaVars>>
          ELSE StopRun(s1, s2)
       /\ gap' = (gap \/ ~(s1 /\ s2 /\ s3 /\ s4))
  /\ call' = Idle /\ job' = "none"

(***************************************************************************)
(* The driver: attach, tick, fail, detach.                                 *)
(***************************************************************************)
\* A new driver starts with a clean record.
Attach_Bug ==
  /\ Free /\ ~attached
  /\ managed \/ state = "ready"
  /\ attached' = TRUE /\ managed' = TRUE
  /\ IF monotonic THEN heartbeat' = 0 /\ fault' = "none" ELSE UNCHANGED <<heartbeat, fault>>
  /\ UNCHANGED <<runVars, job, anchor, monotonic, allowed>>
\* attach() is called by the lifespan of the portal alone, before the first
\* request: a run that play began in without a driver never gets one later.
Attach ==
  /\ Free /\ ~attached
  /\ managed \/ state = "ready"
  /\ attached' = TRUE /\ managed' = TRUE
  /\ IF monotonic THEN heartbeat' = 0 ELSE UNCHANGED heartbeat
  /\ IF monotonic \/ fault # "none"
     THEN UNCHANGED <<runVars, fault, job>>
     ELSE Latch("invalid_monotonic")
  /\ UNCHANGED <<anchor, monotonic, allowed>>

\* The observed time is not consumed.
SchedulerTick_Bug ==
  /\ monotonic
  /\ anchor' = IF anchor = Unset THEN 0 ELSE anchor
  /\ call' = IF anchor \in {Unset, 0} THEN Idle
             ELSE AdvanceCall(Least(elapsed + anchor, Horizon))
  /\ UNCHANGED <<state, elapsed, status, containedAt, mfaVars, gap>>
\* ScenarioScheduler.tick of a running controller: the first reading only sets
\* the anchor, later ones hand the seconds since the anchor to advance_to.
SchedulerTick ==
  /\ monotonic
  /\ anchor' = 0
  /\ call' = IF anchor \in {Unset, 0} THEN Idle
             ELSE AdvanceCall(Least(elapsed + anchor, Horizon))
  /\ UNCHANGED <<state, elapsed, status, containedAt, mfaVars, gap>>

\* A stale tick returns and leaves it to the next request to notice.
TickBegin_Bug ==
  /\ Free /\ attached /\ fault = "none" /\ Diagnosis = "none"
  /\ \/ /\ state = "running"
        /\ SchedulerTick
        /\ job' = "tick"
        /\ UNCHANGED <<fault, heartbeat>>
     \/ /\ state # "running"
        /\ heartbeat' = 0
        /\ UNCHANGED <<runVars, fault, anchor, job>>
  /\ UNCHANGED <<attached, managed, monotonic, allowed>>
TickBegin ==
  /\ Free /\ attached /\ fault = "none"
  /\ \/ /\ Diagnosis # "none"
        /\ Latch(Diagnosis)
        /\ UNCHANGED <<heartbeat, anchor>>
     \/ /\ Diagnosis = "none" /\ state = "running"
        /\ SchedulerTick
        /\ job' = "tick"
        /\ UNCHANGED <<fault, heartbeat>>
     \/ /\ Diagnosis = "none" /\ state # "running"
        /\ heartbeat' = 0
        /\ UNCHANGED <<runVars, fault, anchor, job>>
  /\ UNCHANGED <<attached, managed, monotonic, allowed>>

\* The scheduler has returned: a raised advance, a stop or a failed item within
\* the tick, and a tick that outlasted the heartbeat budget all latch.
TickVerdict ==
  IF call.op = "raised" \/ state = "stopped" \/ SomeFailed THEN "scheduler_tick_failed"
  ELSE Diagnosis

\* The tick refreshes the heartbeat without looking at its age again.
TickEnd_Bug ==
  /\ job = "tick" /\ Quiet
  /\ IF call.op = "raised" \/ SomeFailed
     THEN Latch("scheduler_tick_failed") /\ UNCHANGED heartbeat
     ELSE heartbeat' = 0 /\ job' = "none" /\ call' = Idle /\ UNCHANGED <<playVars, fault>>
  /\ UNCHANGED <<attached, managed, anchor, monotonic, allowed>>
TickEnd ==
  /\ job = "tick" /\ Quiet
  /\ IF TickVerdict # "none"
     THEN Latch(TickVerdict) /\ UNCHANGED heartbeat
     ELSE heartbeat' = 0 /\ job' = "none" /\ call' = Idle /\ UNCHANGED <<playVars, fault>>
  /\ UNCHANGED <<attached, managed, anchor, monotonic, allowed>>

\* The driver task of the lifespan is cancelled or dies.
DriverFails ==
  /\ Free /\ attached /\ fault = "none"
  /\ Latch("driver_failed")
  /\ UNCHANGED <<attached, managed, heartbeat, anchor, monotonic, allowed>>

\* Shutdown, after the driver has drained.  When the stop could not write all
\* its events, fault() stops again: the run and the challenge are settled by
\* then, only adapter latches (s5) and the fault event (s4) are written.
Detach ==
  /\ Free /\ attached
  /\ attached' = FALSE
  /\ IF state \in {"running", "paused"}
     THEN \E s1, s2, s3, s4, s5 \in SinkOutcomes :
            LET clean == s1 /\ s2 /\ s3 IN
            /\ StopRun(s1, s2)
            /\ clean \/ fault # "none" => s4 /\ s5
            /\ fault' = IF clean \/ fault # "none" THEN fault ELSE "driver_failed"
            /\ gap' = (gap \/ ~(clean /\ s4 /\ s5))
            /\ call' = Idle
     ELSE UNCHANGED <<runVars, fault>>
  /\ UNCHANGED <<managed, heartbeat, anchor, monotonic, job, allowed>>

(***************************************************************************)
(* Portal calls.  runtime_mutation asks require_healthy first: an unsound  *)
(* clock is latched before the call has any effect.                        *)
(***************************************************************************)
Healthy == Free /\ fault = "none" /\ Diagnosis = "none"

Refuse ==
  /\ Free /\ fault = "none" /\ Diagnosis # "none"
  /\ Latch(Diagnosis)
  /\ UNCHANGED <<attached, managed, heartbeat, anchor, monotonic, allowed>>

\* The stored sequence is 1..n and the sequencer stands at n.
LedgerMatches == ~gap

\* The checks of application_readiness that concern this state.
ReadyToStart ==
  /\ elapsed = 0 /\ LedgerMatches
  /\ pending = None /\ \A i \in Attempts : challenge[i].at = -1
  /\ ~Contained /\ decision = "pending"

Start ==
  /\ Healthy /\ ReadyToStart
  /\ \/ FALSE \in SinkOutcomes /\ state = "ready" /\ gap' = TRUE   \* readiness audit refused
        /\ UNCHANGED <<state, elapsed, status, containedAt, mfaVars, call, job>>
     \/ \E stored \in SinkOutcomes : StartPlay(stored) /\ job' = "start"
  /\ UNCHANGED <<attached, managed, fault, heartbeat, anchor, monotonic, allowed>>

Jump(t) ==
  /\ Healthy /\ AdvanceTo(t)
  /\ job' = "jump"
  /\ allowed' = Least(allowed + (t - elapsed), Horizon)
  /\ UNCHANGED <<attached, managed, fault, heartbeat, anchor, monotonic>>

\* start and advance_to of the scheduler anchor real time again at their end,
\* unless the controller raised.
Reanchor ==
  /\ job \in {"start", "jump"} /\ Quiet
  /\ job' = "none"
  /\ IF call.op = "idle" /\ monotonic
     THEN anchor' = 0 /\ allowed' = elapsed
     ELSE UNCHANGED <<anchor, allowed>>
  /\ call' = Idle
  /\ UNCHANGED <<playVars, attached, managed, fault, heartbeat, monotonic>>

PauseBegin ==
  /\ Healthy /\ state = "running"
  /\ SchedulerTick
  /\ job' = "pause"
  /\ UNCHANGED <<attached, managed, fault, heartbeat, monotonic, allowed>>

\* The paused state stands even when its event is refused; the anchor is then
\* not cleared.  Nothing is paused when the tick raised or ended the run.
PauseEnd ==
  /\ job = "pause" /\ Quiet
  /\ job' = "none"
  /\ IF call.op = "idle" /\ state = "running"
     THEN \E stored \in SinkOutcomes :
            /\ PausePlay(stored)
            /\ anchor' = IF stored THEN Unset ELSE anchor
     ELSE call' = Idle /\ UNCHANGED <<playVars, anchor>>
  /\ UNCHANGED <<attached, managed, fault, heartbeat, monotonic, allowed>>

Resume ==
  /\ Healthy
  /\ \E stored \in SinkOutcomes :
       /\ ResumePlay(stored)
       /\ anchor' = IF stored /\ monotonic THEN 0 ELSE anchor
  /\ UNCHANGED <<attached, managed, fault, heartbeat, monotonic, job, allowed>>

Mutation ==
  /\ Healthy
  /\ \/ \E i \in Items : Deliver(i) \/ Skip(i)
     \/ \E i \in Attempts, answer \in Answers : Decide(i, answer)
     \/ Contain \/ OtherAction \/ SignInDecision
  /\ UNCHANGED clockVars

\* stop_run is not guarded: it stays available under a fault.
StopRequest == job = "none" /\ Stop /\ UNCHANGED clockVars

(***************************************************************************)
(* reset_run: capture the terminal review, reset the run, then the         *)
(* scheduler and at last the clock.                                        *)
(***************************************************************************)
\* The archive was refused and the ledger cannot be read back either, so the
\* sequence number it reserved is not returned.  An archive that is taken back, or
\* committed before it raises, leaves no gap and changes nothing here (RunLedger).
ArchiveFails ==
  /\ FALSE \in SinkOutcomes
  /\ gap' = TRUE
  /\ UNCHANGED <<state, elapsed, status, containedAt, mfaVars, call, clockVars>>

\* controller.reset has changed its state when its event is refused; the
\* components, the scheduler and the clock still belong to the old run.
ResetStops ==
  /\ FALSE \in SinkOutcomes
  /\ state' = "ready" /\ elapsed' = 0
  /\ status' = NothingDone
  /\ gap' = TRUE
  /\ UNCHANGED <<containedAt, mfaVars, call, clockVars>>

\* clock.reset(), which raises when an attached driver has no valid reading.
NewClock ==
  IF attached /\ ~monotonic THEN UNCHANGED <<fault, heartbeat>>
  ELSE fault' = "none" /\ heartbeat' = IF attached THEN 0 ELSE Unset

\* controller.reset, and the components that _initialize builds anew.
ResetRun ==
  /\ state' = "ready" /\ elapsed' = 0 /\ status' = NothingDone
  /\ challenge' = NothingSent /\ pending' = None /\ containedAt' = -1
  /\ decision' = "pending"
  /\ ledger' = <<>> /\ gap' = FALSE /\ call' = Idle
  /\ anchor' = Unset /\ allowed' = 0
  /\ NewClock
  /\ UNCHANGED <<attached, managed, monotonic, job>>

\* _capture_review accepts only a ledger without a gap.
Reset ==
  /\ Free /\ state \in {"stopped", "completed"} /\ ~gap
  /\ ArchiveFails \/ ResetStops \/ ResetRun

(***************************************************************************)
(* Real time.  Ages stop counting where they make no difference any more:  *)
(* beyond the budget, and beyond the horizon.                              *)
(***************************************************************************)
Older(age, bound) == IF age = Unset THEN Unset ELSE Least(age + 1, bound)

TimePasses ==
  /\ heartbeat' = Older(heartbeat, StaleAfter + 1)
  /\ anchor' = Older(anchor, Horizon)
  /\ allowed' = IF state = "running" THEN Least(allowed + 1, Horizon) ELSE allowed
  /\ UNCHANGED <<runVars, attached, managed, fault, monotonic, job>>

ProviderChanges ==
  /\ monotonic' = ~monotonic
  /\ UNCHANGED <<runVars, attached, managed, fault, heartbeat, anchor, job, allowed>>

Init ==
  /\ MfaInit
  /\ attached = FALSE /\ managed = FALSE /\ monotonic = TRUE
  /\ fault = "none"
  /\ heartbeat = Unset /\ anchor = Unset
  /\ job = "none" /\ allowed = 0

\* What is left of a call or a tick; it runs to its end under the lock.
JobStep ==
  \/ CallStep /\ UNCHANGED clockVars
  \/ Reanchor \/ PauseEnd \/ TickEnd

Next ==
  \/ JobStep
  \/ Attach \/ TickBegin \/ DriverFails \/ Detach
  \/ Refuse \/ Start \/ PauseBegin \/ Resume \/ Mutation \/ StopRequest \/ Reset
  \/ \E t \in 0..Horizon : Jump(t)
  \/ TimePasses \/ ProviderChanges

Spec == Init /\ [][Next]_vars

\* A call in progress returns (WF).  The attached driver asks for the run lock
\* every second and in the end gets it, however often requests hold it (SF).
\* Nobody else is obliged to act.
FairSpec == Spec /\ WF_vars(JobStep) /\ SF_vars(TickBegin)

-------------------------------------------------------------------------------
(***************************************************************************)
(* Safety.                                                                 *)
(***************************************************************************)

\* docs/exercise-clock.md, "faulted": "Per-run safety latch; delivery/start/
\* resume/actions blocked until successful archive/reset."  No play is live
\* under a latched fault, whichever events the stop or the reset lost.
NoPlayUnderFault == fault # "none" => state \notin {"running", "paused"}

\* docs/exercise-clock.md: "paused time is not counted, resume reanchors, and
\* explicit advance reanchors the scheduler."  As long as no event was lost, the
\* exercise clock has not run ahead of the real time spent in running play plus
\* the seconds the facilitator jumped over.
PlayFollowsRealTime == ~gap => elapsed <= allowed

\* The same, whatever events were lost.
PausedTimeIsNotCounted == elapsed <= allowed

(***************************************************************************)
(* Action properties.                                                      *)
(***************************************************************************)

\* ClockSupervisor.tick must "never catch up stale play": one supervised tick
\* hands at most two budgets of real time to the controller, one for the wait
\* since the heartbeat and one for the handlers of the tick before it.
CatchUpIsBounded ==
  [][~gap /\ job = "none" /\ job' = "tick" /\ call'.op = "clock" =>
       call'.target - elapsed <= 2 * StaleAfter]_vars

\* "Only a successful prior-run archive and verified application reset clear the
\* latch": a fault code changes only together with a complete reset of a
\* terminal run, never by a new driver, a tick or a partial reset.
LatchOutlivesTheRun ==
  [][fault # "none" /\ fault' # fault =>
       state \in {"stopped", "completed"} /\ ~gap /\ MfaInit']_vars

(***************************************************************************)
(* Liveness.                                                               *)
(***************************************************************************)

\* Play under an unsound clock, or with an item that failed, is stopped: by the
\* next tick or by the next guarded call, unless the clock recovers before.
UnsoundPlayIsStopped ==
  (state = "running" /\ Diagnosis # "none") ~> (state # "running" \/ Diagnosis = "none")
===============================================================================
