# A verification of Operation Silent Spider

Operation Silent Spider is a facilitated blue-team exercise. A scripted
scenario is played against a simulated company; participants investigate and
contain it through a web portal; facilitators, evaluators and technical staff
steer, judge and operate the run. Everything the adversary does is synthetic.
What has to be right is the machinery around it: the exercise clock and the
reviewed script, the evidence ledger, the emergency stop, the reset, and the
publication of the ledger to the monitoring pipeline.

This directory holds TLA+ models of that machinery, the TLC configurations that
check them and TLAPS proofs about them. `PROJECT.json` maps each definition to
the lines it models.

## 1. Inventory

| component | state | operations | interacts with |
|---|---|---|---|
| scenario controller (`orchestrator/controller.py`) | run state, exercise clock, status and delivery time of each reviewed item, checkpoint results | prepare, start, pause, resume, advance_to, deliver, skip, resolve_checkpoint, fail_safe_stop, reset | calls allowlisted handlers, clock observers and the event sink |
| scheduler (`orchestrator/scheduler.py`) | last monotonic reading, fraction of a second | start, tick, pause, resume, advance_to, reset | drives the controller |
| clock supervisor (`dashboard/clock.py`) | attached, heartbeat, fault latch | attach, tick, require_healthy, fault, reset, detach | gates every mutation; stops the run on a fault |
| exercise run (`orchestrator/identity_slice.py`) | the controller and all stages of one run | submit_action, submit_dp1, resolve_dp2, fail_safe_stop, reset | owns `state_lock`, the sequencer and every adapter |
| safe action adapter (`shared/actions.py`) | results by idempotency key, running controls, executions, stopped runs | execute, activate_fail_safe, rollback | calls fixture handlers without its lock |
| scheduled MFA (`orchestrator/mfa.py`) | one pending challenge, history | advance, deliver, decide, stop | observes the clock, reads the identity fixture |
| identity, endpoint, cloud and impact fixtures (`modules/04` to `07`, `orchestrator/cloud.py`, `impact.py`) | simulated accounts, sessions, hosts, buckets, marker files | containment, rollback, reset | registered with the adapter |
| ledger (`shared/events.py`, `dashboard/store.py`) | sequence counter; SQLite events, identity audit, archives, judgments | next, append, archive, delete audit | written by every component |
| portal service (`dashboard/service.py`, `readiness.py`) | composition of the above | readiness, prepare, start, judge, timeline, archive, reset | one call at a time under `state_lock` |
| sign-in and identity audit (`dashboard/sso.py`, `identity_audit.py`) | workflow view, failures, challenge; bounded audit | sign_in, decide_mfa, review, record | identity fixture, ledger |
| support queue (`dashboard/support.py`, `orchestrator/support.py`, `static/support.js`) | derived from the ledger; the page's frozen question | request, respond, submit | stops the run when evidence is lost |
| judgments and archives (`dashboard/service.py`, `store.py`, `orchestrator/aar.py`, `static/evaluator-review.js`) | judgments in the ledger, frozen bundles | judge_objective, capture, the archive of a reset | every reset depends on it |
| evidence page (`dashboard/service.py` participant_evidence, `static/evidence.js`) | cursor, signals, backlog | refresh page by page | reads the ledger of the run |
| event spool (`dashboard/event_spool.py`) | batch directories, HEAD, publisher lock | preview, export | reads the ledger from a process of its own |
| browser session (`dashboard/static/participant-session.js`) | credential, epoch, serial, pending write | refresh, read, write | the HTTP API |

Hard behaviours, each listed at its line under `hazards` in `PROJECT.json`:
jumps of the clock over several due items, any of which may fail; facilitator
interventions around checkpoint branches; events refused by the ledger after
memory has changed; a fail-safe stop racing an action; challenge decisions
racing expiry and containment; steps of the stages that change a fixture, then
its audit, then its evidence, each of which may fail or come too late; responses
between a checkpoint and its branch; partial failure of a reset; publisher crashes,
power loss and concurrent publishers; pages that lose answers, whose account or
run changes, and whose requests arrive after they gave up on them.

The portal handles one mutation at a time: `run.state_lock` is held around every
operation of the run. Races between two handlers of the portal are therefore not
among its hazards; what interleaves are the pages, the publishers, real time, and
the steps of one operation with its failures.

What makes each component correct:

* controller - nothing is lost behind the clock, reviewed order, settled branches,
  a ledger that does not contradict the state;
* spool - the published batches are an exact prefix of the ledger, each event
  once, and HEAD never claims more than is durable;
* stages and adapter - records that are true of the fixtures, a containment that is
  not taken back, an outcome that follows from its checkpoint, files all or nothing,
  a validation that is current, or damage that is looked at again;
* scheduled MFA - one pending challenge, no approval after containment or
  expiry, ticks and jumps agree;
* run, clock and ledger - a lost event is found and nothing else is, a latched fault
  until a complete reset, no run left behind without its archive;
* support, judgments, sign-in, pages - retries that are recorded once, decisions in
  view of what they replace, a queue that stays readable, exact archives, no authority
  from a stale answer, evidence without a hole.

## 2. Plan

The modules, in the order they were written. Each component has a module, the
theorems about it one of their own, and an `MC` module gives the constants for TLC.

1. `ScenarioController`; `ScenarioControllerProofs`.
2. `EventSpool` over the abstract `Publication`; `EventSpoolProofs`.
3. `ScheduledMfa`: the clock observer, decisions and containment; `MfaProofs`.
4. `SupervisedRun`, which extends 3 by the scheduler, the clock supervisor, the start,
   the stop and the reset under refused events; `SupervisedRunProofs`.
5. `ActionAdapter` and `StageRun`, what the stages of a run share, and on them
   `IdentityStage`, `CloudStage` and `ImpactStage`, composed in `MCStages`;
   `StagesProofs`.
6. `PortalRun`, what the portal's workflows share, and on it `Support`, `Review`,
   `SignIn`, `Learner` and `Evidence`, composed in `MCDesk`; `DeskProofs` and
   `ReviewProofs`.
7. `RunLedger`, the sequencer and the stored numbers of each run, which 4 and 6
   reduce to one flag; `RunLedgerProofs`.

What could follow: the timeline that DP1 grades; the staff
console's pages; one run with all of its stages. Liveness stays with TLC.

## 3. Scenario controller

`ScenarioController` models `orchestrator/controller.py`.

| model | code |
|---|---|
| `state`, `elapsed` | `ScenarioController.state`, `.elapsed_seconds` |
| `status`, `deliveredAt` | `ItemRuntime.status`, `.delivered_at_seconds` of each item |
| `results` | `checkpoint_results` |
| `call` | the operation on the stack: the items its loop has left, its target second, its checkpoint |
| `evidence` | what the event sink stored for each item in this run, as type and actor role |
| `faults` | whether a call of this run was ended by the sink or by a refused `skip()` |

Each public method is an action. The three that loop over items (`prepare`,
`advance_to`, `resolve_checkpoint`) are an opening action, one step for each item
(`PrepareItem`, `AdvanceItem`, `ResolveBranch`) and an end, because each item
crosses two boundaries that fail by themselves: the handler and the sink. No
other operation starts while `call` is busy: the portal holds `run.state_lock`
around every mutation. An exception of the sink ends the call after the state
change it was to report, as in the code, where `_emit` comes after the
assignment; an observer of the clock (the MFA of the run) may fail between the
move of the clock and the item. A handler succeeds, fails, or stops the run
itself first.

`MSEL` is any sequence of items that `ScenarioDefinition.from_dict` would load.
The scenarios of `MCScenarioController` have the shape of `full-play.v1.json` in
small: ties on a second that the order or the file position break, a facilitator
inject, a checkpoint with both branches, setup items and an end item.

| run | asks |
|---|---|
| `controller_faults` | is nothing left behind the clock, does stored evidence agree with every status, and is every branch settled, under facilitator deliveries, skips and handlers that fail or stop the run, when any event may be refused at any step |
| `controller_clock` | order and second of deliveries in jumps of any size, and does the clock reach every item |

Bounds: `Horizon` is the largest second explored, one above the last item, so a
jump can pass over all items, stop at each of them or between them. Seconds and
orders are data to the code (it only compares them), so that small values with
ties show each case.

Fairness, in `controller_clock`: a started operation returns (weak
fairness of `CallStep`), and the portal's clock driver, which asks for the run
lock every second, gets it infinitely often while the run is running (strong
fairness of `Tick`). No facilitator or participant is obliged to act.

Proved in `ScenarioControllerProofs`, for every scenario, handler and sink:
`TypeCorrect`, `NothingLeftBehind` (`NothingBehindTheClock`) and `ClockIsMonotone`
(`ClockNeverRetreats`). The statement about items behind the clock is not
inductive: in the middle of a jump the clock stands at an item whose successors
are still pending. `AdvanceCovers` says what makes it come out right: the items
left in the call lie between the clock and the target, and no pending item up to
the target is missing from them. `ReadyAtZero` covers the start, where
`start()` advances to second 0. The invariant is `ClockInv`; the theorems use the
assumption `MSELAssumption` (what the loader checks), `HorizonAssumption` and
`EnvironmentAssumption`.

The rest of the module builds on them. `BranchesFollowResults` says that the controller by
itself executes a branch only after its checkpoint had that outcome, which is proved and not
part of a run (what a facilitator delivers by hand is section 10). It needs
two facts that hold between the steps of a call: the items a call has left are those
it was made for, so that a clock never walks into a branch (`CallScope`), and a
checkpoint with a result is not open, so that its result cannot change under its
branches (`ResolvedIsClosed`). `DeliveriesAreOnTime` (`DeliveredOnTime`) adds that an
item the controller has run is closed with its second (`TimeInv`).
`WalkIsInReviewedOrder` (`DueInReviewedOrder`) follows from `AdvanceCovers`.

`LedgerTellsStatus` (`EvidenceTellsStatus`) is proved item by item (`Tells`). It has two
parts: whatever the sink refuses, no stored event contradicts the status of its item and no
two different events report the end of one (`Course`); and as long as the sink refused none,
none is missing. Evidence is kept as the set of event types and roles of an item, so that the
exact repetition of an event by the same role is not told apart.

`BranchesAreSettled` (`BranchesSettled`) has to speak of the middle of
`resolve_checkpoint`, where a branch is settled or still awaited by the call (`Settled`,
`Awaited`), and to excuse a run that a fault or a stop ended there (`Excused`); together
`SettleInv`. Deliveries and skips of other calls only move an item forward (`Forward`),
which keeps a settled branch settled.

## 4. Event spool

`EventSpool` models `export()` of `dashboard/event_spool.py`, run by several
publishers beside the portal that appends to the SQLite ledger.

| model | code |
|---|---|
| `ledger` | table `events` in rowid order; `OtherRuns` are rows of other exercises, which make gaps in the cursors |
| `root` | the spool directory as processes see it: the batches in name order and `HEAD.json` |
| `images` | the directories that may be found after a power loss |
| `lock` | the `flock` on `.lock`, freed when its owner dies |
| `pc`, `seen`, `plan` | the attempt of each publisher: how far it is, what its unlocked validation listed, the batch it selected |
| `faults`, `restored` | kills and power losses so far (bounded by `MaxFaults`); whether staff set the database back |

One attempt is `List`, `Check`, `TakeLock`, `Inspect`, then `Repair` and
`SyncRepair` if HEAD is missing or behind, then `Rename`, `SyncRename`, `Commit`,
`SyncCommit` if there are rows; `Refuse` is every `SpoolError` of a validation, and
the `FileNotFoundError` of a listed temporary that was renamed meanwhile. Each
call that reaches the directory is one step, and between any two steps the
process may die (`Die`), the machine lose power (`PowerLoss`) or another
publisher run. The locked validation is one step: nobody else writes then, and
the source is read in one transaction. A preview is an attempt that ends after
`Check`.

The digest of a prefix is the prefix itself, so digests are equal exactly when
their prefixes are. Private stages are synced before they are renamed and are
never read back, so only the rename is modelled. A directory operation is visible
at once and durable after `_sync(root)`; before that a power loss finds the
directory before or after it. With `Reorders` the disk may also keep an operation
without an earlier unsynced one. All runs and the proofs are about disks that keep
the order (`~Reorders`): on the other kind a HEAD that was killed before its sync
looks up to date to the next attempt, and a power loss after the next rename can
leave a batch without HEAD. `docs/event-spool.md` leaves this durability to the
approved storage.

`Publication` is the abstract promise: an append-only log in which cursors grow,
no event appears twice, and nothing durable is taken back. The refinement maps
`published` to the rows that every possible directory holds (`Settled`).

| run | instance | asks |
|---|---|---|
| `spool_source` | 2 publishers, 3 rows of 2 contents with holes, batches of 2, 2 faults, another exercise, one restore | exactness, nothing beyond a hole, no duplicates and nothing on a changed source |
| `spool_drains` | 2 publishers, 4 rows, batches of 2, 2 faults, another exercise | recoverability, the refinement, and every row is published in the end |
| `spool_false_alarm` | small | section 10 |

The bounds allow two batches, of which the first is full, a kill and a power loss, or a
kill of each publisher, in one behaviour, and a ledger that is set back below the cursor
and grows past it again. The publishers are symmetric in `spool_source`.

The unlocked validation is two steps, `List` and `Check`, because the code loads HEAD after
it listed the directory. For a directory that was missing or empty it returns before it
loads HEAD, so that only a listing with a batch or a temporary HEAD is compared with the
later HEAD (`AcceptsListing`).

Fairness, in `spool_drains` and the violations of the same kind: a scheduled
exporter runs again and again, and an attempt that is not killed runs to its end
(weak fairness of each publisher). The document asks for it: "Repeat or schedule
the same command until `events_remaining` is zero". Faults are bounded, so that
they end; a lock is free when its owner has died.

Proved in `EventSpoolProofs`, for any number of publishers, rows, faults and any
limit, on a disk that keeps the order: `CrashesAreRecoverable` (`CheckpointsHold`).
It needs three more facts, together `SpoolInv`: the owner of the lock is the only
publisher past its locked validation (`LockProtects`); what it planned continues
the chain in the directory, or is its last batch once renamed, and HEAD exists
before any rename (`PlanContinues`); and `root` is one of `images`. The
assumptions are those at the head of the module.

`TypeCorrect` states the types alone. `PublicationIsExact` (`ExactPrefix`) is the
strongest of the section: every directory that may be found holds exactly the
rows of the ledger up to its cursor, without a gap in their numbers. Its invariant adds
to `SpoolInv` that a publisher between its locked validation and its rename carries
exactly the rows between the cursors of its plan, although the ledger grows meanwhile
(`PlansExact`).

`EventsAreExportedOnce` (`EachEventOnce`) and `SourceIsCompared`
(`NothingOnAChangedSource`) also hold when staff set the database back, so that the
ledger is no witness of what was published. `OnceInv` finds it in the directory itself:
the checkpoints of the batches carry the prefixes that were exported, they are nested,
and no event is twice in one (`ImagesNested`). A plan extends the directory and was
compared with the source that is there now (`PlansMatch`), and the ledger is unique in
(run, sequence), with growing sequences (`LedgerOrder`).

`SpoolImplementsPublication` is the refinement: without a restore, the spool implements
`Publication` (`ImplementsPublication`), step by step from `PublicationInv`, which is
`ExactInv`, `OnceInv` and that nothing was restored. The rows that every possible
directory holds only grow, and grow by rows of the ledger in their order. A restore takes
rows out of the ledger that were published, and a publication on a log that never takes
anything back cannot follow it; that is what `SourceIsCompared` is for.

## 5. Scheduled MFA

`ScheduledMfa` models `orchestrator/mfa.py` and the calls of the controller, the
run and the portal that reach it. `MSEL` is reduced to the MFA items and the end.

| model | code |
|---|---|
| `state`, `elapsed`, `status` | the controller's run state, clock and item statuses |
| `challenge`, `pending` | `history` and `pending`; an outcome "none" is a challenge whose delivery event was refused |
| `decision` | the identity record's `decision`, which the sign-in page writes too |
| `containedAt` | any of the four conditions of `_blocked_reason` holds, since this second |
| `ledger` | the stored `identity.mfa.challenge.*` events with their logical second |
| `gap` | a sequence number was reserved for an event that was never stored |
| `call` | what is left of `advance_to` (clock step, item step, clock step, ...) or of a delivery by hand |

`advance()` is the operator `MfaAdvance`, used by each of its callers. Where the
code calls it twice at one second, as in a timed delivery whose clock observer
has just run, the second call has nothing to do, and the model makes the one. A
refused event ends a whole advance in the clock step (`call.op = "raised"`),
makes the item fail in the handler, and leaves a stop going, as in the code. The
session, factor, account and credential containments differ only in the reason
they record, and are one action. The sign-in page locks the account, too, but not
with the reviewed settings (one failure before MFA, three for a lockout); its own
workflow is not modelled, only its answer.

The part `stage = "mfa"` of the run `stages` asks whether every challenge has the outcome
that the schedule, the containment and the human answers prescribe, however the clock got there
(`OutcomesFollowSchedule`), whether answers come in time, once, and to the
challenge in force, and whether the ledger's order is the exercise's order. Its
schedule is tighter than the reviewed one, and the loader accepts it: two challenges at second
0, where the start itself delivers them in either order, as their `order` would say, and the
later of the two finds the other pending; a third one at the second of their deadline. Jumps may pass over items, deadlines and the end at once. A stopped or completed
run may have nothing left to do, so that deadlock is not checked there.

The assumptions on the schedule are those of the data alone: the seconds of the challenges
are natural numbers in any order, equal ones included, and the end item is at any second,
before, at or after them (`ScheduleAssumption`, `TimeAssumption`). What the model fixes is
that the scenario has one end item, of which the loader would accept several, and that
challenges are elapsed items, as all of the reviewed scenario are.

Proved in `MfaProofs`, for any such schedule, any timeout, answers and loss of events: `MfaTypes`,
`ResolutionsAreUnique` (`ResolvedAtMostOnce`), `LedgerKeepsTime` (`LedgerInExerciseOrder`),
`PendingHasNoAnswer` (`PendingIsUnanswered`),
`DecisionsComeInTime` (`DecisionsInTime`) and `OutcomesAreLogical`
(`OutcomesFollowSchedule`). The last is the hard one. The basis of all of them is what the
walk has left to do (`WalkInv`), that every event lies at or before the clock and belongs
to a delivered attempt (`LedgerInv`), and that the pending challenge is the last event of
the ledger (`PendingInv`). On it `ScheduleInv` says, for a run that lost no event, that
items are handled at their second and expiries at the first move of the clock to the
deadline, and `AttemptInv` lists the five histories an attempt can have, as sets of
events (`Of`), with the second of each and its place before or after the containment.

## 6. The supervised run

`SupervisedRun` extends `ScheduledMfa` by `orchestrator/scheduler.py`,
`dashboard/clock.py` and the run lifecycle of `dashboard/service.py`.

| model | code |
|---|---|
| `attached`, `managed`, `fault` | the same attributes of `ClockSupervisor` |
| `heartbeat`, `anchor` | seconds since `last_heartbeat` and since the scheduler's `_last_observed` |
| `monotonic` | whether the clock provider returns usable readings |
| `job` | the portal call or tick that continues when the controller returns |
| `allowed` | ghost: seconds that running play and jumps account for |

Every call holds `state_lock`; real time passes between and within calls
(`TimePasses`). A tick is `TickBegin`, the walk of the controller, `TickEnd`;
the same split serves start, jump and pause, because each has something left to
do after the controller returned or raised. `Latch` is `fault()`: the latch, each
part of the stop, the audit event, any of which may be refused. Attaching is
guarded as its only caller, the lifespan of the application, is: before the first
request. `Reset` archives, resets the run, the scheduler and the clock;
`ArchiveFails` and `ResetStops` are the failures that change something, and both
leave a gap. A failed archive whose number is given back changes nothing here; when the
sequencer may be set back, and why a gap of a run never closes, is section 9. Fractions
of a second, the two report fields of a fault and the prepare call are left out; prepare
changes nothing modelled here.

Ages stop counting where they make no difference: the heartbeat beyond its budget,
the anchor and `allowed` at the horizon, which a tick would not pass anyway. One
challenge, a budget of one second and a horizon of three cover a fault before,
at and after the challenge, and a catch-up beyond two budgets. Nobody
answers the challenge in `supervised_run`: it expires or is cancelled. Both answers are
explored in `stages`.

`CatchUpIsBounded` says how far "never catch up stale play" holds: the heartbeat is
checked before and after the handlers of a tick, so that one tick may follow the
anchor of the tick before it by the time its handlers took (at most one budget,
or it latches) plus the time since its heartbeat (another one). It is stated for
runs that lost no event, as the anchor may survive a pause otherwise (section 10).

Fairness: a call in progress returns (weak fairness of `JobStep`), and the driver,
which asks for the lock each second, gets it in the end (strong fairness of
`TickBegin`). Under it, play on an unsound clock, or with a failed item, stops
(`UnsoundPlayIsStopped`). Nobody else is obliged to act.

Proved in `SupervisedRunProofs`, for every schedule, timeout, budget and horizon
and whatever the sink refuses: `FaultMeansNoPlay` (`NoPlayUnderFault`) and
`LatchIsFinal` (`LatchOutlivesTheRun`). The end of a tick latches without asking whether
something is latched already, as `fault()` would; `TickUnlatched` adds that
nothing can be, because whatever else latches a fault waits for the tick to
return. One lemma for each group of steps shows that it keeps the invariant and the latch.

`ClockFollowsRealTime` (`PlayFollowsRealTime`) and `TicksAreShort` (`CatchUpIsBounded`)
rest on `TimeInv`. `AnchorInv` accounts for the exercise clock together with the seconds
since the scheduler's anchor, and, while the controller walks, for its target together
with those; both hold for runs that lost no event, as section 10 shows they must.
`BeatInv` relates the anchor to the heartbeat, which a tick sets after it: the anchor is
the younger of the two while a tick runs, and at most one budget older afterwards, which
gives the bound of two budgets.

Two consequences of the code are worth knowing although no document denies them.
An MFA item that a facilitator delivers by hand before the start fails, passes the
readiness checks, and makes the first supervised tick latch a fault. A lost event
makes the reset of that run impossible for good, as `_capture_review` wants an
unbroken sequence; `docs/exercise-clock.md` leaves its recovery to a range
snapshot.

## 7. The stages of a run

`MCStages` composes the three stages and the schedule of section 5. Each behaviour
explores one of them and leaves the variables of the others alone, because the stages
of the program share no variable that two of them write: what a stage reads of an
earlier one is a variable of its own here, which changes as the earlier stage could
change it (`defence` and `earlier` of `ImpactStage`).

| module | code | state |
|---|---|---|
| `ActionAdapter` | `shared/actions.py`: `execute`, `activate_fail_safe`, `_store`, `_deny` | results by idempotency key, the stop of the run; operators over one adapter |
| `StageRun` | what `identity_slice.py` and `controller.py` do around a stage | `phase`, `item`, `result` of the checkpoint, `published` evidence of each item, `adapters` |
| `IdentityStage` | `identity_slice.py`, `identity_actions.py`, `endpoint_actions.py`, DP2 | `estate`, `simulated` |
| `CloudStage` | `cloud.py`, `cloud_actions.py`, DP3 | `cloud`, `played`, `audit`, `assessment` |
| `ImpactStage` | `impact.py`, `impact_actions.py`, DP4 | `fixture`, `damaged`, `defence`, `earlier`, `impact`, `validated`, `brief`, `review`, `left` |

An operation is one step, as the lock makes it; what may go wrong inside it is chosen
in the step. `late` says when the deadline of an execution passes - before the
handler's own check, or after its effect, where the adapter records a timeout although
the effect stands. `lost` says which audit event is refused - one before the handler,
or the last, after the result is stored. The responses of participants choose neither
where it would show nowhere: no refused audit event, whose only trace is the gap of
section 6, and no passed deadline under a key that is not used again, as the record of it
is never read. `unpublished` (in the cloud stage `upto`) is a
refused evidence event, `break` a file operation that breaks off between two files, and
`visited` below 2 an event refused within `resolve_checkpoint`. Each
counts as a fault, and `MaxFaults` bounds their number. A delivery is one execution under
the key of its item and then the evidence; when it comes due is section 3, so that a
facilitator may deliver any pending item here, at the right time or not.
`BranchVisit` is what `resolve_checkpoint` makes of two branches, of which either may
have been closed by hand. The adapters of the automation keep no results: an item is
executed once, under a key of its own.

A file operation of the impact stage breaks off in one of two ways (`Breaks`). "passing":
at one file, or at the deadline of the call, with the disk usable again; the code then goes
back to the snapshot. "lasting": the way back breaks off too, as it empties `live/`, writes
it again and then does the same with `staging/` (`Between`), and what is left is anything in
between. The variable `damaged` remembers that until a restore, a roll-back or a reset has
succeeded; no code reads it. A staff rollback is such a way back by itself, whose one-use
token is spent before the first file. MSEL-08 asks for the delivered branch of DP3 alone,
the end item for every source and checkpoint (`earlier` as facts that need each other).

What the run asks, each property under the stage it is about:

* `IdentityRecordsAreTrue`: evidence in the store is backed by a transition of the
  simulation, in the order of the attack, and a response that a retry is told was
  executed still has its effect.
* `ContainmentLasts`: neither a response nor a step takes back a containment that
  DP2 scored or that evidence of a blocked sign-in rests on.
* `CloudOutcomeIsTrue`, `CloudEvidenceIsTrue`, `ExposureOnlyGrows`: a claimed
  theft was a real bulk read after a missed DP3; the exposure that DP3 compares a claim
  with is the one participants can find; it never shrinks within a run.
* `FixturesAreWhole`, `RecoveryIsTrue`, `ImpactOutcomeIsTrue`: files are marked, moved
  and restored all or nothing, unless the way back broke off too and nothing has restored
  them since; no reset leaves such files behind; a recorded health validation is true of
  the files as they are now, or they are damaged, which the review looks at again; a passed
  DP4 keeps the originals in place, and nothing on any way back moves them, and a run that
  completed has all of its sources delivered with all of their evidence.

Bounds of `stages`: one fault in a run of a stage, which is enough for each kind at
each place; two files, so that an operation can stop before, between and after them;
the end item at the very deadline of the last challenge, and no second after it; the files
are alike, and explored up to their exchange;
a key of its own for each response, and one key that is used again for the credential
reset, the one response whose repetition changes something; claims of 1 and
5 records, the exposures before the bulk read; one reset of the credential and one
recorded validation, since a second would only count. The items of the identity stage
are those from which an effect on the properties starts; ACT-02 and ACT-03 repeat the
form of ACT-01. Deadlock is not checked: a schedule that is over may have nothing to do.

`OneBranchOfDp2` is the statement of the sources that `dp2_branches` refutes (section 10).

Proved in `StagesProofs` of `IdentitySpec` alone, for any selection of responses, any keys and any
number of faults: `ContainmentIsForGood`, which states `BlockedMeansContained`, and
`RecordsAreBacked`, which states `EvidenceIsBacked` and `AnsweredEffectsHold`. The
invariant of the first is the formula with the types of the fixture: no response undoes
one of the five facts DP2 reads, the passing branch checks them again, and the failing
branch only creates an account, which DP2 does not read. For the second, `RecordsInv`
says that what an adapter recorded as executed is an effect that still holds, and that
the automation's adapter has no record at all (`AdaptersHold`): an item is executed under
a key of its own, once. `AppliedMeansWorked` says of the adapter that neither a cached
answer, nor a denial, nor a refused event applies anything.

The same module proves the properties of the run for `StagesSpec`, in all stages and for
every value of the constants (`StagesInv`; a stage that is not in play stays as it was):
`RecordsOfARunAreTrue`, `ContainmentOfARunLasts`, `CloudOutcomesAreTrue`,
`CloudEvidenceIsOfTheRun`, `FixturesStayWhole`, `RecoveriesAreTrue`,
`ImpactOutcomesAreTrue`, and `ExposureGrows` (`ExposureOnlyGrows`) for `CloudSpec`.

* `CloudInv`: the exposure tells which steps of the attacker were made, each once and in
  their order (`ExposureFollowsSteps`); the audit is about exposures of this run, the
  present one included when all evidence was left (`AuditFollowsExposure`); only a claim
  that cites this audit is sound, and what DP3 passed stays contained
  (`ScoreFollowsCitation`). A bulk read therefore means a missed DP3.
* `ImpactInv`: a branch is played once, on a prepared source and after DP4 selected it,
  and only then can a validation exist (`BranchIsPlayedOnce`); a delivered item has all of
  its evidence (`DeliveredIsPublished`); `FixtureInv` is about the files, and covers damaged
  ones for `PreventedStaysBlocked`.

## 8. The workflows of the portal and their pages

`MCDesk` composes five workflows the same way, over `PortalRun`: the run they are scoped
to, whether play is live, and whether the ledger still has every reserved number.
An append may raise with the event stored ("kept") or not ("lost"); the second
leaves a gap that later guards refuse to work on, as `docs/exercise-support.md` and
`docs/exercise-clock.md` say. A capture whose event was not stored sets the sequencer back,
unless the ledger cannot be read just then either, which leaves the gap (`Freeze`). "live" stands for running and paused, "stopped" for
completed too, where a workflow does not tell them apart.

| module | code | hazard |
|---|---|---|
| `Support` | `dashboard/support.py`, `orchestrator/support.py`, `static/support.js` | a question whose answer is lost is sent again, arrives late, under another account, at a full queue |
| `Review` | `judge_objective`, `_capture_review`, `_reset_run`, `store.py`, `aar.py`, `evaluator-review.js`, `review-archives.js` | optimistic revisions of several pages; archives that fail in a reset |
| `SignIn` | `dashboard/sso.py`, `identity_audit.py`, `static/sso.js` | an audit write that fails between two changes; clicks that arrive late |
| `Learner` | `static/participant-session.js`, `participant.js`, `scoped_control` of `app.py` | answers of another run or account that would give authority |
| `Evidence` | `participant_evidence`, `static/evidence.js` | a cursor that skips signals |

The network loses an answer (the request was handled), loses a request for good, or
delivers it after the page gave up on it (`late`, `abandoned`, `astray`, `stray`). A page
drops an answer by its counters (`epoch`, `serial`, `readSerial`, `activity`,
`generation`); in the models an obsolete read disappears when it becomes obsolete, and
where everything a page does makes a read obsolete, reading and showing are one step.
One page of each kind is explored, except the evaluators', of which there are
two; staff replies, other sign-in pages and captures come from anywhere at any time.
A capture may ask for any bundle the run has ever had. Only the shipped browser
code sends these requests, and retries are its retries.

What the run asks: `QueueAccepted` (no workflow brings the queue into a state
that `support_index` refuses, which would lock support and the review),
`PageIsTruthful` (what the page called recorded is, and what it rejected for good
never is), `JudgmentsAreInformed`, `ArchivesAreExact`, `SignInProven`,
`WritesInformed` and `EvidenceHasNoHoles`. Two answers 409 say nothing final of the
question, although the page calls it rejected, and the property speaks of the others:
that the run has been reset, as a lost answer may have been a success in the run before,
and that the actor has an open question or the queue is full while an older copy of the
same question, which the page gave up on, is still on its way (`Astray`; section 10).

Bounds of `desk`: two runs, so that there is a reset; one append that raises; two
accounts; of the support queue's two limits each is reached by itself, and a second
question of an actor comes before either is (`EachLimit`), with two questions on the
page; two saves and two captures; two challenges and five audited interactions, so that
a late answer to the first can meet the second, pending in the same run; both the shipped
thresholds, shortened, and a lockout at the first failure; one click on the sign-in
page, beside any number from other pages; two actions on the learner's page; three
signals in pages of one, two pages a refresh, of which the page keeps two. Deadlock is
not checked: bounded workflows end.

Proved in `DeskProofs`, for any accounts, keys, limits, thresholds and number of actions:

* `ActionsAreInformed` (`WritesInformed`). `PageInv` says in addition that what the page
  holds is its account's and was served after the last action settled (`ReadsOwned`), and
  that each action is waited for, astray or done with, and not taken before it arrived
  (`WritesTracked`).
* `QueueIsAlwaysAccepted` and `PageIsAlwaysTruthful` (`SupportInv`). The queue alone is
  inductive up to its types. The page needs that every copy of a question carries the name
  and the run it was typed with (`QuestionsAreAuthentic`), and that a question which was
  rejected for good has no copy left that could arrive (`RejectionsAreFinal`).
* `SignInIsAlwaysProven` (`SignInProven`). `SignInInv` adds that a locked account is
  disabled, that a blocked attempt in the audit means a locked account and a pending
  challenge nobody signed in (`LockHolds`), that verdicts are of issued challenges
  (`VerdictsHold`), and that a click carries the run and challenge that were on the
  screen (`ClicksHold`). `AuditOne` and `AuditTwo` say what a step with one or two audit
  entries leaves when one of them is refused; the session of an approval is created
  between its two.

Proved in `ReviewProofs`, for any pages, accounts, runs, page sizes and bounds:

* `JudgmentsAreAlwaysInformed` and `ArchivesAreAlwaysExact` (`ReviewInv`). Neither
  property is inductive, because what makes a judgment good is decided when its page read
  the report, and what makes an archive good when it was frozen. A report from which a
  judgment can be sent shows an older revision of its run, or what stands now
  (`ReportsTrue`); a judgment on its way carries what was on its page's screen, is not in the
  ledger yet and is on its way once (`PostsSound`). The comparison of revisions then leaves
  only a judgment whose page showed what it supersedes, in the ledger of the run in play
  and in those that were reset (`LedgersInformed`). Archives are strict prefixes of
  ledgers which only grow and are then closed. `StandingAfter` says what an event changes
  of the judgment that stands: nothing, unless it is a judgment. `ReviewAssumption` asks
  that `None` is no answer of a save.
* `EvidenceNeverHasHoles` (`EvidenceInv`). A page of signals is served at one moment and shown
  later, when the ledger, the account or the run may be another. `WireSound` says of a page
  on its way that would still be applied: it has exactly what the account may see from
  the page's cursor to its own last signal, and unless it says that there is more, that
  was all up to the end of the ledger it was served from. `ReadSoFar` keeps the cursor within
  the ledger of its run. `LatestExtended` is the step itself: the latest signals,
  extended by the next ones and cut to what the page keeps, are the latest again.

Both parts need induction over numbers, where the library's theorem takes an operator
that the provers cannot instantiate. `SmallestNumber` gives it another form: a set of
numbers that is not empty has a smallest one, from the well-foundedness of `<` on the
naturals. `LastPosition` (a ledger with judgments has a latest one) and
`EnumerationExists` (a bounded set of numbers has an ascending enumeration) follow from the
smallest counterexample.

## 9. The sequencer and the ledger

The modules of sections 6 and 8 keep one flag of the ledger: whether it still has every
number that the sequencer has reserved (`gap`, `intact`). `RunLedger` is why one flag is
enough. It has the sequencer, the numbers that the `events` table holds for each run ID, the
archives, and the operations that make numbers: an event of any component, an archive, its
failure, the cleanup of a reset, the opening of the next run, and a restart.

| model | code |
|---|---|
| `run`, `parts` | `controller.run_id`; the run ID the adapters and stages were built with |
| `sequence` | `EventSequencer.sequence`, the last number that was reserved |
| `stored` | the numbers in the table, by run ID; a number of a run is there once |
| `archives` | `review_archives` |
| `lost`, `reused` | history: runs with an event that was not stored; a run that began with events in its ledger |

A number is taken when the event is built and stored or refused afterwards (`Append`). A
capture that raises before or in its transaction gives its number back, if the ledger can
be read and is the bundle's (`GivenBack`); one that raises after the commit does not, and
its event is there. A reset may end between its archive and the new run, at the event of
the cleanup, at the files, or at the first event of the new run, when `controller.run_id` is
the new one and the components are the old ones.

`run_ledger` asks whether the comparison of ledger and sequencer (readiness, archives,
resets, support) is exact: `LedgerCheckIsExact` says that it finds each event that was lost,
however often numbers are set back, and that a run which lost nothing, with its own
components, passes. `ResetLosesNothing` says that a reset leaves a run behind only with an
archive and with every event stored. Bounds: three run IDs, four numbers of a run - an
event, an archive, a second capture and an event of the cleanup. IDs are symmetric.

Proved in `RunLedgerProofs`, for any number of runs and events, when no run is given the ID
of another (`~ReusedIds`; the reset refuses IDs that have events, and `ledger_reuse` shows
what happens otherwise): `LedgerCheckExact` and `ResetsLoseNothing`. The comparison is not
inductive. A loss leaves a number below the sequencer that is not in the table (`Holed`),
no later event of the run can take it, as all its numbers are at or below the sequencer
(`Bounded`), and a run that lost nothing has them all (`Whole`).

## 10. What the sources say and the code does not keep

Each of these is a run that is expected to find a violation.

- `dp2_branches`: in running play, with all five containments executed and DP2 without a
  result, the facilitator delivers the adverse branch ACT-04B by hand. The account it
  creates is none of the facts DP2 reads, so that DP2 passes and executes ACT-04A; the skip
  of ACT-04B raises only then. `resolve_dp2` says "execute exactly one branch".
- `spool_false_alarm`: a preview beside a publisher may report a missing
  checkpoint about an intact spool.
- `supervised_paused_time`: when the events of a pause and of the resume are
  refused, the scheduler keeps the anchor of before the pause and plays the time
  that was spent paused.
- `ledger_reuse`: a process is started with the run ID of an earlier one. Its appends are
  refused, as their numbers are taken, but each advances the sequencer; after as many as
  the old ledger has events, `_ledger_matches` accepts that ledger. The deployment contract
  says that readiness rejects a reused one; it does at the start of the process.

The first has a reverse: when the opposite branch was skipped by hand before,
`resolve_checkpoint` raises after it recorded the result
(`orchestrator/controller.py:420`), and the matching branch stays pending, although the
docstring at line 366 promises to "run only its matching branch". `BranchesSettled`
excepts runs in which that happened.

One more is no run of its own. After a definite 4xx the page says "Message rejected."
(`static/support.js:139`; `docs/exercise-support.md:46` calls it "A definite 4xx
rejection"). When the page had given up on an older copy of the question, that copy may
still arrive and be recorded once staff have replied to the question that blocked the
retry. `PageIsTruthful` excepts this case (`Astray` in `Support`).

## 11. What is only model-checked, and what is left out

Liveness under fairness stays with TLC: the prover has neither that nor `ENABLED`
(`EveryTimedItemComesDue`, `BacklogDrains`, `UnsoundPlayIsStopped`). What a recursive
definition computes for every input cannot be proved either, since the library offers
induction over data only through operators it cannot instantiate; the modules
therefore define by choice and by sets what the proofs speak of (`Standing` in `Review`,
`Ascending` in `Evidence`). Every safety and action property of a run that passes is a
theorem.

Left out everywhere: wording, timestamps and identifiers of events, schema
validation, file permissions, authentication and headers. Left out of single parts:

* the timeline that DP1 grades, which changes nothing but its result, and the rows of
  submissions, which are written after the memory that DP3 reads;
* the composition of all stages in one run: each is explored by itself;
* the snapshot rollback of identity and endpoint actions, which nothing calls;
* a process that is killed while the impact fixture is provisioned or marked: the run
  lives in memory and ends with its process;
* staff repair of files that a broken way back has damaged, other than by a restore, a
  roll-back or the reset;
* what a marker operation leaves behind when it finishes after its deadline: the files
  are whole, but the stage does not count them as applied, and only the
  reset restores them;
* exports and list pages, which only read; the staff console, which follows the
  participant's page; the deployment checks, demonstrations, release scripts and range
  provisioning, which hold no state of the exercise.
