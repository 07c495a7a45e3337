----------------------------- MODULE ScheduledMfa -----------------------------
(***************************************************************************)
(* Scheduled MFA challenges of one run: ScheduledMfa of                    *)
(* orchestrator/mfa.py, the part of the controller's clock that drives it  *)
(* and the run's action, decision and stop calls that reach it.            *)
(*                                                                         *)
(* A reviewed MSEL item delivers a challenge.  A person approves or denies *)
(* it, the exercise clock expires it, containment of the identity cancels  *)
(* it and blocks the later ones, a stop cancels it.  All of it happens     *)
(* under the run's state_lock, so a call is one action, except the walk of *)
(* advance_to over the due items, which takes two steps for each of them:  *)
(* the clock moves (and tells the time observer, ScheduledMfa.advance),    *)
(* then the item is made due.  `call' is what is left of that walk.        *)
(*                                                                         *)
(* Every event may be refused by the sink.  Its sequence number is then    *)
(* reserved and never stored, which `gap' remembers.                       *)
(***************************************************************************)
EXTENDS Integers, Sequences

CONSTANTS
  Schedule,      \* trigger seconds of the MFA items
  Timeout,       \* timeout_seconds of the reviewed MFA configuration
  EndAt,         \* trigger second of the end item
  Horizon,       \* bound: the largest exercise second that is explored
  Answers,       \* the answers people give: approved, denied or both
  SinkOutcomes   \* whether the event sink may store (TRUE) or raise (FALSE)

Attempts == DOMAIN Schedule
End      == Len(Schedule) + 1
Items    == Attempts \cup {End}
None     == 0

\* ItemTrigger.from_dict asks for seconds >= 0 and no more: items may tie with each
\* other or with the end item, come due at second 0 or after the end.
ASSUME ScheduleAssumption == Schedule \in Seq(Nat)
ASSUME TimeAssumption == Timeout \in Nat \ {0} /\ EndAt \in Nat /\ Horizon \in Nat
ASSUME SinkAssumption == SinkOutcomes \subseteq BOOLEAN /\ TRUE \in SinkOutcomes

At(i) == IF i = End THEN EndAt ELSE Schedule[i]

RunStates    == {"ready", "running", "paused", "stopped", "completed"}
Live         == {"ready", "running", "paused"}
ItemStatuses == {"pending", "delivered", "failed", "skipped"}
Decisions    == {"approved", "denied"}
Finals       == Decisions \cup {"expired", "cancelled", "blocked"}
Outcomes     == {"delivered"} \cup Finals

ASSUME AnswersAssumption == Answers \subseteq Decisions

VARIABLES
  state,        \* RunState of the controller
  elapsed,      \* elapsed_seconds, the exercise clock
  status,       \* ItemRuntime.status of the MFA items and the end item
  challenge,    \* history: second of delivery (-1: not in it) and outcome
  pending,      \* ScheduledMfa.pending: the attempt that awaits a person
  decision,     \* identity_state.mfa[...]["decision"]
  containedAt,  \* second at which an action contained the identity, or -1
  ledger,       \* the stored identity.mfa.challenge events, by sequence
  gap,          \* an event of this run reserved a sequence number in vain
  call          \* what is left of advance_to or deliver

mfaVars  == <<challenge, pending, decision, ledger>>
playVars == <<state, elapsed, status, containedAt, gap, mfaVars>>
runVars  == <<playVars, call>>

Idle   == [op |-> "idle", due |-> {}, target |-> 0]
Raised == [Idle EXCEPT !.op = "raised"]
Quiet  == call.op \in {"idle", "raised"}

MfaTypeOK ==
  /\ state \in RunStates
  /\ elapsed \in Nat
  /\ status \in [Items -> ItemStatuses]
  /\ challenge \in [Attempts -> [at : Nat \cup {-1}, outcome : Outcomes \cup {"none"}]]
  /\ pending \in Attempts \cup {None}
  /\ decision \in {"pending"} \cup Finals
  /\ containedAt \in Nat \cup {-1}
  /\ ledger \in Seq([attempt : Attempts, outcome : Outcomes, second : Nat])
  /\ gap \in BOOLEAN
  /\ call \in [op : {"idle", "raised", "clock", "item", "deliver"},
               due : SUBSET Items, target : Nat]

Contained == containedAt # -1     \* _blocked_reason() is not None
Until(i)  == challenge[i].at + Timeout

(***************************************************************************)
(* _record once the sink has accepted the event.  An event the sink        *)
(* refuses leaves challenge, ledger and decision as they were.             *)
(***************************************************************************)
Recorded(i, outcome, second) ==
  /\ ledger' = Append(ledger, [attempt |-> i, outcome |-> outcome, second |-> second])
  /\ decision' = IF outcome = "delivered" THEN "pending" ELSE outcome

\* The challenge stays pending after its resolution.
Resolved_Bug(outcome, second) ==
  /\ Recorded(pending, outcome, second)
  /\ challenge' = [challenge EXCEPT ![pending].outcome = outcome]
  /\ UNCHANGED pending
Resolved(outcome, second) ==
  /\ Recorded(pending, outcome, second)
  /\ challenge' = [challenge EXCEPT ![pending].outcome = outcome]
  /\ pending' = None

(***************************************************************************)
(* advance(): the pending challenge is overdue at second `now' when the    *)
(* identity is contained or its deadline has come.                         *)
(***************************************************************************)
Overdue(now) == pending # None /\ (Contained \/ now >= Until(pending))

\* The expiry is dated with the clock it was noticed at, not the deadline.
MfaAdvance_Bug(now, stored) ==
  /\ gap' = (gap \/ ~stored)
  /\ Overdue(now) \/ stored
  /\ IF Overdue(now) /\ stored
     THEN Resolved(IF Contained THEN "cancelled" ELSE "expired", now)
     ELSE UNCHANGED <<challenge, pending, decision, ledger>>
\* A cancellation, too, is dated with the deadline.
MfaAdvanceCancel_Bug(now, stored) ==
  /\ gap' = (gap \/ ~stored)
  /\ Overdue(now) \/ stored
  /\ IF Overdue(now) /\ stored
     THEN Resolved(IF Contained THEN "cancelled" ELSE "expired", Until(pending))
     ELSE UNCHANGED <<challenge, pending, decision, ledger>>
MfaAdvance(now, stored) ==
  /\ Overdue(now) \/ stored
  /\ gap' = (gap \/ ~stored)
  /\ IF Overdue(now) /\ stored
     THEN IF Contained THEN Resolved("cancelled", now)
                       ELSE Resolved("expired", Until(pending))
     ELSE UNCHANGED <<challenge, pending, decision, ledger>>

(***************************************************************************)
(* The walk of advance_to: clock, item, clock, item, ..., clock.           *)
(***************************************************************************)
AdvanceCall(t) ==
  [op |-> "clock", target |-> t,
   due |-> {i \in Items : At(i) <= t /\ status[i] = "pending"}]

\* Items of one second are sorted by trigger.order and their place in the file, which
\* are no part of a schedule here: they may come in any order.
IsFirst(i, due) == i \in due /\ \A j \in due : At(i) <= At(j)

\* _advance_clock: a refused expiry or cancellation ends the whole advance.
ClockStep ==
  /\ call.op = "clock"
  /\ \E now \in {call.target} \cup {At(i) : i \in call.due} :
       /\ IF call.due = {} THEN now = call.target
                           ELSE \E i \in call.due : IsFirst(i, call.due) /\ now = At(i)
       /\ elapsed' = now
       /\ \E stored \in SinkOutcomes :
            /\ MfaAdvance(now, stored)
            /\ call' = IF ~stored THEN Raised
                       ELSE IF call.due = {} THEN Idle
                       ELSE [call EXCEPT !.op = "item"]
  /\ UNCHANGED <<state, status, containedAt>>

\* The controller writes the item's own event; `stored' tells whether it could.
\* When it could not, an advance ends there; a single delivery ends anyway.
ItemEvent(i, to, stored, rest) ==
  /\ status' = [status EXCEPT ![i] = to]
  /\ call' = IF stored \/ call.op # "item" THEN rest ELSE Raised

DeliverEnd(rest) ==
  /\ \E stored \in SinkOutcomes :
       /\ ItemEvent(End, "delivered", stored, rest)
       /\ state' = IF stored THEN "completed" ELSE state
       /\ gap' = (gap \/ ~stored)
  /\ UNCHANGED mfaVars

\* The handler returns success=False: no running exercise, or still pending.
RefuseChallenge(i, rest) ==
  /\ state # "running" \/ pending # None
  /\ \E stored \in SinkOutcomes :
       ItemEvent(i, "failed", stored, rest) /\ gap' = (gap \/ ~stored)
  /\ UNCHANGED <<state, mfaVars>>

\* The challenge enters the history before its event is written.
SendChallenge(i, rest) ==
  LET outcome == IF Contained THEN "blocked" ELSE "delivered" IN
  /\ state = "running" /\ pending = None
  /\ Recorded(i, outcome, elapsed)
  /\ challenge' = [challenge EXCEPT ![i] = [at |-> elapsed, outcome |-> outcome]]
  /\ pending' = IF Contained THEN None ELSE i
  /\ \E stored \in SinkOutcomes :
       ItemEvent(i, "delivered", stored, rest) /\ gap' = (gap \/ ~stored)
  /\ UNCHANGED state

\* The handler raises at the sink; a challenge without an outcome stays behind.
LoseChallenge(i, rest) ==
  /\ state = "running" /\ pending = None /\ FALSE \in SinkOutcomes
  /\ challenge' = [challenge EXCEPT ![i].at = elapsed]
  /\ \E stored \in SinkOutcomes : ItemEvent(i, "failed", stored, rest)
  /\ gap' = TRUE
  /\ UNCHANGED <<state, pending, decision, ledger>>

\* _deliver with ScheduledMfa.deliver as its handler.
DeliverItem(i, rest) ==
  \/ i = End /\ DeliverEnd(rest)
  \/ i # End /\ (RefuseChallenge(i, rest) \/ SendChallenge(i, rest) \/ LoseChallenge(i, rest))

\* In an advance the handler's own advance() finds nothing left to do: the
\* observer has just been told the same second.
ItemStep ==
  /\ call.op \in {"item", "deliver"}
  /\ \E i \in call.due :
       /\ IsFirst(i, call.due)
       /\ DeliverItem(i, IF call.op = "deliver" THEN Idle
                         ELSE [call EXCEPT !.op = "clock", !.due = @ \ {i}])
  /\ UNCHANGED <<elapsed, containedAt>>

(***************************************************************************)
(* Calls of the controller and of the run.                                 *)
(***************************************************************************)
Transition(from, to) ==
  /\ Quiet /\ state = from
  /\ state' = to
  /\ UNCHANGED <<elapsed, status, containedAt, mfaVars>>

\* start() ends with advance_to(0), which handles the items of second 0.
StartPlay(stored) ==
  /\ Transition("ready", "running")
  /\ gap' = (gap \/ ~stored)
  /\ call' = IF stored THEN AdvanceCall(0) ELSE Raised
PausePlay(stored) ==
  /\ Transition("running", "paused")
  /\ gap' = (gap \/ ~stored)
  /\ call' = Idle
ResumePlay(stored) ==
  /\ Transition("paused", "running")
  /\ gap' = (gap \/ ~stored)
  /\ call' = Idle

AdvanceTo(t) ==
  /\ Quiet /\ state = "running" /\ t >= elapsed
  /\ call' = AdvanceCall(t)
  /\ UNCHANGED <<state, elapsed, status, containedAt, mfaVars, gap>>

\* A facilitator delivers an item by hand.  ScheduledMfa.deliver first calls
\* advance(); when that raises, the controller marks the item failed.
Deliver(i) ==
  /\ Quiet /\ state \in Live /\ status[i] = "pending"
  /\ IF i # End /\ state = "running" /\ Overdue(elapsed)
     THEN \E stored \in SinkOutcomes :
            /\ MfaAdvance(elapsed, stored)
            /\ \/ stored /\ call' = [Idle EXCEPT !.op = "deliver", !.due = {i}]
                  /\ UNCHANGED status
               \/ ~stored /\ \E failureStored \in SinkOutcomes :
                               ItemEvent(i, "failed", failureStored, Idle)
     ELSE /\ call' = [Idle EXCEPT !.op = "deliver", !.due = {i}]
          /\ UNCHANGED <<status, mfaVars, gap>>
  /\ UNCHANGED <<state, elapsed, containedAt>>

Skip(i) ==
  /\ Quiet /\ state \in Live /\ status[i] = "pending"
  /\ \E stored \in SinkOutcomes :
       ItemEvent(i, "skipped", stored, Idle) /\ gap' = (gap \/ ~stored)
  /\ UNCHANGED <<state, elapsed, containedAt, mfaVars>>

\* The human decision is accepted without looking at the clock first.
Decide_Bug(i, answer) ==
  /\ Quiet /\ state = "running" /\ pending = i
  /\ Resolved(answer, elapsed)
  /\ UNCHANGED <<state, elapsed, status, containedAt, gap>>
  /\ call' = Idle
\* decide() calls advance() first; a challenge that this resolves, or whose
\* event it fails to write, is not decided any more.
Decide(i, answer) ==
  /\ Quiet /\ state = "running"
  /\ \/ Overdue(elapsed) /\ \E stored \in SinkOutcomes : MfaAdvance(elapsed, stored)
     \/ /\ ~Overdue(elapsed) /\ pending = i
        /\ \E stored \in SinkOutcomes :
             /\ IF stored THEN Resolved(answer, elapsed)
                          ELSE UNCHANGED <<challenge, pending, decision, ledger>>
             /\ gap' = (gap \/ ~stored)
  /\ call' = Idle
  /\ UNCHANGED <<state, elapsed, status, containedAt>>

\* submit_action with one of the four identity actions: the effect, then
\* advance().  The adapter's events may be refused before or after the effect;
\* advance() is then not reached.
Contain ==
  /\ Quiet /\ state = "running" /\ ~Contained
  /\ containedAt' = elapsed
  /\ \/ /\ FALSE \in SinkOutcomes
        /\ gap' = TRUE
        /\ UNCHANGED mfaVars
     \/ /\ pending = None
        /\ UNCHANGED <<mfaVars, gap>>
     \/ /\ pending # None
        /\ \E stored \in SinkOutcomes :
             /\ IF stored THEN Resolved("cancelled", elapsed)
                          ELSE UNCHANGED <<challenge, pending, decision, ledger>>
             /\ gap' = (gap \/ ~stored)
  /\ call' = Idle
  /\ UNCHANGED <<state, elapsed, status>>

\* Any other request to an adapter, granted or denied, and every sign-in: its own
\* event is lost, or advance() has a challenge to resolve.
OtherAction ==
  /\ Quiet
  /\ \/ FALSE \in SinkOutcomes /\ gap' = TRUE /\ UNCHANGED mfaVars
     \/ Overdue(elapsed) /\ \E stored \in SinkOutcomes : MfaAdvance(elapsed, stored)
  /\ call' = Idle
  /\ UNCHANGED <<state, elapsed, status, containedAt>>

\* The sign-in page does not look for a scheduled challenge.
SignInDecision_Bug ==
  /\ Quiet /\ state \in {"ready", "running"}
  /\ decision' \in Answers
  /\ \E stored \in SinkOutcomes : gap' = (gap \/ ~stored)
  /\ call' = Idle
  /\ UNCHANGED <<state, elapsed, status, challenge, pending, containedAt, ledger>>
\* sso_decide_mfa: the sign-in page's own challenge is answered (or expires, which
\* denies it) in the same record of the identity, before its audit event.
SignInDecision ==
  /\ Quiet /\ state \in {"ready", "running"} /\ pending = None
  /\ decision' \in Answers
  /\ \E stored \in SinkOutcomes : gap' = (gap \/ ~stored)
  /\ call' = Idle
  /\ UNCHANGED <<state, elapsed, status, challenge, pending, containedAt, ledger>>

(***************************************************************************)
(* IdentitySliceRun.fail_safe_stop.  Every part is attempted: the run stop *)
(* (event s1), the cancellation of the pending challenge (s2; pending is   *)
(* dropped in any case) and the latch of every adapter (s3).  The adapters *)
(* refuse actions of a run that is not running anyway, so their latch is   *)
(* no variable of its own.                                                 *)
(***************************************************************************)
StopRun(s1, s2) ==
  /\ state # "completed"
  /\ state = "stopped" => s1
  /\ pending = None => s2
  /\ state' = "stopped"
  /\ IF pending # None /\ s2
     THEN Resolved("cancelled", elapsed)
     ELSE pending' = None /\ UNCHANGED <<challenge, decision, ledger>>
  /\ UNCHANGED <<elapsed, status, containedAt>>

Stop ==
  /\ Quiet
  /\ \E s1, s2, s3 \in SinkOutcomes :
       StopRun(s1, s2) /\ gap' = (gap \/ ~(s1 /\ s2 /\ s3))
  /\ call' = Idle

NothingDone == [i \in Items |-> "pending"]
NothingSent == [i \in Attempts |-> [at |-> -1, outcome |-> "none"]]

MfaInit ==
  /\ state = "ready"
  /\ elapsed = 0
  /\ status = NothingDone
  /\ challenge = NothingSent
  /\ pending = None
  /\ decision = "pending"
  /\ containedAt = -1
  /\ ledger = <<>>
  /\ gap = FALSE
  /\ call = Idle

CallStep == ClockStep \/ ItemStep

MfaNext ==
  \/ CallStep
  \/ \E stored \in SinkOutcomes : StartPlay(stored) \/ PausePlay(stored) \/ ResumePlay(stored)
  \/ \E t \in 0..Horizon : AdvanceTo(t)
  \/ \E i \in Items : Deliver(i) \/ Skip(i)
  \/ \E i \in Attempts, answer \in Answers : Decide(i, answer)
  \/ Contain \/ OtherAction \/ SignInDecision \/ Stop

MfaSpec == MfaInit /\ [][MfaNext]_runVars

-------------------------------------------------------------------------------
(***************************************************************************)
(* Safety.                                                                 *)
(***************************************************************************)

\* The ledger's events of an attempt.
Of(i) == {ledger[n] : n \in {m \in DOMAIN ledger : ledger[m].attempt = i}}
Event(i, outcome, second) == [attempt |-> i, outcome |-> outcome, second |-> second]

\* What the schedule, the containment and the human answers alone make of an
\* attempt that the clock delivered at its own second.
Expected(i) ==
  LET at == At(i)
      deadline == at + Timeout
      answers == {e \in Of(i) : e.outcome \in Decisions}
      sent == Event(i, "delivered", at) IN
  IF Contained /\ containedAt < at THEN {Event(i, "blocked", at)}
  ELSE IF answers # {} THEN {sent} \cup answers
  ELSE IF Contained /\ containedAt < deadline
       THEN {sent, Event(i, "cancelled", containedAt)}
  ELSE IF elapsed >= deadline THEN {sent, Event(i, "expired", deadline)}
  ELSE {sent}

\* docs/scheduled-mfa-dev-handoff.md: "The same seed, schedule, and human inputs
\* give the same logical outcome sequence."  Whether the clock ticked or jumped,
\* and over however many items and deadlines, the events of an attempt are those
\* the logical schedule prescribes, each at its logical second (and in this order,
\* each once: ResolvedAtMostOnce).
OutcomesFollowSchedule ==
  ~gap /\ Quiet /\ state # "stopped" =>
    \A i \in Attempts :
      (status[i] = "delivered" /\ challenge[i].at = At(i)) => Of(i) = Expected(i)

\* "exactly-once pending resolution": whatever events were lost and retried, the
\* ledger resolves a challenge at most once and only after its delivery.
ResolvedAtMostOnce ==
  \A n \in DOMAIN ledger :
    LET earlier == {m \in 1..(n - 1) : ledger[m].attempt = ledger[n].attempt} IN
    \/ earlier = {} /\ ledger[n].outcome \in {"delivered", "blocked"}
    \/ \E m \in earlier :
         /\ earlier = {m} /\ ledger[m].outcome = "delivered"
         /\ ledger[n].outcome \in Finals \ {"blocked"}

\* "Use data.elapsed_seconds for exercise time, and sequence for authoritative
\* audit order": the two orders agree, although an expiry is dated back to its
\* deadline and may be written long after it.
LedgerInExerciseOrder ==
  \A m, n \in DOMAIN ledger : m < n => ledger[m].second <= ledger[n].second

\* A pending challenge is one that the ledger says was delivered and not answered,
\* and the mock identity provider agrees: nobody answered it through the sign-in
\* page, which writes to the same record; a stopped run has none, even when its
\* cancellation could not be written.
PendingIsUnanswered ==
  pending # None =>
    /\ state # "stopped"
    /\ decision = "pending"
    /\ \E n \in DOMAIN ledger :
         /\ ledger[n] = Event(pending, "delivered", challenge[pending].at)
         /\ \A m \in DOMAIN ledger : ledger[m].attempt = pending => m = n

(***************************************************************************)
(* Action properties.                                                      *)
(***************************************************************************)

\* "Approval never overrides containment", and never comes at or after the
\* deadline, outside running play, or for a challenge other than the pending one.
DecisionsInTime ==
  [][Len(ledger') > Len(ledger) /\ ledger'[Len(ledger')].outcome \in Decisions =>
       /\ state = "running" /\ ~Contained
       /\ pending = ledger'[Len(ledger')].attempt
       /\ elapsed < Until(pending)]_runVars
===============================================================================
