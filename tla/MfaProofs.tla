-------------------------------- MODULE MfaProofs --------------------------------
(***************************************************************************)
(* Proofs about the scheduled MFA challenges: for any schedule, any        *)
(* timeout, any answers and any loss of events, in any interleaving of the *)
(* clock's walk with the calls of people.                                  *)
(***************************************************************************)
EXTENDS ScheduledMfa, TLAPS

\* Between two steps of the walk its items are the ones that are still due, and the
\* clock has not passed an item that is pending.
WalkInv ==
  /\ \A i \in Items : status[i] = "pending" => elapsed <= At(i)
  /\ call.op \in {"clock", "item"} =>
       /\ elapsed <= call.target
       /\ call.due = {i \in Items : At(i) <= call.target /\ status[i] = "pending"}
  /\ call.op = "item" => \A i \in call.due : IsFirst(i, call.due) => At(i) = elapsed
  /\ call.op = "deliver" => \A i \in call.due : status[i] = "pending"
  /\ ~Quiet => state # "stopped"
  /\ state = "ready" => elapsed = 0 /\ call.op \notin {"clock", "item"}

LedgerInv ==
  /\ \A n \in DOMAIN ledger :
       /\ ledger[n].second <= elapsed
       /\ status[ledger[n].attempt] = "delivered"
  /\ LedgerInExerciseOrder
  /\ ResolvedAtMostOnce

\* The delivery of the pending challenge is the last event of the ledger, and the
\* only one of its attempt.
PendingInv ==
  pending # None =>
    /\ state # "stopped" /\ decision = "pending"
    /\ ledger # <<>>
    /\ ledger[Len(ledger)] = Event(pending, "delivered", challenge[pending].at)
    /\ \A n \in 1..(Len(ledger) - 1) : ledger[n].attempt # pending

\* What a run without a gap has made of an attempt that was delivered.
AttemptInv(i) ==
  LET at == challenge[i].at
      sent == Event(i, "delivered", at)
  IN \/ /\ Of(i) = {Event(i, "blocked", at)}
        /\ Contained /\ (at = At(i) => containedAt < at)
     \/ Of(i) = {sent} /\ pending = i
     \/ /\ \E answer \in Decisions, second \in 0..elapsed :
             Of(i) = {sent, Event(i, answer, second)}
        /\ Contained => at <= containedAt
     \/ /\ Of(i) = {sent, Event(i, "cancelled", containedAt)}
        /\ Contained /\ at <= containedAt /\ containedAt < at + Timeout
     \/ /\ Of(i) = {sent, Event(i, "expired", at + Timeout)}
        /\ at + Timeout <= elapsed
        /\ Contained => at + Timeout <= containedAt

\* A pending item of a running or paused run comes due later, or the walk is at it.
AtItsSecond(i) ==
  \/ elapsed < At(i)
  \/ state \notin {"running", "paused"}
  \/ call.op \in {"clock", "item"}

\* As long as every event was stored: an item is handled at its second and an expiry
\* at the first move of the clock to its deadline or beyond.
ScheduleInv ==
  /\ call.op = "raised" => gap
  /\ ~gap =>
       /\ \A i \in Attempts : status[i] = "pending" =>
            AtItsSecond(i) /\ (Contained => containedAt < At(i))
       /\ Contained => containedAt <= elapsed
       /\ pending # None => ~Contained /\ elapsed < Until(pending)
       /\ \A i \in Attempts : challenge[i].at <= elapsed
       /\ state # "stopped" =>
            \A i \in Attempts : status[i] = "delivered" => AttemptInv(i)

\* What holds whatever is lost, and the inductive invariant of the schedule.
Basis  == MfaTypeOK /\ WalkInv /\ LedgerInv /\ PendingInv
MfaInv == Basis /\ ScheduleInv

LEMMA ScheduleFacts ==
  /\ Attempts = 1..Len(Schedule) /\ Len(Schedule) \in Nat
  /\ End \notin Attempts /\ None \notin Attempts
  /\ \A i \in Attempts : Schedule[i] \in Nat /\ At(i) = Schedule[i]
  /\ \A i \in Items : At(i) \in Nat
<1>1. Attempts = 1..Len(Schedule) /\ Len(Schedule) \in Nat
  BY ScheduleAssumption DEF Attempts
<1>2. End \notin Attempts /\ None \notin Attempts
  BY <1>1 DEF End, None
<1>3. \A i \in Attempts : Schedule[i] \in Nat /\ At(i) = Schedule[i]
  BY <1>1, <1>2, ScheduleAssumption DEF At
<1>4. At(End) = EndAt /\ EndAt \in Nat
  BY TimeAssumption DEF At
<1>5. \A i \in Items : At(i) \in Nat
  BY <1>3, <1>4 DEF Items
<1>6. QED
  BY <1>1, <1>2, <1>3, <1>5

-------------------------------------------------------------------------------
(***************************************************************************)
(* What a step does to the pending challenge and to the ledger: nothing is *)
(* stored, the pending challenge is resolved, or one is sent.              *)
(***************************************************************************)

Unanswered ==
  /\ ledger' = ledger
  /\ \/ challenge' = challenge
     \/ pending = None /\ \E i \in Attempts : challenge' = [challenge EXCEPT ![i].at = elapsed]
  /\ \/ pending' = pending /\ decision' = decision
     \/ pending' = None /\ decision' \in {"pending"} \cup Finals
  /\ pending' # None => state' # "stopped"

Answered ==
  \E outcome \in Finals \ {"blocked"}, second \in Nat :
    /\ pending # None /\ Resolved(outcome, second)
    /\ challenge[pending].at <= second /\ second <= elapsed'

Sent(i) ==
  LET outcome == IF Contained THEN "blocked" ELSE "delivered" IN
  /\ status[i] = "pending" /\ status' = [status EXCEPT ![i] = "delivered"]
  /\ elapsed' = elapsed /\ state' = state /\ state = "running" /\ pending = None
  /\ Recorded(i, outcome, elapsed)
  /\ challenge' = [challenge EXCEPT ![i] = [at |-> elapsed, outcome |-> outcome]]
  /\ pending' = IF Contained THEN None ELSE i

Onward ==
  /\ elapsed' \in Nat /\ elapsed <= elapsed'
  /\ status' \in [Items -> ItemStatuses]
  /\ \A i \in Items : status[i] = "delivered" => status'[i] = "delivered"
  /\ Unanswered \/ Answered \/ \E i \in Attempts : Sent(i)

LEMMA EventsAreTyped ==
  ASSUME MfaTypeOK, NEW n \in DOMAIN ledger
  PROVE  ledger[n] \in [attempt : Attempts, outcome : Outcomes, second : Nat]
<1>1. PICK S : S = [attempt : Attempts, outcome : Outcomes, second : Nat]
  OBVIOUS
<1>2. ledger \in Seq(S)
  BY <1>1 DEF MfaTypeOK
<1>3. ledger[n] \in S
  BY <1>2
<1>4. QED
  BY <1>1, <1>3

LEMMA PendingIsSent ==
  ASSUME MfaTypeOK, LedgerInv, PendingInv, pending # None
  PROVE  /\ pending \in Attempts
         /\ challenge[pending].at \in Nat /\ challenge[pending].at <= elapsed
         /\ Until(pending) \in Nat
<1>1. pending \in Attempts
  BY DEF MfaTypeOK
<1>2. PICK k \in DOMAIN ledger : k = Len(ledger)
  BY DEF MfaTypeOK, PendingInv
<1>3. PICK e : e = ledger[k]
  OBVIOUS
<1>4. e.second \in Nat /\ e.second <= elapsed
  <2>1. e \in [attempt : Attempts, outcome : Outcomes, second : Nat]
    BY <1>2, <1>3, EventsAreTyped
  <2>2. QED
    BY <1>2, <1>3, <2>1 DEF LedgerInv
<1>5. e.second = challenge[pending].at
  BY <1>2, <1>3 DEF PendingInv, Event
<1>6. QED
  BY <1>1, <1>4, <1>5, TimeAssumption DEF Until

LEMMA AdvanceShape ==
  ASSUME Basis, NEW now \in Nat, elapsed' = now, elapsed <= now, state' = state,
         NEW stored \in BOOLEAN, MfaAdvance(now, stored)
  PROVE  Unanswered \/ Answered
<1>1. CASE Overdue(now) /\ stored
  <2>1. pending # None
    BY <1>1 DEF Overdue
  <2>2. /\ pending \in Attempts
        /\ challenge[pending].at \in Nat /\ challenge[pending].at <= elapsed
        /\ Until(pending) \in Nat
    BY <2>1, PendingIsSent DEF Basis
  <2>3. CASE Contained
    <3>1. Resolved("cancelled", now)
      BY <1>1, <2>3 DEF MfaAdvance
    <3>2. elapsed \in Nat
      BY DEF Basis, MfaTypeOK
    <3>3. challenge[pending].at <= now /\ now <= elapsed'
      BY <2>2, <3>2
    <3>4. QED
      BY <2>1, <3>1, <3>3 DEF Answered, Finals
  <2>4. CASE ~Contained
    <3>1. Resolved("expired", Until(pending)) /\ Until(pending) <= now
      BY <1>1, <2>2, <2>4 DEF MfaAdvance, Overdue
    <3>2. challenge[pending].at <= Until(pending)
      BY <2>2, TimeAssumption DEF Until
    <3>3. PICK second \in Nat : second = Until(pending)
      BY <2>2
    <3>4. Resolved("expired", second)
      BY <3>1, <3>3
    <3>5. QED
      BY <2>1, <3>1, <3>2, <3>3, <3>4 DEF Answered, Finals
  <2>5. QED
    BY <2>3, <2>4
<1>2. CASE ~(Overdue(now) /\ stored)
  <2>1. UNCHANGED <<challenge, pending, decision, ledger>>
    BY <1>2 DEF MfaAdvance
  <2>2. pending' # None => state' # "stopped"
    BY <2>1 DEF Basis, PendingInv
  <2>3. QED
    BY <2>1, <2>2 DEF Unanswered
<1>3. QED
  BY <1>1, <1>2

\* The items of a step in the walk or of a delivery by hand.
LEMMA ItemShape ==
  ASSUME Basis, NEW i \in call.due, IsFirst(i, call.due), NEW rest,
         call.op \in {"item", "deliver"}, DeliverItem(i, rest),
         UNCHANGED <<elapsed, containedAt>>
  PROVE  /\ Onward /\ i \in Items /\ status[i] = "pending"
         /\ \E to \in ItemStatuses \ {"pending"} : status' = [status EXCEPT ![i] = to]
         /\ call' \in {rest, Raised}
         /\ state' \in {state, "completed"}
<1>1. /\ i \in Items /\ status[i] = "pending" /\ status \in [Items -> ItemStatuses]
      /\ elapsed \in Nat /\ state # "stopped"
  <2>1. call.due \subseteq Items /\ state # "stopped"
    BY DEF Basis, MfaTypeOK, WalkInv, Quiet
  <2>2. status[i] = "pending"
    BY DEF Basis, WalkInv
  <2>3. QED
    BY <2>1, <2>2 DEF Basis, MfaTypeOK
<1>2. ASSUME NEW to \in {"delivered", "failed"}, NEW stored, ItemEvent(i, to, stored, rest)
      PROVE  /\ status' = [status EXCEPT ![i] = to]
             /\ status' \in [Items -> ItemStatuses]
             /\ \A j \in Items : status[j] = "delivered" => status'[j] = "delivered"
             /\ \E t \in ItemStatuses \ {"pending"} : status' = [status EXCEPT ![i] = t]
             /\ call' \in {rest, Raised}
  BY <1>1, <1>2 DEF ItemEvent, ItemStatuses
<1>3. CASE i = End /\ DeliverEnd(rest)
  <2>1. Unanswered /\ state' \in {state, "completed"}
    BY <1>1, <1>3 DEF DeliverEnd, mfaVars, Unanswered, Basis, PendingInv
  <2>2. PICK stored : ItemEvent(i, "delivered", stored, rest)
    BY <1>3 DEF DeliverEnd
  <2>3. QED
    BY <1>1, <1>2, <2>1, <2>2 DEF Onward
<1>4. CASE i # End /\ RefuseChallenge(i, rest)
  <2>1. Unanswered /\ state' = state
    BY <1>1, <1>4 DEF RefuseChallenge, mfaVars, Unanswered
  <2>2. PICK stored : ItemEvent(i, "failed", stored, rest)
    BY <1>4 DEF RefuseChallenge
  <2>3. QED
    BY <1>1, <1>2, <2>1, <2>2 DEF Onward
<1>5. CASE i # End /\ SendChallenge(i, rest)
  <2>1. PICK stored : ItemEvent(i, "delivered", stored, rest)
    BY <1>5 DEF SendChallenge
  <2>2. i \in Attempts
    BY <1>1, <1>5 DEF Items
  <2>3. status' = [status EXCEPT ![i] = "delivered"]
    BY <1>2, <2>1
  <2>4. Sent(i) /\ state' = state
    BY <1>1, <1>5, <2>3 DEF SendChallenge, Sent
  <2>5. QED
    BY <1>1, <1>2, <2>1, <2>2, <2>4 DEF Onward
<1>6. CASE i # End /\ LoseChallenge(i, rest)
  <2>1. PICK stored : ItemEvent(i, "failed", stored, rest)
    BY <1>6 DEF LoseChallenge
  <2>2. i \in Attempts
    BY <1>1, <1>6 DEF Items
  <2>3. Unanswered /\ state' = state
    BY <1>6, <2>2 DEF LoseChallenge, Unanswered
  <2>4. QED
    BY <1>1, <1>2, <2>1, <2>3 DEF Onward
<1>7. QED
  BY <1>3, <1>4, <1>5, <1>6 DEF DeliverItem

LEMMA ItemStepShape ==
  ASSUME Basis, ItemStep
  PROVE  /\ Onward /\ UNCHANGED containedAt
         /\ call' \in [op : {"idle", "raised", "clock", "item", "deliver"},
                       due : SUBSET Items, target : Nat]
         /\ state' \in RunStates /\ gap' \in BOOLEAN
         /\ WalkInv'
<1>1. PICK i, rest :
        /\ i \in call.due /\ IsFirst(i, call.due) /\ DeliverItem(i, rest)
        /\ rest = IF call.op = "deliver" THEN Idle
                  ELSE [call EXCEPT !.op = "clock", !.due = @ \ {i}]
  BY DEF ItemStep
<1>2. call.op \in {"item", "deliver"} /\ UNCHANGED <<elapsed, containedAt>>
  BY DEF ItemStep
<1>3. /\ Onward /\ i \in Items /\ status[i] = "pending"
      /\ call' \in {rest, Raised} /\ state' \in {state, "completed"}
  BY <1>1, <1>2, ItemShape
<1>4. PICK to \in ItemStatuses \ {"pending"} : status' = [status EXCEPT ![i] = to]
  BY <1>1, <1>2, ItemShape
<1>5. /\ call = [op |-> call.op, due |-> call.due, target |-> call.target]
      /\ call.due \subseteq Items /\ call.target \in Nat
      /\ status \in [Items -> ItemStatuses] /\ state \in RunStates /\ gap \in BOOLEAN
  BY DEF Basis, MfaTypeOK
<1>6. \/ call' = Idle \/ call' = Raised
      \/ /\ call.op = "item"
         /\ call' = [op |-> "clock", due |-> call.due \ {i}, target |-> call.target]
  BY <1>1, <1>2, <1>3, <1>5
<1>7. /\ call' = [op |-> call'.op, due |-> call'.due, target |-> call'.target]
      /\ call'.op \in {"idle", "raised", "clock"}
      /\ call'.due \subseteq Items /\ call'.target \in Nat
      /\ call'.op = "clock" => /\ call.op = "item" /\ call'.target = call.target
                               /\ call'.due = call.due \ {i}
  BY <1>5, <1>6 DEF Idle, Raised
<1>8. gap' \in BOOLEAN
  BY <1>1, <1>5 DEF DeliverItem, DeliverEnd, RefuseChallenge, SendChallenge, LoseChallenge
<1>9. state' \in RunStates /\ state' # "stopped"
  BY <1>2, <1>3, <1>5 DEF RunStates, Basis, WalkInv, Quiet
<1>10. WalkInv'
  <2>1. \A j \in Items : status'[j] = "pending" <=> status[j] = "pending" /\ j # i
    BY <1>4, <1>5
  <2>2. \A j \in Items : status'[j] = "pending" => elapsed' <= At(j)
    BY <1>2, <2>1 DEF Basis, WalkInv
  <2>3. call'.op = "clock" =>
          /\ elapsed' <= call'.target
          /\ call'.due = {j \in Items : At(j) <= call'.target /\ status'[j] = "pending"}
    <3> SUFFICES ASSUME call'.op = "clock"
                 PROVE  /\ elapsed' <= call'.target
                        /\ call'.due = {j \in Items : At(j) <= call'.target
                                                      /\ status'[j] = "pending"}
      OBVIOUS
    <3>1. /\ elapsed <= call.target
          /\ call.due = {j \in Items : At(j) <= call.target /\ status[j] = "pending"}
      BY <1>7 DEF Basis, WalkInv
    <3>2. QED
      BY <1>2, <1>7, <2>1, <3>1
  <2>4. state' = "ready" => elapsed' = 0 /\ call'.op # "clock"
    BY <1>2, <1>3, <1>7 DEF Basis, WalkInv
  <2>5. QED
    BY <1>7, <1>9, <2>2, <2>3, <2>4 DEF WalkInv, Quiet
<1>11. QED
  BY <1>2, <1>3, <1>7, <1>8, <1>9, <1>10

LEMMA ClockStepShape ==
  ASSUME Basis, ClockStep
  PROVE  /\ Onward /\ UNCHANGED containedAt
         /\ call' \in [op : {"idle", "raised", "clock", "item", "deliver"},
                       due : SUBSET Items, target : Nat]
         /\ state' \in RunStates /\ gap' \in BOOLEAN
         /\ WalkInv'
<1>1. PICK now \in {call.target} \cup {At(i) : i \in call.due}, stored \in SinkOutcomes :
        /\ IF call.due = {} THEN now = call.target
                            ELSE \E i \in call.due : IsFirst(i, call.due) /\ now = At(i)
        /\ elapsed' = now
        /\ MfaAdvance(now, stored)
        /\ call' = IF ~stored THEN Raised
                   ELSE IF call.due = {} THEN Idle
                   ELSE [call EXCEPT !.op = "item"]
  BY Zenon DEF ClockStep
<1>2. call.op = "clock" /\ UNCHANGED <<state, status, containedAt>> /\ stored \in BOOLEAN
  BY <1>1, SinkAssumption DEF ClockStep
<1>3. /\ call = [op |-> call.op, due |-> call.due, target |-> call.target]
      /\ call.due \subseteq Items /\ call.target \in Nat /\ elapsed \in Nat
      /\ status \in [Items -> ItemStatuses] /\ state \in RunStates /\ gap \in BOOLEAN
  BY DEF Basis, MfaTypeOK
<1>4. /\ elapsed <= call.target
      /\ call.due = {i \in Items : At(i) <= call.target /\ status[i] = "pending"}
      /\ state # "stopped"
  BY <1>2 DEF Basis, WalkInv, Quiet
<1>5. /\ now \in Nat /\ elapsed <= now /\ now <= call.target
      /\ \A i \in call.due : now <= At(i)
      /\ call.due # {} => \A i \in call.due : IsFirst(i, call.due) => At(i) = now
  <2>1. CASE call.due = {}
    BY <1>1, <1>3, <1>4, <2>1
  <2>2. CASE call.due # {}
    <3>1. PICK f \in call.due : IsFirst(f, call.due) /\ now = At(f)
      BY <1>1, <2>2
    <3>2. At(f) \in Nat /\ elapsed <= At(f) /\ At(f) <= call.target
      BY <1>3, <1>4, ScheduleFacts DEF Basis, WalkInv
    <3>3. ASSUME NEW i \in call.due, IsFirst(i, call.due)
          PROVE  At(i) = now
      <4>1. At(i) <= At(f) /\ At(f) <= At(i) /\ At(i) \in Nat
        BY <1>3, <3>1, <3>3, ScheduleFacts DEF IsFirst
      <4>2. QED
        BY <3>1, <3>2, <4>1
    <3>4. QED
      BY <3>1, <3>2, <3>3 DEF IsFirst
  <2>3. QED
    BY <2>1, <2>2
<1>6. Unanswered \/ Answered
  BY <1>1, <1>2, <1>5, AdvanceShape
<1>7. Onward
  BY <1>1, <1>2, <1>3, <1>5, <1>6 DEF Onward
<1>8. /\ call' = [op |-> call'.op, due |-> call'.due, target |-> call'.target]
      /\ call'.op \in {"idle", "raised", "item"}
      /\ call'.due \subseteq Items /\ call'.target \in Nat
      /\ call'.op = "item" => /\ call'.due = call.due /\ call'.target = call.target
                              /\ call.due # {}
  BY <1>1, <1>2, <1>3 DEF Idle, Raised
<1>9. gap' \in BOOLEAN
  BY <1>1, <1>2, <1>3 DEF MfaAdvance
<1>10. WalkInv'
  <2>1. ASSUME NEW i \in Items, status'[i] = "pending"
        PROVE  elapsed' <= At(i)
    <3>1. CASE i \in call.due
      BY <1>1, <1>5, <3>1
    <3>2. CASE i \notin call.due
      <4>1. At(i) \in Nat /\ ~(At(i) <= call.target)
        BY <1>2, <1>4, <2>1, <3>2, ScheduleFacts
      <4>2. QED
        BY <1>1, <1>3, <1>5, <4>1
    <3>3. QED
      BY <3>1, <3>2
  <2>2. call'.op = "item" =>
          /\ elapsed' <= call'.target
          /\ call'.due = {i \in Items : At(i) <= call'.target /\ status'[i] = "pending"}
          /\ \A i \in call'.due : IsFirst(i, call'.due) => At(i) = elapsed'
    BY <1>1, <1>2, <1>4, <1>5, <1>8
  <2>3. state' # "ready"
    BY <1>2 DEF Basis, WalkInv
  <2>4. QED
    BY <1>2, <1>4, <1>8, <2>1, <2>2, <2>3 DEF WalkInv, Quiet
<1>11. QED
  BY <1>2, <1>3, <1>7, <1>8, <1>9, <1>10

\* Every other call of people and of the controller.
Others ==
  \/ \E stored \in SinkOutcomes : StartPlay(stored) \/ PausePlay(stored) \/ ResumePlay(stored)
  \/ \E t \in 0..Horizon : AdvanceTo(t)
  \/ \E i \in Items : Deliver(i) \/ Skip(i)
  \/ \E i \in Attempts, answer \in Answers : Decide(i, answer)
  \/ Contain \/ OtherAction \/ SignInDecision \/ Stop

CallTypes == [op : {"idle", "raised", "clock", "item", "deliver"},
              due : SUBSET Items, target : Nat]

\* A call that begins no walk keeps the invariant of the walk.
LEMMA QuietWalk ==
  ASSUME Basis, elapsed' = elapsed, call' \in {Idle, Raised},
         state' = "ready" => state = "ready",
         \A i \in Items : status'[i] = "pending" => status[i] = "pending"
  PROVE  WalkInv' /\ call' \in CallTypes
<1>1. /\ call' = [op |-> call'.op, due |-> call'.due, target |-> call'.target]
      /\ call'.op \in {"idle", "raised"} /\ call'.due = {} /\ call'.target = 0
  BY DEF Idle, Raised
<1>2. QED
  BY <1>1 DEF Basis, WalkInv, Quiet, CallTypes

LEMMA AdvanceBegins ==
  ASSUME Basis, NEW t \in Nat, elapsed <= t, call' = AdvanceCall(t), state' = "running",
         UNCHANGED <<elapsed, status>>
  PROVE  WalkInv' /\ call' \in CallTypes
<1>1. /\ call'.op = "clock" /\ call'.target = t
      /\ call'.due = {i \in Items : At(i) <= t /\ status[i] = "pending"}
      /\ call' \in CallTypes
  BY DEF AdvanceCall, CallTypes
<1>2. QED
  BY <1>1 DEF Basis, WalkInv

LEMMA NothingAnswered ==
  ASSUME Basis, UNCHANGED mfaVars, state' # "stopped" \/ state = "stopped"
  PROVE  Unanswered
BY DEF Basis, mfaVars, Unanswered, PendingInv

\* Resolving the pending challenge at the clock's second.
LEMMA AnswerNow ==
  ASSUME Basis, pending # None, elapsed' = elapsed,
         NEW outcome \in Finals \ {"blocked"}, Resolved(outcome, elapsed)
  PROVE  Answered
<1>1. challenge[pending].at <= elapsed /\ elapsed \in Nat
  BY PendingIsSent DEF Basis, MfaTypeOK
<1>2. PICK second \in Nat : second = elapsed
  BY <1>1
<1>3. QED
  BY <1>1, <1>2 DEF Answered

LEMMA OthersShape ==
  ASSUME Basis, Others
  PROVE  /\ Onward /\ WalkInv' /\ call' \in CallTypes
         /\ state' \in RunStates /\ gap' \in BOOLEAN
         /\ containedAt' \in {containedAt, elapsed}
<1>1. /\ elapsed \in Nat /\ status \in [Items -> ItemStatuses] /\ state \in RunStates
      /\ gap \in BOOLEAN
  BY DEF Basis, MfaTypeOK
<1>2. SinkOutcomes \subseteq BOOLEAN /\ Answers \subseteq Finals \ {"blocked"}
  BY SinkAssumption, AnswersAssumption DEF Finals, Decisions
<1>3. ASSUME NEW stored \in SinkOutcomes,
             StartPlay(stored) \/ PausePlay(stored) \/ ResumePlay(stored)
      PROVE  /\ Onward /\ WalkInv' /\ call' \in CallTypes
             /\ state' \in RunStates /\ gap' \in BOOLEAN
             /\ containedAt' \in {containedAt, elapsed}
  <2>1. /\ UNCHANGED <<elapsed, status, containedAt>> /\ UNCHANGED mfaVars
        /\ state' \in {"running", "paused"} /\ gap' = (gap \/ ~stored)
        /\ \/ call' \in {Idle, Raised}
           \/ state = "ready" /\ state' = "running" /\ call' = AdvanceCall(0)
    BY <1>3 DEF StartPlay, PausePlay, ResumePlay, Transition
  <2>2. Onward
    BY <1>1, <2>1, NothingAnswered DEF Onward
  <2>3. WalkInv' /\ call' \in CallTypes
    <3>1. CASE call' \in {Idle, Raised}
      BY <2>1, <3>1, QuietWalk
    <3>2. CASE state = "ready" /\ state' = "running" /\ call' = AdvanceCall(0)
      <4>1. elapsed <= 0
        BY <1>1, <3>2 DEF Basis, WalkInv
      <4>2. QED
        BY <2>1, <3>2, <4>1, AdvanceBegins
    <3>3. QED
      BY <2>1, <3>1, <3>2
  <2>4. QED
    BY <1>1, <1>2, <2>1, <2>2, <2>3 DEF RunStates
<1>4. ASSUME NEW t \in 0..Horizon, AdvanceTo(t)
      PROVE  /\ Onward /\ WalkInv' /\ call' \in CallTypes
             /\ state' \in RunStates /\ gap' \in BOOLEAN
             /\ containedAt' \in {containedAt, elapsed}
  <2>1. /\ UNCHANGED <<state, elapsed, status, containedAt, gap>> /\ UNCHANGED mfaVars
        /\ state = "running" /\ elapsed <= t /\ call' = AdvanceCall(t)
    BY <1>1, <1>4, TimeAssumption DEF AdvanceTo
  <2>2. Onward
    BY <1>1, <2>1, NothingAnswered DEF Onward
  <2>3. WalkInv' /\ call' \in CallTypes
    BY <2>1, TimeAssumption, AdvanceBegins
  <2>4. QED
    BY <1>1, <2>1, <2>2, <2>3
<1>5. ASSUME NEW i \in Items, Deliver(i)
      PROVE  /\ Onward /\ WalkInv' /\ call' \in CallTypes
             /\ state' \in RunStates /\ gap' \in BOOLEAN
             /\ containedAt' \in {containedAt, elapsed}
  <2>1. /\ UNCHANGED <<state, elapsed, containedAt>> /\ status[i] = "pending"
        /\ state \in Live
    BY <1>5 DEF Deliver
  <2>2. /\ gap' \in BOOLEAN /\ (Unanswered \/ Answered)
        /\ \/ call' = [Idle EXCEPT !.op = "deliver", !.due = {i}] /\ status' = status
           \/ call' \in {Idle, Raised} /\ status' = [status EXCEPT ![i] = "failed"]
    <3>1. CASE i # End /\ state = "running" /\ Overdue(elapsed)
      <4>1. PICK stored \in SinkOutcomes :
              /\ MfaAdvance(elapsed, stored)
              /\ \/ stored /\ call' = [Idle EXCEPT !.op = "deliver", !.due = {i}]
                    /\ UNCHANGED status
                 \/ ~stored /\ \E failureStored \in SinkOutcomes :
                                 ItemEvent(i, "failed", failureStored, Idle)
        BY <1>5, <3>1 DEF Deliver
      <4>2. Unanswered \/ Answered
        BY <1>1, <1>2, <2>1, <4>1, AdvanceShape
      <4>3. gap' \in BOOLEAN
        BY <1>1, <1>2, <4>1 DEF MfaAdvance
      <4>4. QED
        BY <4>1, <4>2, <4>3 DEF ItemEvent
    <3>2. CASE ~(i # End /\ state = "running" /\ Overdue(elapsed))
      <4>1. /\ call' = [Idle EXCEPT !.op = "deliver", !.due = {i}]
            /\ UNCHANGED <<status, gap>> /\ UNCHANGED mfaVars
        BY <1>5, <3>2 DEF Deliver
      <4>2. QED
        BY <1>1, <2>1, <4>1, NothingAnswered
    <3>3. QED
      BY <3>1, <3>2
  <2>3. Onward
    BY <1>1, <2>1, <2>2 DEF Onward, ItemStatuses
  <2>4. CASE call' = [Idle EXCEPT !.op = "deliver", !.due = {i}] /\ status' = status
    <3>1. call' = [op |-> "deliver", due |-> {i}, target |-> 0]
      BY <2>4 DEF Idle
    <3>2. state' # "stopped"
      BY <2>1 DEF Live
    <3>3. call' \in CallTypes
      BY <3>1 DEF CallTypes
    <3>4. WalkInv'
      BY <2>1, <2>4, <3>1, <3>2 DEF Basis, WalkInv
    <3>5. QED
      BY <1>1, <2>1, <2>2, <2>3, <3>3, <3>4
  <2>5. CASE call' \in {Idle, Raised} /\ status' = [status EXCEPT ![i] = "failed"]
    <3>1. WalkInv' /\ call' \in CallTypes
      BY <1>1, <2>1, <2>5, QuietWalk
    <3>2. QED
      BY <1>1, <2>1, <2>2, <2>3, <3>1
  <2>6. QED
    BY <2>2, <2>4, <2>5
<1>6. ASSUME NEW i \in Items, Skip(i)
      PROVE  /\ Onward /\ WalkInv' /\ call' \in CallTypes
             /\ state' \in RunStates /\ gap' \in BOOLEAN
             /\ containedAt' \in {containedAt, elapsed}
  <2>1. /\ UNCHANGED <<state, elapsed, containedAt>> /\ UNCHANGED mfaVars
        /\ status[i] = "pending" /\ status' = [status EXCEPT ![i] = "skipped"]
        /\ call' \in {Idle, Raised} /\ gap' \in BOOLEAN
    BY <1>1, <1>2, <1>6 DEF Skip, ItemEvent
  <2>2. Onward
    BY <1>1, <2>1, NothingAnswered DEF Onward, ItemStatuses
  <2>3. WalkInv' /\ call' \in CallTypes
    BY <1>1, <2>1, QuietWalk
  <2>4. QED
    BY <1>1, <2>1, <2>2, <2>3
<1>7. ASSUME (\E i \in Attempts, answer \in Answers : Decide(i, answer))
             \/ Contain \/ OtherAction \/ SignInDecision \/ Stop
      PROVE  /\ Onward /\ WalkInv' /\ call' \in CallTypes
             /\ state' \in RunStates /\ gap' \in BOOLEAN
             /\ containedAt' \in {containedAt, elapsed}
  <2>1. /\ UNCHANGED <<elapsed, status>> /\ call' = Idle
        /\ state' \in {state, "stopped"}
        /\ containedAt' \in {containedAt, elapsed}
    BY <1>7 DEF Decide, Contain, OtherAction, SignInDecision, Stop, StopRun
  <2>2. ASSUME NEW stored \in SinkOutcomes, MfaAdvance(elapsed, stored), state' = state
        PROVE  (Unanswered \/ Answered) /\ gap' \in BOOLEAN
    <3>1. stored \in BOOLEAN
      BY <1>2
    <3>2. Unanswered \/ Answered
      BY <1>1, <2>1, <2>2, <3>1, AdvanceShape
    <3>3. QED
      BY <1>1, <2>2, <3>1, <3>2 DEF MfaAdvance
  <2>3. ASSUME NEW stored \in SinkOutcomes, NEW outcome \in Finals \ {"blocked"},
               pending # None, state' = state, gap' = (gap \/ ~stored),
               IF stored THEN Resolved(outcome, elapsed)
               ELSE UNCHANGED <<challenge, pending, decision, ledger>>
        PROVE  (Unanswered \/ Answered) /\ gap' \in BOOLEAN
    <3>1. stored \in BOOLEAN
      BY <1>2
    <3>2. Unanswered \/ Answered
      BY <2>1, <2>3, AnswerNow, NothingAnswered DEF mfaVars
    <3>3. QED
      BY <1>1, <2>3, <3>1, <3>2
  <2>4. ASSUME NEW i \in Attempts, NEW answer \in Answers, Decide(i, answer)
        PROVE  (Unanswered \/ Answered) /\ gap' \in BOOLEAN
    <3>1. state' = state /\ i # None /\ answer \in Finals \ {"blocked"}
      BY <1>2, <2>4, ScheduleFacts DEF Decide
    <3>2. CASE Overdue(elapsed) /\ \E stored \in SinkOutcomes : MfaAdvance(elapsed, stored)
      BY <2>2, <3>1, <3>2
    <3>3. CASE ~Overdue(elapsed)
      <4>1. PICK stored \in SinkOutcomes :
              /\ IF stored THEN Resolved(answer, elapsed)
                           ELSE UNCHANGED <<challenge, pending, decision, ledger>>
              /\ gap' = (gap \/ ~stored)
        BY <2>4, <3>3 DEF Decide
      <4>2. pending # None
        BY <2>4, <3>1, <3>3 DEF Decide
      <4>3. QED
        BY <2>3, <3>1, <4>1, <4>2
    <3>4. QED
      BY <2>4, <3>2, <3>3 DEF Decide
  <2>5. ASSUME Contain
        PROVE  (Unanswered \/ Answered) /\ gap' \in BOOLEAN
    <3>1. state' = state /\ "cancelled" \in Finals \ {"blocked"}
      BY <2>5 DEF Contain, Finals
    <3>2. CASE UNCHANGED mfaVars /\ gap' \in {gap, TRUE}
      BY <1>1, <3>1, <3>2, NothingAnswered
    <3>3. CASE pending # None /\ ~(UNCHANGED mfaVars /\ gap' \in {gap, TRUE})
      <4>1. PICK stored \in SinkOutcomes :
              /\ IF stored THEN Resolved("cancelled", elapsed)
                           ELSE UNCHANGED <<challenge, pending, decision, ledger>>
              /\ gap' = (gap \/ ~stored)
        BY <2>5, <3>3 DEF Contain
      <4>2. QED
        BY <2>3, <3>1, <3>3, <4>1
    <3>4. QED
      BY <2>5, <3>2, <3>3 DEF Contain
  <2>6. ASSUME OtherAction
        PROVE  (Unanswered \/ Answered) /\ gap' \in BOOLEAN
    <3>1. state' = state
      BY <2>6 DEF OtherAction
    <3>2. CASE gap' = TRUE /\ UNCHANGED mfaVars
      BY <3>1, <3>2, NothingAnswered
    <3>3. QED
      BY <2>2, <2>6, <3>1, <3>2 DEF OtherAction
  <2>7. ASSUME SignInDecision
        PROVE  (Unanswered \/ Answered) /\ gap' \in BOOLEAN
    <3>1. /\ UNCHANGED <<challenge, pending, ledger>> /\ pending = None
          /\ decision' \in Finals /\ gap' \in BOOLEAN
      BY <1>1, <1>2, <2>7 DEF SignInDecision
    <3>2. QED
      BY <3>1 DEF Unanswered
  <2>8. ASSUME Stop
        PROVE  (Unanswered \/ Answered) /\ gap' \in BOOLEAN
    <3>1. PICK s1 \in SinkOutcomes, s2 \in SinkOutcomes, s3 \in SinkOutcomes :
            StopRun(s1, s2) /\ gap' = (gap \/ ~(s1 /\ s2 /\ s3))
      BY <2>8 DEF Stop
    <3>2. gap' \in BOOLEAN
      BY <1>1, <1>2, <3>1
    <3>3. CASE pending # None /\ Resolved("cancelled", elapsed)
      BY <2>1, <3>2, <3>3, AnswerNow DEF Finals
    <3>4. CASE pending' = None /\ UNCHANGED <<challenge, decision, ledger>>
      BY <3>2, <3>4 DEF Unanswered, Basis, MfaTypeOK
    <3>5. QED
      BY <3>1, <3>3, <3>4 DEF StopRun
  <2>9. (Unanswered \/ Answered) /\ gap' \in BOOLEAN
    BY <1>7, <2>4, <2>5, <2>6, <2>7, <2>8
  <2>10. Onward
    BY <1>1, <2>1, <2>9 DEF Onward
  <2>11. WalkInv' /\ call' \in CallTypes
    BY <2>1, QuietWalk
  <2>12. QED
    BY <1>1, <2>1, <2>9, <2>10, <2>11 DEF RunStates
<1>8. QED
  BY <1>3, <1>4, <1>5, <1>6, <1>7 DEF Others

-------------------------------------------------------------------------------
(***************************************************************************)
(* The ledger and the pending challenge.                                   *)
(***************************************************************************)

LEMMA ShapeTypes ==
  ASSUME Basis, Onward
  PROVE  /\ challenge' \in [Attempts -> [at : Nat \cup {-1}, outcome : Outcomes \cup {"none"}]]
         /\ pending' \in Attempts \cup {None}
         /\ decision' \in {"pending"} \cup Finals
         /\ ledger' \in Seq([attempt : Attempts, outcome : Outcomes, second : Nat])
<1> DEFINE Records == [attempt : Attempts, outcome : Outcomes, second : Nat]
           Challenges == [at : Nat \cup {-1}, outcome : Outcomes \cup {"none"}]
<1>1. /\ challenge \in [Attempts -> Challenges]
      /\ pending \in Attempts \cup {None}
      /\ decision \in {"pending"} \cup Finals
      /\ ledger \in Seq(Records)
      /\ elapsed \in Nat
  BY DEF Basis, MfaTypeOK
<1>2. \A i \in Attempts, o \in Outcomes, s \in Nat :
        [attempt |-> i, outcome |-> o, second |-> s] \in Records
  OBVIOUS
<1>3. \A c \in Challenges, o \in Outcomes, s \in Nat :
        [c EXCEPT !.outcome = o] \in Challenges /\ [c EXCEPT !.at = s] \in Challenges
  OBVIOUS
<1>4. \A o \in Outcomes, s \in Nat : [at |-> s, outcome |-> o] \in Challenges
  OBVIOUS
<1> HIDE DEF Records, Challenges
<1>5. CASE Unanswered
  <2>1. challenge' \in [Attempts -> Challenges]
    <3>1. CASE challenge' = challenge
      BY <1>1, <3>1
    <3>2. ASSUME NEW i \in Attempts, challenge' = [challenge EXCEPT ![i].at = elapsed]
          PROVE  challenge' \in [Attempts -> Challenges]
      <4>1. PICK c \in Challenges : c = challenge[i]
        BY <1>1
      <4>2. challenge' = [challenge EXCEPT ![i] = [c EXCEPT !.at = elapsed]]
        BY <3>2, <4>1
      <4>3. [c EXCEPT !.at = elapsed] \in Challenges
        <5>1. \E o \in Outcomes : TRUE
          BY DEF Outcomes
        <5>2. QED
          BY <1>1, <1>3, <4>1, <5>1
      <4>4. QED
        BY <1>1, <4>2, <4>3
    <3>3. QED
      BY <1>5, <3>1, <3>2 DEF Unanswered
  <2>2. QED
    BY <1>1, <1>5, <2>1 DEF Unanswered, Records, Challenges
<1>6. CASE Answered
  <2>1. PICK outcome \in Finals \ {"blocked"}, second \in Nat :
          pending # None /\ Resolved(outcome, second)
    BY <1>6 DEF Answered
  <2>2. outcome \in Outcomes /\ outcome # "delivered" /\ pending \in Attempts
    BY <1>1, <2>1 DEF Outcomes, Finals, Decisions
  <2>3. PICK c \in Challenges : c = challenge[pending]
    BY <1>1, <2>2
  <2>4. challenge' = [challenge EXCEPT ![pending] = [c EXCEPT !.outcome = outcome]]
    BY <2>1, <2>3 DEF Resolved
  <2>5. [c EXCEPT !.outcome = outcome] \in Challenges
    BY <1>3, <2>1, <2>2
  <2>6. challenge' \in [Attempts -> Challenges]
    BY <1>1, <2>2, <2>4, <2>5
  <2>7. ledger' \in Seq(Records)
    BY <1>1, <1>2, <2>1, <2>2 DEF Resolved, Recorded
  <2>8. QED
    BY <2>1, <2>2, <2>6, <2>7 DEF Resolved, Recorded, Records, Challenges
<1>7. ASSUME NEW i \in Attempts, Sent(i)
      PROVE  /\ challenge' \in [Attempts -> Challenges]
             /\ pending' \in Attempts \cup {None}
             /\ decision' \in {"pending"} \cup Finals
             /\ ledger' \in Seq(Records)
  <2>1. PICK outcome \in {"blocked", "delivered"} :
          /\ Recorded(i, outcome, elapsed)
          /\ challenge' = [challenge EXCEPT ![i] = [at |-> elapsed, outcome |-> outcome]]
          /\ pending' \in {None, i}
    BY <1>7 DEF Sent
  <2>2. outcome \in Outcomes /\ (outcome # "delivered" => outcome \in Finals)
    BY DEF Outcomes, Finals
  <2>3. ledger' \in Seq(Records)
    BY <1>1, <1>2, <2>1, <2>2 DEF Recorded
  <2>4. challenge' \in [Attempts -> Challenges]
    BY <1>1, <1>4, <2>1, <2>2
  <2>5. QED
    BY <2>1, <2>2, <2>3, <2>4 DEF Recorded
<1>8. QED
  BY <1>5, <1>6, <1>7 DEF Onward, Records, Challenges

\* A ledger keeps the reviewed order when its next event is not earlier than any.
Ordered(s) == \A m, n \in DOMAIN s : m < n => s[m].second <= s[n].second

\* An attempt begins with its delivery or a block and is resolved at most once.
Once(s) ==
  \A n \in DOMAIN s :
    LET earlier == {m \in 1..(n - 1) : s[m].attempt = s[n].attempt} IN
    \/ earlier = {} /\ s[n].outcome \in {"delivered", "blocked"}
    \/ \E m \in earlier :
         /\ earlier = {m} /\ s[m].outcome = "delivered"
         /\ s[n].outcome \in Finals \ {"blocked"}

LEMMA NextEvent ==
  ASSUME NEW R, NEW s \in Seq(R), NEW e \in R, NEW t, t = Append(s, e)
  PROVE  /\ DOMAIN t = DOMAIN s \cup {Len(s) + 1} /\ DOMAIN s = 1..Len(s)
         /\ Len(s) \in Nat /\ Len(t) = Len(s) + 1
         /\ t[Len(s) + 1] = e
         /\ \A n \in DOMAIN s : t[n] = s[n]
<1>1. DOMAIN t = 1..(Len(s) + 1) /\ DOMAIN s = 1..Len(s) /\ Len(s) \in Nat
      /\ Len(t) = Len(s) + 1
  OBVIOUS
<1>2. t[Len(s) + 1] = e /\ \A n \in 1..Len(s) : t[n] = s[n]
  OBVIOUS
<1>3. QED
  BY <1>1, <1>2

LEMMA StaysOrdered ==
  ASSUME NEW R, NEW s \in Seq(R), NEW e \in R, Ordered(s),
         \A n \in DOMAIN s : s[n].second <= e.second
  PROVE  Ordered(Append(s, e))
<1>1. PICK t : t = Append(s, e)
  OBVIOUS
<1>2. /\ DOMAIN t = DOMAIN s \cup {Len(s) + 1} /\ DOMAIN s = 1..Len(s)
      /\ Len(s) \in Nat /\ t[Len(s) + 1] = e
      /\ \A n \in DOMAIN s : t[n] = s[n]
  BY <1>1, NextEvent
<1>3. ASSUME NEW m \in DOMAIN t, NEW n \in DOMAIN t, m < n
      PROVE  t[m].second <= t[n].second
  <2>1. m \in DOMAIN s
    BY <1>2, <1>3
  <2>2. CASE n \in DOMAIN s
    BY <1>2, <1>3, <2>1, <2>2 DEF Ordered
  <2>3. CASE n = Len(s) + 1
    BY <1>2, <2>1, <2>3
  <2>4. QED
    BY <1>2, <2>2, <2>3
<1>4. QED
  BY <1>1, <1>3 DEF Ordered

\* earlier: the events of the new event's attempt.
LEMMA StaysOnce ==
  ASSUME NEW R, NEW s \in Seq(R), NEW e \in R, Once(s),
         LET earlier == {m \in 1..Len(s) : s[m].attempt = e.attempt} IN
         \/ earlier = {} /\ e.outcome \in {"delivered", "blocked"}
         \/ \E m \in earlier :
              /\ earlier = {m} /\ s[m].outcome = "delivered"
              /\ e.outcome \in Finals \ {"blocked"}
  PROVE  Once(Append(s, e))
<1>1. PICK t : t = Append(s, e)
  OBVIOUS
<1>2. /\ DOMAIN t = DOMAIN s \cup {Len(s) + 1} /\ DOMAIN s = 1..Len(s)
      /\ Len(s) \in Nat /\ t[Len(s) + 1] = e
      /\ \A n \in DOMAIN s : t[n] = s[n]
  BY <1>1, NextEvent
<1> DEFINE Earlier(u, n) == {m \in 1..(n - 1) : u[m].attempt = u[n].attempt}
           Fine(u, n) == \/ Earlier(u, n) = {} /\ u[n].outcome \in {"delivered", "blocked"}
                         \/ \E m \in Earlier(u, n) :
                              /\ Earlier(u, n) = {m} /\ u[m].outcome = "delivered"
                              /\ u[n].outcome \in Finals \ {"blocked"}
<1>3. ASSUME NEW n \in DOMAIN s
      PROVE  Fine(t, n)
  <2>1. \A m \in 1..(n - 1) : m \in DOMAIN s
    BY <1>2
  <2>2. Earlier(t, n) = Earlier(s, n) /\ t[n] = s[n]
    BY <1>2, <2>1
  <2>3. Fine(s, n)
    BY DEF Once
  <2>4. \A m \in Earlier(s, n) : t[m] = s[m]
    BY <1>2, <2>1
  <2> HIDE DEF Earlier
  <2>5. QED
    BY <2>2, <2>3, <2>4
<1>4. Fine(t, Len(s) + 1)
  <2>1. PICK k : k = Len(s) + 1 /\ k - 1 = Len(s)
    BY <1>2
  <2>2. Earlier(t, k) = {m \in 1..Len(s) : s[m].attempt = e.attempt} /\ t[k] = e
    BY <1>2, <2>1
  <2>3. \A m \in 1..Len(s) : t[m] = s[m]
    BY <1>2
  <2>4. \/ Earlier(t, k) = {} /\ e.outcome \in {"delivered", "blocked"}
        \/ \E m \in Earlier(t, k) :
             /\ Earlier(t, k) = {m} /\ s[m].outcome = "delivered" /\ m \in 1..Len(s)
             /\ e.outcome \in Finals \ {"blocked"}
    BY <2>2
  <2> HIDE DEF Earlier
  <2>5. Fine(t, k)
    BY <2>2, <2>3, <2>4
  <2>6. QED
    BY <2>1, <2>5
<1>5. \A n \in DOMAIN t : Fine(t, n)
  BY <1>2, <1>3, <1>4
<1>6. QED
  BY SMTT(30), <1>1, <1>5 DEF Once

LEMMA LedgerKept ==
  ASSUME Basis, Onward
  PROVE  LedgerInv' /\ PendingInv'
<1> DEFINE Records == [attempt : Attempts, outcome : Outcomes, second : Nat]
           Before(s, d) == \A n \in DOMAIN s : s[n].second <= d
           Given(s, st) == \A n \in DOMAIN s : st[s[n].attempt] = "delivered"
<1>1. /\ ledger \in Seq(Records) /\ elapsed \in Nat
      /\ pending \in Attempts \cup {None} /\ decision \in {"pending"} \cup Finals
      /\ status \in [Items -> ItemStatuses]
      /\ Attempts \subseteq Items
  BY DEF Basis, MfaTypeOK, Items
<1>2. Before(ledger, elapsed) /\ Given(ledger, status) /\ Ordered(ledger) /\ Once(ledger)
  BY DEF Basis, LedgerInv, LedgerInExerciseOrder, ResolvedAtMostOnce, Ordered, Once
<1>3. /\ elapsed' \in Nat /\ elapsed <= elapsed'
      /\ \A i \in Items : status[i] = "delivered" => status'[i] = "delivered"
  BY DEF Onward
<1>4. ASSUME NEW n \in DOMAIN ledger
      PROVE  ledger[n].attempt \in Attempts /\ ledger[n].second \in Nat
  BY EventsAreTyped DEF Basis
<1>5. Before(ledger, elapsed') /\ Given(ledger, status')
  <2>1. ASSUME NEW n \in DOMAIN ledger
        PROVE  ledger[n].second <= elapsed' /\ status'[ledger[n].attempt] = "delivered"
    <3>1. PICK i \in Attempts, d \in Nat : i = ledger[n].attempt /\ d = ledger[n].second
      BY <1>4
    <3>2. d <= elapsed /\ status[i] = "delivered"
      BY <1>2, <3>1
    <3>3. QED
      BY <1>1, <1>3, <3>1, <3>2
  <2>2. QED
    BY <2>1
<1>6. ASSUME Before(ledger', elapsed'), Given(ledger', status'), Ordered(ledger'), Once(ledger')
      PROVE  LedgerInv'
  BY <1>6 DEF LedgerInv, LedgerInExerciseOrder, ResolvedAtMostOnce, Ordered, Once
<1>7. CASE Unanswered
  <2>1. LedgerInv'
    BY <1>2, <1>5, <1>6, <1>7 DEF Unanswered
  <2>2. CASE pending' = None
    BY <2>1, <2>2 DEF PendingInv
  <2>3. CASE pending' # None
    <3>1. /\ pending' = pending /\ decision' = decision /\ state' # "stopped"
          /\ challenge' = challenge /\ ledger' = ledger
      BY <1>7, <2>3 DEF Unanswered
    <3>2. PendingInv'
      BY <2>3, <3>1 DEF Basis, PendingInv, Event
    <3>3. QED
      BY <2>1, <3>2
  <2>4. QED
    BY <2>2, <2>3
<1>8. ASSUME NEW e \in Records, ledger' = Append(ledger, e),
             Before(ledger, e.second), e.second <= elapsed', status'[e.attempt] = "delivered",
             LET earlier == {m \in 1..Len(ledger) : ledger[m].attempt = e.attempt} IN
             \/ earlier = {} /\ e.outcome \in {"delivered", "blocked"}
             \/ \E m \in earlier :
                  /\ earlier = {m} /\ ledger[m].outcome = "delivered"
                  /\ e.outcome \in Finals \ {"blocked"}
      PROVE  LedgerInv'
  <2> HIDE DEF Records
  <2>1. Ordered(ledger') /\ Once(ledger')
    BY <1>1, <1>2, <1>8, StaysOrdered, StaysOnce
  <2>2. /\ DOMAIN ledger' = DOMAIN ledger \cup {Len(ledger) + 1}
        /\ ledger'[Len(ledger) + 1] = e
        /\ \A n \in DOMAIN ledger : ledger'[n] = ledger[n]
    BY <1>1, <1>8, NextEvent
  <2>3. Before(ledger', elapsed') /\ Given(ledger', status')
    BY <1>5, <1>8, <2>2
  <2>4. QED
    BY <1>6, <2>1, <2>3
<1>9. CASE Answered
  <2>1. PICK outcome \in Finals \ {"blocked"}, second \in Nat :
          /\ pending # None /\ Resolved(outcome, second)
          /\ challenge[pending].at <= second /\ second <= elapsed'
    BY <1>9 DEF Answered
  <2>2. PICK e \in Records : e = [attempt |-> pending, outcome |-> outcome, second |-> second]
    BY <1>1, <2>1 DEF Outcomes, Finals, Decisions
  <2>3. e.attempt = pending /\ e.outcome = outcome /\ e.second = second
    BY <2>2
  <2>4. /\ ledger' = Append(ledger, e) /\ pending' = None /\ pending \in Attempts
    BY <1>1, <2>1, <2>2 DEF Resolved, Recorded
  <2>5. PICK k \in DOMAIN ledger :
          /\ k = Len(ledger) /\ ledger[k] = Event(pending, "delivered", challenge[pending].at)
          /\ \A n \in 1..(k - 1) : ledger[n].attempt # pending
    <3>1. /\ ledger # <<>>
          /\ ledger[Len(ledger)] = Event(pending, "delivered", challenge[pending].at)
          /\ \A n \in 1..(Len(ledger) - 1) : ledger[n].attempt # pending
      BY <2>1 DEF Basis, PendingInv
    <3>2. PICK k \in DOMAIN ledger : k = Len(ledger)
      BY <1>1, <3>1
    <3>3. QED
      BY <3>1, <3>2
  <2>6. /\ ledger[k].attempt = pending /\ ledger[k].outcome = "delivered"
        /\ ledger[k].second = challenge[pending].at
    BY <2>5 DEF Event
  <2>7. {m \in 1..Len(ledger) : ledger[m].attempt = e.attempt} = {k}
    BY <1>1, <2>3, <2>5, <2>6
  <2>8. Before(ledger, e.second)
    <3>1. ASSUME NEW n \in DOMAIN ledger
          PROVE  ledger[n].second <= second
      <4>1. ledger[n].second <= ledger[k].second
        <5>1. n = k \/ n < k
          BY <1>1, <2>5
        <5>2. ledger[k].second \in Nat
          BY <1>4
        <5>3. QED
          BY <1>2, <5>1, <5>2 DEF Ordered
      <4>2. ledger[n].second \in Nat /\ ledger[k].second \in Nat
        BY <1>4
      <4>3. QED
        BY <2>1, <2>6, <4>1, <4>2
    <3>2. QED
      BY <2>3, <3>1
  <2>9. status'[e.attempt] = "delivered"
    BY <1>5, <2>3, <2>5, <2>6
  <2>10. LedgerInv'
    <3>1. \E m \in {m \in 1..Len(ledger) : ledger[m].attempt = e.attempt} :
            /\ {n \in 1..Len(ledger) : ledger[n].attempt = e.attempt} = {m}
            /\ ledger[m].outcome = "delivered"
            /\ e.outcome \in Finals \ {"blocked"}
      BY <2>3, <2>6, <2>7
    <3>2. QED
      BY <1>8, <2>1, <2>3, <2>4, <2>8, <2>9, <3>1
  <2>11. QED
    BY <2>4, <2>10 DEF PendingInv
<1>10. ASSUME NEW i \in Attempts, Sent(i)
       PROVE  LedgerInv' /\ PendingInv'
  <2>1. PICK outcome \in {"blocked", "delivered"} :
          outcome = IF Contained THEN "blocked" ELSE "delivered"
    OBVIOUS
  <2>2. /\ Recorded(i, outcome, elapsed) /\ elapsed' = elapsed
        /\ challenge' = [challenge EXCEPT ![i] = [at |-> elapsed, outcome |-> outcome]]
        /\ pending' = IF Contained THEN None ELSE i
        /\ status[i] = "pending" /\ status' = [status EXCEPT ![i] = "delivered"]
        /\ state' = state /\ state = "running"
    BY <1>10, <2>1 DEF Sent
  <2>3. PICK e \in Records : e = [attempt |-> i, outcome |-> outcome, second |-> elapsed]
    BY <1>1 DEF Outcomes, Finals
  <2>4. e.attempt = i /\ e.outcome = outcome /\ e.second = elapsed
    BY <2>3
  <2>5. ledger' = Append(ledger, e)
    BY <2>2, <2>3 DEF Recorded
  <2>6. \A n \in DOMAIN ledger : ledger[n].attempt # i
    BY <1>2, <2>2
  <2>7. status'[e.attempt] = "delivered"
    BY <1>1, <2>2, <2>4
  <2>8. {m \in 1..Len(ledger) : ledger[m].attempt = e.attempt} = {}
    BY <1>1, <2>4, <2>6
  <2>9. LedgerInv'
    <3>1. /\ Before(ledger, e.second) /\ e.second <= elapsed'
          /\ e.outcome \in {"delivered", "blocked"}
      BY <1>1, <1>2, <2>2, <2>4
    <3>2. QED
      BY <1>8, <2>5, <2>7, <2>8, <3>1
  <2>10. PendingInv'
    <3> SUFFICES ASSUME pending' # None PROVE PendingInv'
      BY DEF PendingInv
    <3>1. ~Contained /\ pending' = i /\ outcome = "delivered" /\ decision' = "pending"
      BY <2>1, <2>2 DEF Recorded
    <3>2. challenge'[i].at = elapsed
      BY <2>2 DEF Basis, MfaTypeOK
    <3> HIDE DEF Records
    <3>3. /\ Len(ledger') = Len(ledger) + 1 /\ Len(ledger) \in Nat
          /\ ledger'[Len(ledger) + 1] = e
          /\ \A n \in DOMAIN ledger : ledger'[n] = ledger[n]
          /\ DOMAIN ledger = 1..Len(ledger)
      BY <1>1, <2>5, NextEvent
    <3>4. e = Event(i, "delivered", elapsed)
      BY <2>3, <3>1 DEF Event
    <3>5. \A n \in 1..(Len(ledger') - 1) : ledger'[n].attempt # i
      BY <2>6, <3>3
    <3>6. ledger' # <<>>
      BY <3>3
    <3>7. ledger'[Len(ledger')] = Event(i, "delivered", challenge'[i].at)
      BY <3>2, <3>3, <3>4
    <3>8. QED
      BY <2>2, <3>1, <3>5, <3>6, <3>7 DEF PendingInv, Event
  <2>11. QED
    BY <2>9, <2>10
<1>11. QED
  BY <1>7, <1>9, <1>10 DEF Onward

LEMMA BasisInitially == MfaInit => Basis
<1> SUFFICES ASSUME MfaInit PROVE Basis
  OBVIOUS
<1>1. MfaTypeOK
  <2>1. state \in RunStates /\ elapsed \in Nat /\ gap \in BOOLEAN
    BY DEF MfaInit, RunStates
  <2>2. status \in [Items -> ItemStatuses]
    BY DEF MfaInit, NothingDone, ItemStatuses
  <2>3. [at |-> -1, outcome |-> "none"] \in [at : Nat \cup {-1}, outcome : Outcomes \cup {"none"}]
    OBVIOUS
  <2>4. challenge \in [Attempts -> [at : Nat \cup {-1}, outcome : Outcomes \cup {"none"}]]
    BY <2>3 DEF MfaInit, NothingSent
  <2>5. /\ pending \in Attempts \cup {None}
        /\ decision \in {"pending"} \cup Finals
        /\ containedAt \in Nat \cup {-1}
    BY DEF MfaInit
  <2>6. ledger \in Seq([attempt : Attempts, outcome : Outcomes, second : Nat])
    BY DEF MfaInit
  <2>7. call \in [op : {"idle", "raised", "clock", "item", "deliver"},
                  due : SUBSET Items, target : Nat]
    BY DEF MfaInit, Idle
  <2>8. QED
    BY <2>1, <2>2, <2>4, <2>5, <2>6, <2>7 DEF MfaTypeOK
<1>2. WalkInv
  BY ScheduleFacts DEF MfaInit, WalkInv, Idle, Quiet
<1>3. LedgerInv /\ PendingInv
  BY DEF MfaInit, LedgerInv, LedgerInExerciseOrder, ResolvedAtMostOnce, PendingInv
<1>4. QED
  BY <1>1, <1>2, <1>3 DEF Basis

LEMMA BasisKept ==
  ASSUME Basis, [MfaNext]_runVars
  PROVE  Basis'
<1>1. CASE UNCHANGED runVars
  <2>1. /\ UNCHANGED <<state, elapsed, status, containedAt, gap, call>>
        /\ UNCHANGED <<challenge, pending, decision, ledger>>
    BY <1>1 DEF runVars, playVars, mfaVars
  <2>2. MfaTypeOK' /\ WalkInv'
    BY <2>1 DEF Basis, MfaTypeOK, WalkInv, Quiet, IsFirst
  <2>3. LedgerInv' /\ PendingInv'
    BY <2>1 DEF Basis, LedgerInv, LedgerInExerciseOrder, ResolvedAtMostOnce, PendingInv, Event
  <2>4. QED
    BY <2>2, <2>3 DEF Basis
<1>2. CASE MfaNext
  <2>1. /\ Onward /\ WalkInv' /\ call' \in CallTypes
        /\ state' \in RunStates /\ gap' \in BOOLEAN
        /\ containedAt' \in {containedAt, elapsed}
    BY <1>2, ItemStepShape, ClockStepShape, OthersShape
       DEF MfaNext, CallStep, Others, CallTypes
  <2>2. /\ challenge' \in [Attempts -> [at : Nat \cup {-1}, outcome : Outcomes \cup {"none"}]]
        /\ pending' \in Attempts \cup {None}
        /\ decision' \in {"pending"} \cup Finals
        /\ ledger' \in Seq([attempt : Attempts, outcome : Outcomes, second : Nat])
    BY <2>1, ShapeTypes
  <2>3. elapsed' \in Nat /\ status' \in [Items -> ItemStatuses]
        /\ containedAt' \in Nat \cup {-1}
    BY <2>1 DEF Onward, Basis, MfaTypeOK
  <2>4. MfaTypeOK'
    BY <2>1, <2>2, <2>3 DEF MfaTypeOK, CallTypes
  <2>5. LedgerInv' /\ PendingInv'
    BY <2>1, LedgerKept
  <2>6. QED
    BY <2>1, <2>4, <2>5 DEF Basis
<1>3. QED
  BY <1>1, <1>2

LEMMA Foundation == MfaSpec => []Basis
<1>1. MfaInit => Basis
  BY BasisInitially
<1>2. Basis /\ [MfaNext]_runVars => Basis'
  BY BasisKept
<1>3. QED
  BY <1>1, <1>2, PTL DEF MfaSpec

(***************************************************************************)
(* The history, the ledger and the walk of advance_to keep their types     *)
(* through every handler of orchestrator/mfa.py, refused events included.  *)
(***************************************************************************)
THEOREM MfaTypes == MfaSpec => []MfaTypeOK
<1>1. Basis => MfaTypeOK
  BY DEF Basis
<1>2. QED
  BY <1>1, Foundation, PTL

(***************************************************************************)
(* ScheduledMfa._record after deliver, decide, advance or cancel: whatever *)
(* events are refused and retried, an attempt is delivered or blocked once *)
(* and resolved at most once, after its delivery.                          *)
(***************************************************************************)
THEOREM ResolutionsAreUnique == MfaSpec => []ResolvedAtMostOnce
<1>1. Basis => ResolvedAtMostOnce
  BY DEF Basis, LedgerInv
<1>2. QED
  BY <1>1, Foundation, PTL

(***************************************************************************)
(* advance() dates an expiry back to its deadline; the ledger nevertheless *)
(* never goes back in exercise time.                                       *)
(***************************************************************************)
THEOREM LedgerKeepsTime == MfaSpec => []LedgerInExerciseOrder
<1>1. Basis => LedgerInExerciseOrder
  BY DEF Basis, LedgerInv
<1>2. QED
  BY <1>1, Foundation, PTL

(***************************************************************************)
(* ScheduledMfa.pending: a pending challenge was delivered, has no other   *)
(* event, is undecided in the identity's record and belongs to a run that  *)
(* was not stopped.                                                        *)
(***************************************************************************)
THEOREM PendingHasNoAnswer == MfaSpec => []PendingIsUnanswered
<1>1. ASSUME Basis, pending # None
      PROVE  \E n \in DOMAIN ledger :
               /\ ledger[n] = Event(pending, "delivered", challenge[pending].at)
               /\ \A m \in DOMAIN ledger : ledger[m].attempt = pending => m = n
  <2>1. /\ ledger # <<>>
        /\ ledger[Len(ledger)] = Event(pending, "delivered", challenge[pending].at)
        /\ \A n \in 1..(Len(ledger) - 1) : ledger[n].attempt # pending
    BY <1>1 DEF Basis, PendingInv
  <2>2. DOMAIN ledger = 1..Len(ledger) /\ Len(ledger) \in Nat \ {0}
    BY <1>1, <2>1 DEF Basis, MfaTypeOK
  <2>3. Len(ledger) \in DOMAIN ledger
    BY <2>2
  <2>4. \A m \in DOMAIN ledger : ledger[m].attempt = pending => m = Len(ledger)
    BY <2>1, <2>2
  <2>5. QED
    BY <2>1, <2>3, <2>4
<1>2. Basis => PendingIsUnanswered
  BY <1>1 DEF PendingIsUnanswered, Basis, PendingInv
<1>3. QED
  BY <1>2, Foundation, PTL

-------------------------------------------------------------------------------
(***************************************************************************)
(* The human decisions.                                                    *)
(***************************************************************************)

\* A step that stores nothing, or an event that is no answer of a person.
NoDecision ==
  \/ ledger' = ledger
  \/ \E i \in Attempts, outcome \in Outcomes \ Decisions, second \in Nat :
       Recorded(i, outcome, second)

LEMMA LatestEvent ==
  ASSUME MfaTypeOK, NEW i \in Attempts, NEW outcome \in Outcomes, NEW second \in Nat,
         Recorded(i, outcome, second)
  PROVE  ledger'[Len(ledger')] = Event(i, outcome, second)
<1> DEFINE R == [attempt : Attempts, outcome : Outcomes, second : Nat]
<1>1. ledger \in Seq(R)
  BY DEF MfaTypeOK
<1>2. Event(i, outcome, second) \in R
  BY DEF Event
<1>3. ledger' = Append(ledger, Event(i, outcome, second))
  BY DEF Recorded, Event
<1> HIDE DEF R
<1>4. QED
  BY <1>1, <1>2, <1>3, NextEvent

LEMMA NoDecisionStored ==
  ASSUME MfaTypeOK, NoDecision, Len(ledger') > Len(ledger)
  PROVE  ledger'[Len(ledger')].outcome \notin Decisions
<1>1. Len(ledger) \in Nat
  BY DEF MfaTypeOK
<1>2. ledger' # ledger
  BY <1>1
<1>3. PICK i \in Attempts, outcome \in Outcomes \ Decisions, second \in Nat :
        Recorded(i, outcome, second)
  BY <1>2 DEF NoDecision
<1>4. ledger'[Len(ledger')] = Event(i, outcome, second)
  BY <1>3, LatestEvent
<1>5. QED
  BY <1>4 DEF Event

LEMMA AdvanceDecidesNothing ==
  ASSUME Basis, NEW now \in Nat, NEW stored, MfaAdvance(now, stored)
  PROVE  NoDecision
<1>1. CASE Overdue(now) /\ stored
  <2>1. pending \in Attempts /\ Until(pending) \in Nat
    BY <1>1, PendingIsSent DEF Basis, Overdue
  <2>2. PICK second \in Nat : second = Until(pending)
    BY <2>1
  <2>3. Resolved("cancelled", now) \/ Resolved("expired", second)
    BY <1>1, <2>2 DEF MfaAdvance
  <2>4. {"cancelled", "expired"} \subseteq Outcomes \ Decisions
    BY DEF Outcomes, Finals, Decisions
  <2>5. QED
    BY <2>1, <2>3, <2>4 DEF NoDecision, Resolved
<1>2. CASE ~(Overdue(now) /\ stored)
  BY <1>2 DEF MfaAdvance, NoDecision
<1>3. QED
  BY <1>1, <1>2

LEMMA OnlyDecideDecides ==
  ASSUME Basis, MfaNext
  PROVE  \/ NoDecision
         \/ \E i \in Attempts, answer \in Answers :
              /\ state = "running" /\ ~Overdue(elapsed) /\ pending = i
              /\ Resolved(answer, elapsed)
<1>1. elapsed \in Nat /\ pending \in Attempts \cup {None}
  BY DEF Basis, MfaTypeOK
<1>2. ASSUME pending # None, Resolved("cancelled", elapsed)
      PROVE  NoDecision
  BY <1>1, <1>2 DEF Resolved, NoDecision, Outcomes, Finals, Decisions
<1>3. CASE ClockStep
  <2>1. PICK now \in {call.target} \cup {At(i) : i \in call.due}, stored \in SinkOutcomes :
          MfaAdvance(now, stored)
    BY <1>3 DEF ClockStep
  <2>2. now \in Nat
    BY <2>1, ScheduleFacts DEF Basis, MfaTypeOK
  <2>3. QED
    BY <2>1, <2>2, AdvanceDecidesNothing
<1>4. CASE ItemStep
  <2>1. PICK i, rest : i \in call.due /\ DeliverItem(i, rest)
    BY <1>4 DEF ItemStep
  <2>2. i \in Items
    BY <2>1 DEF Basis, MfaTypeOK
  <2>3. CASE i # End /\ SendChallenge(i, rest)
    <3>1. PICK outcome \in {"blocked", "delivered"} : Recorded(i, outcome, elapsed)
      BY <2>3 DEF SendChallenge
    <3>2. outcome \in Outcomes \ Decisions
      BY DEF Outcomes, Finals, Decisions
    <3>3. QED
      BY <1>1, <2>2, <2>3, <3>1, <3>2 DEF NoDecision, Items
  <2>4. CASE ~(i # End /\ SendChallenge(i, rest))
    BY <2>1, <2>4 DEF DeliverItem, DeliverEnd, RefuseChallenge, LoseChallenge, mfaVars,
       NoDecision
  <2>5. QED
    BY <2>3, <2>4
<1>5. CASE \/ \E stored \in SinkOutcomes :
                StartPlay(stored) \/ PausePlay(stored) \/ ResumePlay(stored)
           \/ \E t \in 0..Horizon : AdvanceTo(t)
           \/ \E i \in Items : Skip(i)
           \/ SignInDecision
  BY <1>5 DEF StartPlay, PausePlay, ResumePlay, Transition, AdvanceTo, Skip,
     SignInDecision, mfaVars, NoDecision
<1>6. ASSUME NEW i \in Items, Deliver(i)
      PROVE  NoDecision
  <2>1. UNCHANGED mfaVars \/ \E stored \in SinkOutcomes : MfaAdvance(elapsed, stored)
    BY <1>6 DEF Deliver
  <2>2. QED
    BY <1>1, <2>1, AdvanceDecidesNothing DEF mfaVars, NoDecision
<1>7. ASSUME NEW i \in Attempts, NEW answer \in Answers, Decide(i, answer)
      PROVE  NoDecision \/ /\ state = "running" /\ ~Overdue(elapsed) /\ pending = i
                           /\ Resolved(answer, elapsed)
  <2>1. \/ \E stored \in SinkOutcomes : MfaAdvance(elapsed, stored)
        \/ ledger' = ledger
        \/ /\ state = "running" /\ ~Overdue(elapsed) /\ pending = i
           /\ Resolved(answer, elapsed)
    BY <1>7 DEF Decide
  <2>2. QED
    BY <1>1, <2>1, AdvanceDecidesNothing DEF NoDecision
<1>8. CASE Contain
  BY <1>2, <1>8 DEF Contain, mfaVars, NoDecision
<1>9. CASE OtherAction
  <2>1. UNCHANGED mfaVars \/ \E stored \in SinkOutcomes : MfaAdvance(elapsed, stored)
    BY <1>9 DEF OtherAction
  <2>2. QED
    BY <1>1, <2>1, AdvanceDecidesNothing DEF mfaVars, NoDecision
<1>10. CASE Stop
  BY <1>2, <1>10 DEF Stop, StopRun, NoDecision
<1>11. QED
  BY <1>3, <1>4, <1>5, <1>6, <1>7, <1>8, <1>9, <1>10 DEF MfaNext, CallStep

(***************************************************************************)
(* ScheduledMfa.decide calls advance() before it looks at the answer: an   *)
(* answer enters the ledger in running play only, for the pending          *)
(* challenge, before its deadline and before any containment.              *)
(***************************************************************************)
THEOREM DecisionsComeInTime == MfaSpec => DecisionsInTime
<1> DEFINE InTime == Len(ledger') > Len(ledger) /\ ledger'[Len(ledger')].outcome \in Decisions =>
              /\ state = "running" /\ ~Contained
              /\ pending = ledger'[Len(ledger')].attempt
              /\ elapsed < Until(pending)
<1>1. ASSUME Basis, MfaNext PROVE InTime
  <2>1. CASE NoDecision
    BY <1>1, <2>1, NoDecisionStored DEF Basis
  <2>2. ASSUME NEW i \in Attempts, NEW answer \in Answers, state = "running",
               ~Overdue(elapsed), pending = i, Resolved(answer, elapsed)
        PROVE  InTime
    <3>1. pending # None /\ elapsed \in Nat /\ answer \in Outcomes
      BY <1>1, <2>2, ScheduleFacts, AnswersAssumption DEF Basis, MfaTypeOK, Outcomes, Finals
    <3>2. Until(pending) \in Nat
      BY <1>1, <3>1, PendingIsSent DEF Basis
    <3>3. ledger'[Len(ledger')] = Event(i, answer, elapsed)
      BY <1>1, <2>2, <3>1, LatestEvent DEF Basis, Resolved
    <3>4. ~Contained /\ elapsed < Until(pending)
      BY <2>2, <3>1, <3>2 DEF Overdue
    <3>5. QED
      BY <2>2, <3>3, <3>4 DEF Event
  <2>3. QED
    BY <1>1, <2>1, <2>2, OnlyDecideDecides
<1>2. ASSUME Basis, UNCHANGED runVars PROVE InTime
  <2>1. ledger' = ledger /\ Len(ledger) \in Nat
    BY <1>2 DEF runVars, playVars, mfaVars, Basis, MfaTypeOK
  <2>2. QED
    BY <2>1
<1>3. Basis /\ [MfaNext]_runVars => [InTime]_runVars
  BY <1>1, <1>2
<1>4. QED
  BY <1>3, Foundation, PTL DEF MfaSpec, DecisionsInTime

-------------------------------------------------------------------------------
(***************************************************************************)
(* The logical schedule.  A run that lost no event does one of these with  *)
(* the challenges in a step.                                               *)
(***************************************************************************)

NothingNew ==
  \A j \in Attempts : status'[j] = "delivered" => status[j] = "delivered"

Waits ==
  /\ UNCHANGED <<challenge, pending, ledger, containedAt>>
  /\ ~Overdue(elapsed') /\ NothingNew

Expires ==
  /\ ~Contained /\ pending # None /\ Until(pending) <= elapsed'
  /\ Resolved("expired", Until(pending))
  /\ UNCHANGED containedAt /\ NothingNew

IsAnswered ==
  /\ pending # None /\ \E answer \in Decisions : Resolved(answer, elapsed)
  /\ UNCHANGED <<elapsed, containedAt>> /\ NothingNew

IsContained ==
  /\ ~Contained /\ containedAt' = elapsed
  /\ \/ pending = None /\ UNCHANGED <<challenge, pending, ledger>>
     \/ pending # None /\ Resolved("cancelled", elapsed)
  /\ UNCHANGED elapsed /\ NothingNew

Sends == UNCHANGED containedAt /\ \E i \in Attempts : Sent(i)

Stops ==
  /\ state' = "stopped" /\ pending' = None
  /\ challenge' = challenge \/ (pending # None /\ Resolved("cancelled", elapsed))
  /\ UNCHANGED <<elapsed, containedAt>>

Timely ==
  /\ state' # "stopped" => state # "stopped"
  /\ Waits \/ Expires \/ IsAnswered \/ IsContained \/ Sends \/ Stops

\* Between two moves of the clock nothing is overdue.
LEMMA NothingOverdue ==
  ASSUME Basis, ScheduleInv, ~gap
  PROVE  ~Overdue(elapsed)
<1>1. pending # None => Until(pending) \in Nat
  BY PendingIsSent DEF Basis
<1>2. elapsed \in Nat
  BY DEF Basis, MfaTypeOK
<1>3. QED
  BY <1>1, <1>2 DEF ScheduleInv, Overdue

LEMMA StandsStill ==
  ASSUME Basis, ScheduleInv, ~gap, NothingNew,
         UNCHANGED mfaVars, UNCHANGED <<elapsed, containedAt>>
  PROVE  Waits
<1>1. pending' = pending /\ challenge' = challenge /\ ledger' = ledger
  BY DEF mfaVars
<1>2. ~Overdue(elapsed')
  BY <1>1, NothingOverdue DEF Overdue, Contained, Until
<1>3. QED
  BY <1>1, <1>2 DEF Waits

LEMMA ClockIsTimely ==
  ASSUME Basis, ScheduleInv, ClockStep, ~gap'
  PROVE  ~gap /\ Timely
<1>1. PICK now \in {call.target} \cup {At(i) : i \in call.due}, stored \in SinkOutcomes :
        elapsed' = now /\ MfaAdvance(now, stored)
  BY Zenon DEF ClockStep
<1>2. UNCHANGED <<state, status, containedAt>>
  BY DEF ClockStep
<1>3. ~gap /\ stored
  BY <1>1 DEF MfaAdvance
<1>4. CASE Overdue(now)
  <2>1. pending # None /\ ~Contained
    BY <1>3, <1>4 DEF ScheduleInv, Overdue
  <2>2. Until(pending) <= elapsed' /\ Resolved("expired", Until(pending))
    BY <1>1, <1>3, <1>4, <2>1 DEF MfaAdvance, Overdue
  <2>3. QED
    BY <1>2, <1>3, <2>1, <2>2 DEF Timely, Expires, NothingNew
<1>5. CASE ~Overdue(now)
  <2>1. UNCHANGED <<challenge, pending, decision, ledger>>
    BY <1>1, <1>5 DEF MfaAdvance
  <2>2. ~Overdue(elapsed')
    BY <1>1, <1>5
  <2>3. QED
    BY <1>2, <1>3, <2>1, <2>2 DEF Timely, Waits, NothingNew
<1>6. QED
  BY <1>4, <1>5

LEMMA ItemIsTimely ==
  ASSUME Basis, ScheduleInv, ItemStep, ~gap'
  PROVE  ~gap /\ Timely
<1>1. PICK i, rest : i \in call.due /\ IsFirst(i, call.due) /\ DeliverItem(i, rest)
  BY DEF ItemStep
<1>2. call.op \in {"item", "deliver"} /\ UNCHANGED <<elapsed, containedAt>>
  BY DEF ItemStep
<1>3. i \in Items /\ status[i] = "pending" /\ state # "stopped"
  BY <1>1, <1>2 DEF Basis, WalkInv, MfaTypeOK, Quiet
<1>4. ~gap
  BY <1>1 DEF DeliverItem, DeliverEnd, RefuseChallenge, SendChallenge, LoseChallenge
<1>5. status \in [Items -> ItemStatuses]
  BY DEF Basis, MfaTypeOK
<1>6. CASE i = End /\ DeliverEnd(rest)
  <2>1. status' = [status EXCEPT ![End] = "delivered"] /\ UNCHANGED mfaVars
    BY <1>6 DEF DeliverEnd, ItemEvent
  <2>2. NothingNew
    BY <1>5, <2>1, ScheduleFacts DEF NothingNew, Items
  <2>3. QED
    BY <1>2, <1>3, <1>4, <2>1, <2>2, StandsStill DEF Timely
<1>7. CASE i # End /\ RefuseChallenge(i, rest)
  <2>1. status' = [status EXCEPT ![i] = "failed"] /\ UNCHANGED mfaVars
    BY <1>7 DEF RefuseChallenge, ItemEvent
  <2>2. NothingNew
    BY <1>5, <2>1 DEF NothingNew, Items
  <2>3. QED
    BY <1>2, <1>3, <1>4, <2>1, <2>2, StandsStill DEF Timely
<1>8. CASE i # End /\ SendChallenge(i, rest)
  <2>1. status' = [status EXCEPT ![i] = "delivered"]
    BY <1>8 DEF SendChallenge, ItemEvent
  <2>2. i \in Attempts
    BY <1>3, <1>8 DEF Items
  <2>3. Sent(i)
    BY <1>2, <1>3, <1>8, <2>1 DEF SendChallenge, Sent
  <2>4. QED
    BY <1>2, <1>3, <1>4, <2>2, <2>3 DEF Timely, Sends
<1>9. CASE i # End /\ LoseChallenge(i, rest)
  BY <1>9 DEF LoseChallenge
<1>10. QED
  BY <1>1, <1>6, <1>7, <1>8, <1>9 DEF DeliverItem

LEMMA OthersAreTimely ==
  ASSUME Basis, ScheduleInv, Others, ~gap'
  PROVE  ~gap /\ Timely
<1>1. status \in [Items -> ItemStatuses]
  BY DEF Basis, MfaTypeOK
<1>2. CASE \/ \E stored \in SinkOutcomes :
                StartPlay(stored) \/ PausePlay(stored) \/ ResumePlay(stored)
           \/ \E t \in 0..Horizon : AdvanceTo(t)
  <2>1. UNCHANGED <<elapsed, status, containedAt>> /\ state # "stopped"
    BY <1>2 DEF StartPlay, PausePlay, ResumePlay, Transition, AdvanceTo
  <2>2. UNCHANGED mfaVars
    BY <1>2 DEF StartPlay, PausePlay, ResumePlay, Transition, AdvanceTo
  <2>3. ~gap
    BY <1>2 DEF StartPlay, PausePlay, ResumePlay, AdvanceTo
  <2>4. QED
    BY <2>1, <2>2, <2>3, StandsStill DEF Timely, NothingNew
<1>3. ASSUME NEW i \in Items, Deliver(i)
      PROVE  ~gap /\ Timely
  <2>1. /\ UNCHANGED <<state, elapsed, containedAt>> /\ state # "stopped"
        /\ status' = status \/ status' = [status EXCEPT ![i] = "failed"]
    BY <1>3 DEF Deliver, ItemEvent, Live
  <2>2. ~gap
    BY <1>3 DEF Deliver, MfaAdvance
  <2>3. UNCHANGED mfaVars
    BY <1>3, <2>2, NothingOverdue DEF Deliver
  <2>4. NothingNew
    BY <1>1, <2>1 DEF NothingNew, Items
  <2>5. QED
    BY <2>1, <2>2, <2>3, <2>4, StandsStill DEF Timely
<1>4. ASSUME NEW i \in Items, Skip(i)
      PROVE  ~gap /\ Timely
  <2>1. /\ UNCHANGED <<elapsed, containedAt>> /\ UNCHANGED mfaVars
        /\ state # "stopped" /\ ~gap
        /\ status' = [status EXCEPT ![i] = "skipped"]
    BY <1>4 DEF Skip, ItemEvent, Live
  <2>2. NothingNew
    BY <1>1, <2>1 DEF NothingNew, Items
  <2>3. QED
    BY <2>1, <2>2, StandsStill DEF Timely
<1>5. ASSUME NEW i \in Attempts, NEW answer \in Answers, Decide(i, answer)
      PROVE  ~gap /\ Timely
  <2>1. UNCHANGED <<state, elapsed, status, containedAt>> /\ state # "stopped"
    BY <1>5 DEF Decide
  <2>2. ~gap
    BY <1>5 DEF Decide, MfaAdvance
  <2>3. i # None /\ answer \in Decisions
    BY ScheduleFacts, AnswersAssumption
  <2>4. CASE pending = i /\ Resolved(answer, elapsed)
    BY <2>1, <2>2, <2>3, <2>4 DEF Timely, IsAnswered, NothingNew
  <2>5. CASE UNCHANGED mfaVars
    BY <2>1, <2>2, <2>5, StandsStill DEF Timely, NothingNew
  <2>6. QED
    BY <1>5, <2>2, <2>4, <2>5, NothingOverdue DEF Decide, mfaVars
<1>6. CASE Contain
  <2>1. /\ ~Contained /\ containedAt' = elapsed /\ state # "stopped"
        /\ UNCHANGED <<elapsed, status>>
    BY <1>6 DEF Contain
  <2>2. NothingNew
    BY <2>1 DEF NothingNew
  <2>3. ~gap
    BY <1>6 DEF Contain
  <2>4. \/ pending = None /\ UNCHANGED <<challenge, pending, ledger>>
        \/ pending # None /\ Resolved("cancelled", elapsed)
    BY <1>6 DEF Contain, mfaVars
  <2>5. QED
    BY <2>1, <2>4, <2>2, <2>3 DEF Timely, IsContained
<1>7. CASE OtherAction
  <2>1. FALSE
    BY <1>7, NothingOverdue DEF OtherAction, MfaAdvance
  <2>2. QED
    BY <2>1
<1>8. CASE SignInDecision
  <2>1. /\ UNCHANGED <<state, elapsed, status, challenge, pending, containedAt, ledger>>
        /\ state # "stopped" /\ ~gap
    BY <1>8 DEF SignInDecision
  <2>2. pending = None
    BY <1>8 DEF SignInDecision
  <2>3. QED
    BY <2>1, <2>2 DEF Timely, Waits, NothingNew, Overdue
<1>9. CASE Stop
  <2>1. PICK s1 \in SinkOutcomes, s2 \in SinkOutcomes :
          StopRun(s1, s2)
    BY <1>9 DEF Stop
  <2>2. ~gap
    BY <1>9 DEF Stop
  <2>3. Stops
    BY <2>1 DEF StopRun, Stops, Resolved
  <2>4. state' = "stopped"
    BY <2>1 DEF StopRun
  <2>5. QED
    BY <2>2, <2>3, <2>4 DEF Timely
<1>10. QED
  BY <1>2, <1>3, <1>4, <1>5, <1>6, <1>7, <1>8, <1>9 DEF Others

LEMMA NextIsTimely ==
  ASSUME Basis, ScheduleInv, MfaNext, ~gap'
  PROVE  ~gap /\ Timely
BY ClockIsTimely, ItemIsTimely, OthersAreTimely DEF MfaNext, CallStep, Others

(***************************************************************************)
(* The events of an attempt.                                               *)
(***************************************************************************)

LEMMA EventsGrow ==
  ASSUME MfaTypeOK, NEW i \in Attempts, NEW outcome \in Outcomes, NEW second \in Nat,
         Recorded(i, outcome, second), NEW j \in Attempts
  PROVE  Of(j)' = Of(j) \cup (IF i = j THEN {Event(i, outcome, second)} ELSE {})
<1> DEFINE R == [attempt : Attempts, outcome : Outcomes, second : Nat]
<1>1. ledger \in Seq(R)
  BY DEF MfaTypeOK
<1>2. PICK e \in R : e = Event(i, outcome, second)
  BY DEF Event
<1>3. ledger' = Append(ledger, e) /\ e.attempt = i
  BY <1>2 DEF Recorded, Event
<1> HIDE DEF R
<1>4. /\ DOMAIN ledger' = DOMAIN ledger \cup {Len(ledger) + 1}
      /\ Len(ledger) + 1 \notin DOMAIN ledger
      /\ ledger'[Len(ledger) + 1] = e
      /\ \A n \in DOMAIN ledger : ledger'[n] = ledger[n]
  <2>1. /\ DOMAIN ledger' = DOMAIN ledger \cup {Len(ledger) + 1}
        /\ DOMAIN ledger = 1..Len(ledger) /\ Len(ledger) \in Nat
        /\ ledger'[Len(ledger) + 1] = e
        /\ \A n \in DOMAIN ledger : ledger'[n] = ledger[n]
    BY <1>1, <1>2, <1>3, NextEvent
  <2>2. Len(ledger) + 1 \notin DOMAIN ledger
    BY <2>1
  <2>3. QED
    BY <2>1, <2>2
<1>5. PICK k : k = Len(ledger) + 1
  OBVIOUS
<1>6. ASSUME NEW x
      PROVE  x \in Of(j)' <=> x \in Of(j) \/ (i = j /\ x = e)
  BY <1>3, <1>4, <1>5 DEF Of
<1>7. QED
  BY <1>2, <1>6

LEMMA PendingHasOneEvent ==
  ASSUME Basis, NEW p \in Attempts, p = pending
  PROVE  Of(p) = {Event(p, "delivered", challenge[p].at)}
<1>1. /\ p # None /\ ledger # <<>>
      /\ ledger[Len(ledger)] = Event(p, "delivered", challenge[p].at)
      /\ \A n \in 1..(Len(ledger) - 1) : ledger[n].attempt # p
  BY ScheduleFacts DEF Basis, PendingInv
<1>2. DOMAIN ledger = 1..Len(ledger) /\ Len(ledger) \in Nat \ {0}
  BY <1>1 DEF Basis, MfaTypeOK
<1>3. ledger[Len(ledger)].attempt = p
  BY <1>1 DEF Event
<1>4. {m \in DOMAIN ledger : ledger[m].attempt = p} = {Len(ledger)}
  BY <1>1, <1>2, <1>3
<1>5. QED
  BY <1>1, <1>4 DEF Of

LEMMA ResolutionOfPending ==
  ASSUME Basis, NEW p \in Attempts, p = pending, NEW outcome \in Finals \ {"blocked"},
         NEW second \in Nat, Resolved(outcome, second)
  PROVE  /\ pending' = None
         /\ \A j \in Attempts : challenge'[j].at = challenge[j].at
         /\ \A j \in Attempts \ {p} : Of(j)' = Of(j)
         /\ Of(p)' = {Event(p, "delivered", challenge[p].at), Event(p, outcome, second)}
<1>1. /\ pending' = None /\ Recorded(p, outcome, second) /\ outcome \in Outcomes
      /\ challenge' = [challenge EXCEPT ![p].outcome = outcome]
  BY DEF Resolved, Outcomes
<1>2. \A j \in Attempts : challenge'[j].at = challenge[j].at
  BY <1>1 DEF Basis, MfaTypeOK
<1>3. ASSUME NEW j \in Attempts \ {p}
      PROVE  Of(j)' = Of(j)
  <2>1. Of(j)' = Of(j) \cup (IF p = j THEN {Event(p, outcome, second)} ELSE {})
    BY <1>1, EventsGrow DEF Basis
  <2>2. QED
    BY <2>1
<1>4. Of(p)' = Of(p) \cup {Event(p, outcome, second)}
  BY <1>1, EventsGrow DEF Basis
<1>5. QED
  BY <1>1, <1>2, <1>3, <1>4, PendingHasOneEvent

\* A step that does not concern an attempt.
LEMMA AttemptKept ==
  ASSUME Basis, ScheduleInv, ~gap, NEW i \in Attempts, AttemptInv(i),
         Of(i)' = Of(i), challenge'[i].at = challenge[i].at,
         pending = i => pending' = i, elapsed' \in Nat, elapsed <= elapsed',
         \/ containedAt' = containedAt
         \/ ~Contained /\ containedAt' = elapsed
  PROVE  AttemptInv(i)'
<1>1. /\ elapsed \in Nat /\ containedAt \in Nat \cup {-1}
      /\ challenge[i].at \in Nat \cup {-1} /\ challenge[i].at <= elapsed
      /\ At(i) \in Nat /\ Timeout \in Nat
  BY ScheduleFacts, TimeAssumption DEF Basis, MfaTypeOK, ScheduleInv, Items
<1>2. PICK at : at = challenge[i].at
  OBVIOUS
<1>3. challenge'[i].at = at /\ Contained' = (containedAt' # -1)
  BY <1>2 DEF Contained
<1>4. Contained => containedAt' = containedAt /\ Contained'
  BY <1>3 DEF Contained
<1> DEFINE sent == Event(i, "delivered", at)
<1>5. CASE Of(i) = {Event(i, "blocked", at)} /\ Contained /\ (at = At(i) => containedAt < at)
  BY <1>3, <1>4, <1>5 DEF AttemptInv
<1>6. CASE Of(i) = {sent} /\ pending = i
  BY <1>3, <1>6 DEF AttemptInv
<1>7. CASE /\ \E answer \in Decisions, second \in 0..elapsed :
                Of(i) = {sent, Event(i, answer, second)}
           /\ Contained => at <= containedAt
  <2>1. PICK answer \in Decisions, second \in 0..elapsed :
          Of(i)' = {sent, Event(i, answer, second)}
    BY <1>7
  <2>2. second \in 0..elapsed'
    BY <1>1
  <2>3. Contained' => at <= containedAt'
    BY <1>1, <1>2, <1>3, <1>4, <1>7 DEF Contained
  <2>4. QED
    BY <1>3, <2>1, <2>2, <2>3 DEF AttemptInv
<1>8. CASE /\ Of(i) = {sent, Event(i, "cancelled", containedAt)}
           /\ Contained /\ at <= containedAt /\ containedAt < at + Timeout
  BY <1>3, <1>4, <1>8 DEF AttemptInv
<1>9. CASE /\ Of(i) = {sent, Event(i, "expired", at + Timeout)}
           /\ at + Timeout <= elapsed
           /\ Contained => at + Timeout <= containedAt
  <2>1. at + Timeout <= elapsed'
    BY <1>1, <1>2, <1>9
  <2>2. Contained' => at + Timeout <= containedAt'
    BY <1>1, <1>2, <1>3, <1>4, <1>9 DEF Contained
  <2>3. QED
    BY <1>3, <1>9, <2>1, <2>2 DEF AttemptInv
<1>10. QED
  BY <1>2, <1>5, <1>6, <1>7, <1>8, <1>9 DEF AttemptInv

(***************************************************************************)
(* What a step without a loss makes of the attempts that were delivered.   *)
(***************************************************************************)

OutcomesInv ==
  /\ Contained => containedAt <= elapsed
  /\ pending # None => ~Contained /\ elapsed < Until(pending)
  /\ \A i \in Attempts : challenge[i].at <= elapsed
  /\ state # "stopped" =>
       \A i \in Attempts : status[i] = "delivered" => AttemptInv(i)

LEMMA NextIsOnward ==
  ASSUME Basis, MfaNext
  PROVE  Onward
BY ItemStepShape, ClockStepShape, OthersShape DEF MfaNext, CallStep, Others

LEMMA TimesAreNumbers ==
  ASSUME Basis
  PROVE  /\ elapsed \in Nat /\ containedAt \in Nat \cup {-1} /\ Timeout \in Nat \ {0}
         /\ \A i \in Attempts : challenge[i].at \in Nat \cup {-1} /\ At(i) \in Nat
BY ScheduleFacts, TimeAssumption DEF Basis, MfaTypeOK, Items

\* The pending challenge is resolved; the other attempts are left alone.
LEMMA AttemptsKeptByResolution ==
  ASSUME Basis, ScheduleInv, ~gap, state # "stopped", elapsed' \in Nat, elapsed <= elapsed',
         NothingNew, \/ containedAt' = containedAt
                     \/ ~Contained /\ containedAt' = elapsed,
         NEW p \in Attempts, p = pending, NEW outcome \in Finals \ {"blocked"},
         NEW second \in Nat, Resolved(outcome, second),
         AttemptInv(p)'
  PROVE  \A i \in Attempts : status'[i] = "delivered" => AttemptInv(i)'
<1> SUFFICES ASSUME NEW i \in Attempts, status'[i] = "delivered", i # p
             PROVE  AttemptInv(i)'
  OBVIOUS
<1>1. AttemptInv(i)
  BY DEF NothingNew, ScheduleInv
<1>2. /\ Of(i)' = Of(i) /\ challenge'[i].at = challenge[i].at
      /\ pending # i
  BY ResolutionOfPending
<1>3. QED
  BY <1>1, <1>2, AttemptKept

LEMMA OutcomesKept ==
  ASSUME Basis, ScheduleInv, ~gap, Timely, Onward, Basis'
  PROVE  OutcomesInv'
<1>1. /\ elapsed' \in Nat /\ elapsed <= elapsed'
      /\ state' # "stopped" => state # "stopped"
  BY DEF Onward, Timely
<1>2. /\ elapsed \in Nat /\ containedAt \in Nat \cup {-1} /\ Timeout \in Nat \ {0}
      /\ \A i \in Attempts : challenge[i].at \in Nat \cup {-1} /\ At(i) \in Nat
  BY TimesAreNumbers
<1>3. /\ Contained => containedAt <= elapsed
      /\ pending # None => ~Contained /\ elapsed < Until(pending)
      /\ \A i \in Attempts : challenge[i].at <= elapsed
      /\ state # "stopped" =>
           \A i \in Attempts : status[i] = "delivered" => AttemptInv(i)
      /\ \A i \in Attempts : status[i] = "pending" /\ Contained => containedAt < At(i)
  BY DEF ScheduleInv
<1>4. pending # None => /\ pending \in Attempts /\ Until(pending) \in Nat
                        /\ challenge[pending].at \in Nat /\ challenge[pending].at <= elapsed
  BY PendingIsSent DEF Basis
<1>5. CASE Waits
  <2>1. /\ UNCHANGED <<challenge, pending, ledger, containedAt>>
        /\ pending # None => ~Contained /\ elapsed' < Until(pending)
    BY <1>1, <1>3, <1>4, <1>5 DEF Waits, Overdue
  <2>2. (pending # None => ~Contained /\ elapsed < Until(pending))'
    BY <2>1 DEF Contained, Until
  <2>3. (Contained => containedAt <= elapsed)'
    BY <1>1, <1>2, <1>3, <2>1 DEF Contained
  <2>4. \A i \in Attempts : challenge'[i].at <= elapsed'
    BY <1>1, <1>2, <1>3, <2>1
  <2>5. ASSUME NEW i \in Attempts, status'[i] = "delivered", state' # "stopped"
        PROVE  AttemptInv(i)'
    <3>1. AttemptInv(i) /\ Of(i)' = Of(i)
      BY <1>1, <1>3, <1>5, <2>1, <2>5 DEF Waits, NothingNew, Of
    <3>2. QED
      BY <1>1, <2>1, <3>1, AttemptKept
  <2>6. QED
    BY <2>2, <2>3, <2>4, <2>5 DEF OutcomesInv
<1>6. CASE Expires
  <2>1. PICK p \in Attempts, until \in Nat :
          /\ p = pending /\ until = Until(p) /\ until <= elapsed'
          /\ ~Contained /\ Resolved("expired", until) /\ containedAt' = containedAt
    BY <1>4, <1>6 DEF Expires
  <2>2. "expired" \in Finals \ {"blocked"}
    BY DEF Finals
  <2>3. /\ pending' = None
        /\ \A j \in Attempts : challenge'[j].at = challenge[j].at
        /\ Of(p)' = {Event(p, "delivered", challenge[p].at), Event(p, "expired", until)}
    BY <2>1, <2>2, ResolutionOfPending
  <2>4. ~Contained'
    BY <2>1 DEF Contained
  <2>5. AttemptInv(p)'
    <3>1. until = challenge[p].at + Timeout
      BY <2>1 DEF Until
    <3>2. QED
      BY <2>1, <2>3, <2>4, <3>1 DEF AttemptInv
  <2>6. \A i \in Attempts : challenge'[i].at <= elapsed'
    BY <1>1, <1>2, <1>3, <2>3
  <2>7. state' # "stopped" =>
          \A i \in Attempts : status'[i] = "delivered" => AttemptInv(i)'
    BY <1>1, <1>6, <2>1, <2>2, <2>5, AttemptsKeptByResolution DEF Expires
  <2>8. QED
    BY <2>3, <2>4, <2>6, <2>7 DEF OutcomesInv
<1>7. CASE IsAnswered
  <2>1. PICK p \in Attempts, answer \in Decisions :
          /\ p = pending /\ Resolved(answer, elapsed)
          /\ elapsed' = elapsed /\ containedAt' = containedAt
    BY <1>4, <1>7 DEF IsAnswered
  <2>2. answer \in Finals \ {"blocked"} /\ ~Contained
    BY <1>3, <1>7 DEF Finals, Decisions, IsAnswered
  <2>3. /\ pending' = None
        /\ \A j \in Attempts : challenge'[j].at = challenge[j].at
        /\ Of(p)' = {Event(p, "delivered", challenge[p].at), Event(p, answer, elapsed)}
    BY <1>2, <2>1, <2>2, ResolutionOfPending
  <2>4. ~Contained'
    BY <2>1, <2>2 DEF Contained
  <2>5. AttemptInv(p)'
    <3>1. elapsed \in 0..elapsed'
      BY <1>2, <2>1
    <3>2. QED
      BY <2>3, <2>4, <3>1 DEF AttemptInv
  <2>6. \A i \in Attempts : challenge'[i].at <= elapsed'
    BY <1>3, <2>1, <2>3
  <2>7. state' # "stopped" =>
          \A i \in Attempts : status'[i] = "delivered" => AttemptInv(i)'
    BY <1>1, <1>2, <1>7, <2>1, <2>2, <2>5, AttemptsKeptByResolution DEF IsAnswered
  <2>8. QED
    BY <2>3, <2>4, <2>6, <2>7 DEF OutcomesInv
<1>8. CASE IsContained
  <2>1. /\ ~Contained /\ containedAt' = elapsed /\ elapsed' = elapsed /\ NothingNew
        /\ Contained'
    BY <1>2, <1>8 DEF IsContained, Contained
  <2>2. CASE pending = None /\ UNCHANGED <<challenge, pending, ledger>>
    <3>1. ASSUME NEW i \in Attempts, status'[i] = "delivered", state' # "stopped"
          PROVE  AttemptInv(i)'
      <4>1. AttemptInv(i) /\ Of(i)' = Of(i)
        BY <1>1, <1>3, <2>1, <2>2, <3>1 DEF NothingNew, Of
      <4>2. QED
        BY <1>1, <2>1, <2>2, <4>1, AttemptKept
    <3>2. \A i \in Attempts : challenge'[i].at <= elapsed'
      BY <1>3, <2>1, <2>2
    <3>3. containedAt' <= elapsed' /\ pending' = None
      BY <1>2, <2>1, <2>2
    <3>4. QED
      BY <3>1, <3>2, <3>3 DEF OutcomesInv
  <2>3. CASE pending # None /\ Resolved("cancelled", elapsed)
    <3>1. PICK p \in Attempts : p = pending
      BY <1>4, <2>3
    <3>2. "cancelled" \in Finals \ {"blocked"}
      BY DEF Finals
    <3>3. /\ pending' = None
          /\ \A j \in Attempts : challenge'[j].at = challenge[j].at
          /\ Of(p)' = {Event(p, "delivered", challenge[p].at), Event(p, "cancelled", elapsed)}
      BY <1>2, <2>3, <3>1, <3>2, ResolutionOfPending
    <3>4. challenge[p].at <= elapsed /\ elapsed < challenge[p].at + Timeout
      BY <1>3, <1>4, <2>3, <3>1 DEF Until
    <3>5. AttemptInv(p)'
      BY <2>1, <3>3, <3>4 DEF AttemptInv
    <3>6. \A i \in Attempts : challenge'[i].at <= elapsed'
      BY <1>3, <2>1, <3>3
    <3>7. state' # "stopped" =>
            \A i \in Attempts : status'[i] = "delivered" => AttemptInv(i)'
      BY <1>1, <1>2, <2>1, <2>3, <3>1, <3>2, <3>5, AttemptsKeptByResolution
    <3>8. containedAt' <= elapsed'
      BY <1>2, <2>1
    <3>9. QED
      BY <3>3, <3>6, <3>7, <3>8 DEF OutcomesInv
  <2>4. QED
    BY <1>8, <2>2, <2>3 DEF IsContained
<1>9. CASE Sends
  <2>1. PICK i \in Attempts : Sent(i) /\ containedAt' = containedAt
    BY <1>9 DEF Sends
  <2>2. /\ elapsed' = elapsed /\ state' = state /\ state = "running" /\ pending = None
        /\ status[i] = "pending" /\ status' = [status EXCEPT ![i] = "delivered"]
    BY <2>1 DEF Sent
  <2>3. PICK outcome \in {"blocked", "delivered"} :
          /\ outcome = IF Contained THEN "blocked" ELSE "delivered"
          /\ Recorded(i, outcome, elapsed)
          /\ challenge' = [challenge EXCEPT ![i] = [at |-> elapsed, outcome |-> outcome]]
          /\ pending' = IF Contained THEN None ELSE i
    BY <2>1 DEF Sent
  <2>4. outcome \in Outcomes
    BY DEF Outcomes, Finals
  <2>5. /\ challenge'[i].at = elapsed
        /\ \A j \in Attempts \ {i} : challenge'[j].at = challenge[j].at
    BY <2>3 DEF Basis, MfaTypeOK
  <2>6. Of(i)' = {Event(i, outcome, elapsed)}
    <3>1. Of(i) = {}
      BY <2>2 DEF Of, Basis, LedgerInv
    <3>2. Of(i)' = Of(i) \cup (IF i = i THEN {Event(i, outcome, elapsed)} ELSE {})
      BY <1>2, <2>3, <2>4, EventsGrow DEF Basis
    <3>3. QED
      BY <3>1, <3>2
  <2>7. AttemptInv(i)'
    <3>1. CASE Contained
      <4>1. Contained' /\ outcome = "blocked" /\ containedAt < At(i)
        BY <1>3, <2>1, <2>2, <2>3, <3>1 DEF Contained
      <4>2. QED
        BY <2>1, <2>5, <2>6, <4>1 DEF AttemptInv
    <3>2. CASE ~Contained
      BY <2>3, <2>5, <2>6, <3>2 DEF AttemptInv
    <3>3. QED
      BY <3>1, <3>2
  <2>8. ASSUME NEW j \in Attempts \ {i}, status'[j] = "delivered"
        PROVE  AttemptInv(j)'
    <3>1. status[j] = "delivered" /\ pending # j
      BY <2>2, <2>8, ScheduleFacts DEF Basis, MfaTypeOK
    <3>2. Of(j)' = Of(j) \cup (IF i = j THEN {Event(i, outcome, elapsed)} ELSE {})
      BY <1>2, <2>3, <2>4, EventsGrow DEF Basis
    <3>3. AttemptInv(j) /\ Of(j)' = Of(j) /\ challenge'[j].at = challenge[j].at
      BY <1>3, <2>2, <2>5, <3>1, <3>2
    <3>4. QED
      BY <1>1, <2>1, <3>1, <3>3, AttemptKept
  <2>9. (Contained => containedAt <= elapsed)'
    BY <1>3, <2>1, <2>2 DEF Contained
  <2>10. (pending # None => ~Contained /\ elapsed < Until(pending))'
    <3> SUFFICES ASSUME pending' # None
                 PROVE  ~Contained' /\ elapsed' < Until(pending)'
      OBVIOUS
    <3>1. ~Contained /\ pending' = i
      BY <2>3
    <3>2. elapsed < elapsed + Timeout
      BY <1>2
    <3>3. QED
      BY <2>1, <2>2, <2>5, <3>1, <3>2 DEF Contained, Until
  <2>11. \A j \in Attempts : challenge'[j].at <= elapsed'
    BY <1>2, <1>3, <2>2, <2>5
  <2>12. QED
    BY <2>7, <2>8, <2>9, <2>10, <2>11 DEF OutcomesInv
<1>10. CASE Stops
  <2>1. /\ state' = "stopped" /\ pending' = None /\ elapsed' = elapsed
        /\ containedAt' = containedAt
    BY <1>10 DEF Stops
  <2>2. ASSUME NEW i \in Attempts
        PROVE  challenge'[i].at <= elapsed'
    <3>1. CASE challenge' = challenge
      BY <1>3, <2>1, <3>1
    <3>2. CASE pending # None /\ Resolved("cancelled", elapsed)
      <4>1. PICK p \in Attempts : p = pending
        BY <1>4, <3>2
      <4>2. "cancelled" \in Finals \ {"blocked"}
        BY DEF Finals
      <4>3. challenge'[i].at = challenge[i].at
        BY <1>2, <3>2, <4>1, <4>2, ResolutionOfPending
      <4>4. QED
        BY <1>3, <2>1, <4>3
    <3>3. QED
      BY <1>10, <3>1, <3>2 DEF Stops
  <2>3. (Contained => containedAt <= elapsed)'
    BY <1>3, <2>1 DEF Contained
  <2>4. QED
    BY <2>1, <2>2, <2>3 DEF OutcomesInv
<1>11. QED
  BY <1>5, <1>6, <1>7, <1>8, <1>9, <1>10 DEF Timely

\* Whatever ends a call before its time is a refused event.
LEMMA RaisedMeansLost ==
  ASSUME Basis, MfaNext, call'.op = "raised"
  PROVE  gap'
<1>1. Idle.op = "idle"
  BY DEF Idle
<1>2. CASE ClockStep
  <2>1. PICK now \in {call.target} \cup {At(i) : i \in call.due}, stored \in SinkOutcomes :
          /\ MfaAdvance(now, stored)
          /\ call' = IF ~stored THEN Raised
                     ELSE IF call.due = {} THEN Idle
                     ELSE [call EXCEPT !.op = "item"]
    BY <1>2, Zenon DEF ClockStep
  <2>2. ~stored
    BY <1>1, <2>1 DEF Basis, MfaTypeOK
  <2>3. QED
    BY <2>1, <2>2 DEF MfaAdvance
<1>3. CASE ItemStep
  <2>1. PICK i, rest :
          /\ i \in call.due /\ DeliverItem(i, rest)
          /\ rest = IF call.op = "deliver" THEN Idle
                    ELSE [call EXCEPT !.op = "clock", !.due = @ \ {i}]
    BY <1>3 DEF ItemStep
  <2>2. rest.op # "raised"
    BY <1>1, <2>1 DEF Basis, MfaTypeOK
  <2>3. QED
    BY <2>1, <2>2 DEF DeliverItem, DeliverEnd, RefuseChallenge, SendChallenge, LoseChallenge,
       ItemEvent
<1>4. CASE Others
  <2>1. call.op # "item"
    BY <1>4 DEF Others, StartPlay, PausePlay, ResumePlay, Transition, AdvanceTo, Deliver,
       Skip, Decide, Contain, OtherAction, SignInDecision, Stop, Quiet
  <2>2. ASSUME NEW stored \in SinkOutcomes, StartPlay(stored)
        PROVE  gap'
    <3>1. \A t : AdvanceCall(t).op = "clock"
      BY DEF AdvanceCall
    <3>2. ~stored
      BY <2>2, <3>1 DEF StartPlay
    <3>3. QED
      BY <2>2, <3>2 DEF StartPlay
  <2>3. CASE \E t \in 0..Horizon : AdvanceTo(t)
    BY <2>3 DEF AdvanceTo, AdvanceCall
  <2>4. ASSUME NEW i \in Items, Deliver(i)
        PROVE  FALSE
    BY <1>1, <2>1, <2>4 DEF Deliver, ItemEvent, Idle
  <2>5. QED
    BY <1>1, <1>4, <2>1, <2>2, <2>3, <2>4 DEF Others, PausePlay, ResumePlay, Skip, Decide,
       Contain, OtherAction, SignInDecision, Stop, ItemEvent
<1>5. QED
  BY <1>2, <1>3, <1>4 DEF MfaNext, CallStep, Others

(***************************************************************************)
(* The walk handles the items at their seconds: after a step without a     *)
(* loss no pending item is due, but those the walk is about to handle.     *)
(***************************************************************************)

LEMMA ItemsInTime ==
  ASSUME Basis, ScheduleInv, MfaNext, ~gap, ~gap',
         NEW i \in Attempts, status'[i] = "pending"
  PROVE  AtItsSecond(i)' /\ status[i] = "pending"
<1>1. /\ status[i] = "pending" => AtItsSecond(i)
      /\ elapsed \in Nat /\ i \in Items /\ At(i) \in Nat
  BY ScheduleFacts DEF ScheduleInv, Basis, MfaTypeOK, Items
<1>2. CASE ClockStep
  <2>1. PICK now \in {call.target} \cup {At(j) : j \in call.due}, stored \in SinkOutcomes :
          /\ IF call.due = {} THEN now = call.target
                              ELSE \E j \in call.due : IsFirst(j, call.due) /\ now = At(j)
          /\ elapsed' = now
          /\ MfaAdvance(now, stored)
          /\ call' = IF ~stored THEN Raised
                     ELSE IF call.due = {} THEN Idle
                     ELSE [call EXCEPT !.op = "item"]
    BY <1>2, Zenon DEF ClockStep
  <2>2. status[i] = "pending" /\ call.op = "clock" /\ stored
    BY <1>2, <2>1 DEF ClockStep, MfaAdvance
  <2>3. /\ call.due = {j \in Items : At(j) <= call.target /\ status[j] = "pending"}
        /\ call.target \in Nat
    BY <2>2 DEF Basis, WalkInv, MfaTypeOK
  <2>4. CASE call.due = {}
    BY <1>1, <2>1, <2>2, <2>3, <2>4 DEF AtItsSecond
  <2>5. CASE call.due # {}
    <3>1. call'.op = "item"
      BY <2>1, <2>2, <2>5 DEF Basis, MfaTypeOK
    <3>2. QED
      BY <2>2, <3>1 DEF AtItsSecond
  <2>6. QED
    BY <2>4, <2>5
<1>3. CASE ItemStep
  <2>1. call.op \in {"item", "deliver"} /\ UNCHANGED <<elapsed, containedAt>>
    BY <1>3 DEF ItemStep
  <2>2. PICK f \in call.due :
          /\ IsFirst(f, call.due)
          /\ DeliverItem(f, IF call.op = "deliver" THEN Idle
                            ELSE [call EXCEPT !.op = "clock", !.due = @ \ {f}])
    BY <1>3, Zenon DEF ItemStep
  <2>3. PICK rest : rest = IF call.op = "deliver" THEN Idle
                           ELSE [call EXCEPT !.op = "clock", !.due = @ \ {f}]
    OBVIOUS
  <2>4. /\ \E to \in ItemStatuses \ {"pending"} : status' = [status EXCEPT ![f] = to]
        /\ call' \in {rest, Raised} /\ state' \in {state, "completed"}
    BY <2>1, <2>2, <2>3, ItemShape
  <2>5. status[i] = "pending"
    BY <1>1, <2>4 DEF Basis, MfaTypeOK
  <2>6. CASE call.op = "deliver"
    BY <1>1, <2>1, <2>4, <2>5, <2>6 DEF AtItsSecond
  <2>7. CASE call.op = "item"
    <3>1. call'.op # "raised"
      BY RaisedMeansLost
    <3>2. rest.op = "clock"
      BY <2>3, <2>7 DEF Basis, MfaTypeOK
    <3>3. QED
      BY <2>4, <2>5, <3>1, <3>2 DEF AtItsSecond, Raised, Idle
  <2>8. QED
    BY <2>1, <2>6, <2>7
<1>4. CASE Others
  <2>1. Quiet /\ UNCHANGED elapsed
    BY <1>4 DEF Others, StartPlay, PausePlay, ResumePlay, Transition, AdvanceTo, Deliver,
       Skip, Decide, Contain, OtherAction, SignInDecision, Stop, StopRun
  <2>2. status[i] = "pending"
    <3>1. status \in [Items -> ItemStatuses]
      BY DEF Basis, MfaTypeOK
    <3>2. status' = status \/ \E j \in Items : \E to \in {"failed", "skipped"} :
                                status' = [status EXCEPT ![j] = to]
      BY <1>4 DEF Others, StartPlay, PausePlay, ResumePlay, Transition, AdvanceTo, Deliver,
         Skip, Decide, Contain, OtherAction, SignInDecision, Stop, StopRun, ItemEvent
    <3>3. QED
      BY <1>1, <3>1, <3>2
  <2>3. elapsed < At(i) \/ state \notin {"running", "paused"}
    BY <1>1, <2>1, <2>2 DEF AtItsSecond, Quiet
  <2>4. ASSUME NEW stored \in SinkOutcomes, StartPlay(stored)
        PROVE  AtItsSecond(i)' /\ status[i] = "pending"
    <3>1. stored
      BY <2>4 DEF StartPlay
    <3>2. call' = AdvanceCall(0)
      BY <2>4, <3>1 DEF StartPlay
    <3>3. QED
      BY <2>2, <3>2 DEF AdvanceCall, AtItsSecond
  <2>5. CASE ~\E stored \in SinkOutcomes : StartPlay(stored)
    <3>1. CASE \E stored \in SinkOutcomes : PausePlay(stored) \/ ResumePlay(stored)
      BY <2>1, <2>2, <2>3, <3>1 DEF PausePlay, ResumePlay, Transition, AtItsSecond
    <3>2. CASE Stop
      BY <2>2, <3>2 DEF Stop, StopRun, AtItsSecond
    <3>3. CASE UNCHANGED state
      BY <2>1, <2>2, <2>3, <3>3 DEF AtItsSecond
    <3>4. QED
      BY <1>4, <2>5, <3>1, <3>2, <3>3 DEF Others, AdvanceTo, Deliver, Skip, Decide, Contain,
         OtherAction, SignInDecision
  <2>6. QED
    BY <2>4, <2>5
<1>5. QED
  BY <1>2, <1>3, <1>4 DEF MfaNext, CallStep, Others

\* A containment comes before every item that is still due.
LEMMA ContainedBefore ==
  ASSUME Basis, ScheduleInv, MfaNext, ~gap, ~gap', NEW i \in Attempts,
         status[i] = "pending", Contained'
  PROVE  containedAt' < At(i)
<1>1. Contained => containedAt < At(i)
  BY DEF ScheduleInv
<1>2. CASE Contain
  <2>1. containedAt' = elapsed /\ call.op \in {"idle", "raised"}
    BY <1>2 DEF Contain, Quiet
  <2>2. elapsed < At(i)
    BY <1>2, <2>1 DEF ScheduleInv, AtItsSecond, Contain
  <2>3. QED
    BY <2>1, <2>2
<1>3. CASE ~Contain
  <2>1. containedAt' = containedAt
    BY <1>3 DEF MfaNext, CallStep, ClockStep, ItemStep, StartPlay, PausePlay, ResumePlay,
       Transition, AdvanceTo, Deliver, Skip, Decide, OtherAction, SignInDecision, Stop, StopRun
  <2>2. QED
    BY <1>1, <2>1 DEF Contained
<1>4. QED
  BY <1>2, <1>3

LEMMA ScheduleInitially == MfaInit => ScheduleInv
<1> SUFFICES ASSUME MfaInit PROVE ScheduleInv
  OBVIOUS
<1>1. /\ elapsed = 0 /\ call.op = "idle" /\ pending = None /\ ~Contained
  BY DEF MfaInit, Idle, Contained
<1>2. \A i \in Attempts : challenge[i].at = -1 /\ status[i] = "pending" /\ AtItsSecond(i)
  BY DEF MfaInit, NothingSent, NothingDone, Items, AtItsSecond
<1>3. QED
  BY <1>1, <1>2 DEF ScheduleInv

LEMMA ScheduleKept ==
  ASSUME Basis, ScheduleInv, [MfaNext]_runVars, Basis'
  PROVE  ScheduleInv'
<1>1. CASE UNCHANGED runVars
  <2>1. /\ UNCHANGED <<state, elapsed, status, containedAt, gap, call>>
        /\ UNCHANGED <<challenge, pending, ledger>>
    BY <1>1 DEF runVars, playVars, mfaVars
  <2>2. \A i \in Attempts : AttemptInv(i)' <=> AttemptInv(i)
    BY <2>1 DEF AttemptInv, Of, Contained
  <2>3. QED
    BY <2>1, <2>2 DEF ScheduleInv, Contained, Until, AtItsSecond
<1>2. CASE MfaNext
  <2>1. call'.op = "raised" => gap'
    BY <1>2, RaisedMeansLost
  <2>2. ASSUME ~gap'
        PROVE  ~gap /\ OutcomesInv'
    BY <1>2, <2>2, NextIsTimely, NextIsOnward, OutcomesKept
  <2>3. ASSUME ~gap', NEW i \in Attempts, status'[i] = "pending"
        PROVE  AtItsSecond(i)' /\ (Contained' => containedAt' < At(i))
    <3>1. AtItsSecond(i)' /\ status[i] = "pending" /\ ~gap
      BY <1>2, <2>2, <2>3, ItemsInTime
    <3>2. Contained' => containedAt' < At(i)
      BY <1>2, <2>3, <3>1, ContainedBefore
    <3>3. QED
      BY <3>1, <3>2
  <2>4. QED
    BY <2>1, <2>2, <2>3 DEF ScheduleInv, OutcomesInv
<1>3. QED
  BY <1>1, <1>2

(***************************************************************************)
(* ScheduledMfa.deliver, decide, advance and cancel under advance_to: as   *)
(* long as no event was refused, the stored events of an attempt that the  *)
(* clock delivered at its second are those that the schedule, the          *)
(* containment and the human answers prescribe, at their logical seconds.  *)
(***************************************************************************)
THEOREM OutcomesAreLogical == MfaSpec => []OutcomesFollowSchedule
<1>1. ASSUME Basis, ScheduleInv, ~gap, Quiet, state # "stopped", NEW i \in Attempts,
             status[i] = "delivered", challenge[i].at = At(i)
      PROVE  Of(i) = Expected(i)
  <2>1. /\ elapsed \in Nat /\ containedAt \in Nat \cup {-1} /\ Timeout \in Nat \ {0}
        /\ At(i) \in Nat
    BY <1>1, TimesAreNumbers
  <2>2. PICK at \in Nat : at = At(i) /\ challenge[i].at = at
    BY <1>1, <2>1
  <2>3. AttemptInv(i) /\ (pending = i => ~Contained /\ elapsed < at + Timeout)
    BY <1>1, <2>2, ScheduleFacts DEF ScheduleInv, Until
  <2> DEFINE sent == Event(i, "delivered", at)
             answers == {e \in Of(i) : e.outcome \in Decisions}
  <2>4. Expected(i) = IF Contained /\ containedAt < at THEN {Event(i, "blocked", at)}
                      ELSE IF answers # {} THEN {sent} \cup answers
                      ELSE IF Contained /\ containedAt < at + Timeout
                           THEN {sent, Event(i, "cancelled", containedAt)}
                      ELSE IF elapsed >= at + Timeout
                           THEN {sent, Event(i, "expired", at + Timeout)}
                      ELSE {sent}
    BY <2>2 DEF Expected
  <2>5. \A outcome, second : Event(i, outcome, second).outcome = outcome
    BY DEF Event
  <2>6. {"delivered", "cancelled", "expired", "blocked"} \cap Decisions = {}
    BY DEF Decisions
  <2>7. CASE Of(i) = {Event(i, "blocked", at)} /\ Contained /\ (at = At(i) => containedAt < at)
    BY <2>2, <2>4, <2>7
  <2>8. CASE Of(i) = {sent} /\ pending = i
    <3>1. answers = {}
      BY <2>5, <2>6, <2>8
    <3>2. ~Contained /\ ~(elapsed >= at + Timeout)
      BY <2>1, <2>3, <2>8
    <3>3. QED
      BY <2>4, <2>8, <3>1, <3>2
  <2>9. CASE /\ \E answer \in Decisions, second \in 0..elapsed :
                  Of(i) = {sent, Event(i, answer, second)}
             /\ Contained => at <= containedAt
    <3>1. PICK answer \in Decisions, second \in 0..elapsed :
            Of(i) = {sent, Event(i, answer, second)}
      BY <2>9
    <3>2. answers = {Event(i, answer, second)}
      BY <2>5, <2>6, <3>1
    <3>3. ~(Contained /\ containedAt < at)
      BY <2>1, <2>9 DEF Contained
    <3>4. QED
      BY <2>4, <3>1, <3>2, <3>3
  <2>10. CASE /\ Of(i) = {sent, Event(i, "cancelled", containedAt)}
              /\ Contained /\ at <= containedAt /\ containedAt < at + Timeout
    <3>1. answers = {}
      BY <2>5, <2>6, <2>10
    <3>2. ~(containedAt < at)
      BY <2>1, <2>10 DEF Contained
    <3>3. QED
      BY <2>4, <2>10, <3>1, <3>2
  <2>11. CASE /\ Of(i) = {sent, Event(i, "expired", at + Timeout)}
              /\ at + Timeout <= elapsed
              /\ Contained => at + Timeout <= containedAt
    <3>1. answers = {}
      BY <2>5, <2>6, <2>11
    <3>2. Contained => ~(containedAt < at) /\ ~(containedAt < at + Timeout)
      BY <2>1, <2>11 DEF Contained
    <3>3. elapsed >= at + Timeout
      BY <2>1, <2>11
    <3>4. QED
      BY <2>4, <2>11, <3>1, <3>2, <3>3
  <2>12. QED
    BY <2>2, <2>3, <2>7, <2>8, <2>9, <2>10, <2>11 DEF AttemptInv
<1>2. MfaInv => OutcomesFollowSchedule
  BY <1>1 DEF MfaInv, OutcomesFollowSchedule
<1>3. MfaInit => MfaInv
  BY BasisInitially, ScheduleInitially DEF MfaInv
<1>4. MfaInv /\ [MfaNext]_runVars => MfaInv'
  BY BasisKept, ScheduleKept DEF MfaInv
<1>5. QED
  BY <1>2, <1>3, <1>4, PTL DEF MfaSpec
===============================================================================
