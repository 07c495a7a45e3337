-------------------------------- MODULE Support --------------------------------
(***************************************************************************)
(* Human assistance in a run: the learner's page (static/support.js), the  *)
(* network between it and the portal, and the append-only queue of         *)
(* requests and replies (dashboard/support.py, orchestrator/support.py).   *)
(* The page may lose the answer of a request that arrived or may arrive    *)
(* later; its account may change while a request or a read is on its way.  *)
(***************************************************************************)
EXTENDS PortalRun

CONSTANTS Learners,       \* accounts that the page is used with, one after another
          ReplyKeys,      \* retry keys of staff replies
          Limits,         \* MAX_REQUESTS and MAX_ACTOR_REQUESTS, as "queue" and "actor"
          MaxQuestions    \* bound: questions typed on the page

\* What the page is shown, a frozen question, and a request with its answer.
View      == [actor : Learners, run : Nat \ {0}, asks : BOOLEAN]
Operation == [key : Nat \ {0}, run : Nat \ {0}]
Answers   == {"recorded", "rejected", "other run", "overtook", "unsure"}
Sending   == [actor : Learners, key : Nat \ {0}, run : Nat \ {0}, mine : BOOLEAN,
              answer : Answers \union {None}]

ASSUME SupportAssumption ==
  /\ Learners # {} /\ ReplyKeys # {}
  /\ None \notin View /\ None \notin Operation /\ None \notin Sending /\ None \notin Answers
  /\ Limits # {} /\ Limits \subseteq [queue : Nat \ {0}, actor : Nat \ {0}]
  /\ MaxQuestions \in Nat

VARIABLES limits,         \* those of this installation, which never change
          queue,          \* the run's support events, in the order of the ledger
          earlier,        \* the questions that earlier runs have recorded
          account,        \* credential
          known,          \* contextRun, 0 for null
          screen,         \* snapshot
          operation,      \* the frozen question: None or its number and run
          sent,           \* the request the page waits for (busy)
          reading,        \* the snapshot on its way to the page
          late,           \* requests the page gave up on that may still arrive
          asked,          \* who typed question number k, for which run
          refused         \* the questions the page called rejected for good

pageVars    == <<account, known, screen, operation, sent, reading, late, asked, refused>>
queueVars   == <<queue, earlier, limits>>
supportVars == <<portalVars, queueVars, pageVars>>

SupportInit ==
  /\ limits \in Limits /\ queue = <<>> /\ earlier = {}
  /\ account \in Learners
  /\ known = 0 /\ screen = None /\ operation = None /\ sent = None /\ reading = None
  /\ late = {} /\ asked = <<>> /\ refused = {}

-------------------------------------------------------------------------------
\* The queue.

Requests == {n \in DOMAIN queue : queue[n].type = "request"}

Answered(n) == \E m \in DOMAIN queue : queue[m].type = "reply" /\ queue[m].to = n

RequestsOf(actor) == {n \in Requests : queue[n].actor = actor}

Waiting(actor) == \E n \in RequestsOf(actor) : ~Answered(n)

\* Mutant: the number of requests may exceed its limit by one.
Full_Bug(actor) ==
  Cardinality(RequestsOf(actor)) > limits.actor \/ Cardinality(Requests) > limits.queue

Full(actor) ==
  Cardinality(RequestsOf(actor)) >= limits.actor \/ Cardinality(Requests) >= limits.queue

\* _retry_request(): the question was recorded under this actor's key.
Repeat(post) == \E n \in RequestsOf(post.actor) : queue[n].key = post.key

\* request() in the order of its checks; a run that changed comes before a retry.
RequestRefused(post) ==
  \/ post.run # run
  \/ /\ ~Repeat(post)
     /\ play # "live" \/ Waiting(post.actor) \/ Full(post.actor) \/ ~intact

\* request() and _append(): an append that raises stops the run.
HandleRequest(post, outcome) ==
  IF RequestRefused(post) \/ Repeat(post)
  THEN outcome = "ok" /\ UNCHANGED <<portalVars, queue>>
  ELSE /\ Appending(outcome)
       /\ queue' = IF Stored(outcome)
                   THEN Append(queue, [type |-> "request", actor |-> post.actor, key |-> post.key])
                   ELSE queue
       /\ play' = IF outcome = "ok" THEN play ELSE "stopped"
       /\ UNCHANGED run

\* Another copy of the question, given up by the page, is still on its way.
Astray(post) == \E other \in late : other.key = post.key

\* The response: 200, 409, or the 503 that tells nothing.  The page calls each 409
\* a rejection, but two say less: that of another run says nothing of the
\* question's own run, where it may have been recorded, and that of a copy that
\* overtook another says nothing of the other.
AnswerTo(post, outcome) ==
  IF RequestRefused(post)
  THEN IF post.run # run THEN "other run"
       ELSE IF Astray(post) THEN "overtook" ELSE "rejected"
  ELSE IF outcome = "ok" THEN "recorded" ELSE "unsure"

\* respond(), by staff whose page is as careful as the learner's or is not.
Respond(role, key, n, kind) ==
  LET same(m) == queue[m].type = "reply" /\ queue[m].role = role /\ queue[m].key = key
  IN /\ role = "technical_operator" => kind = "platform_issue"
     /\ ~\E m \in DOMAIN queue : same(m)
     /\ play = "live" \/ (play = "stopped" /\ kind = "platform_issue")
     /\ n \in Requests /\ ~Answered(n)
     /\ intact
     /\ \E outcome \in Outcomes :
          /\ Appending(outcome)
          /\ queue' = IF Stored(outcome)
                      THEN Append(queue, [type |-> "reply", to |-> n, role |-> role,
                                          key |-> key, kind |-> kind, play |-> play])
                      ELSE queue
          /\ play' = IF outcome = "ok" THEN play ELSE "stopped"
     /\ UNCHANGED <<run, earlier, limits, pageVars>>

-------------------------------------------------------------------------------
\* The page.

NoLonger(post) == IF post = None THEN None ELSE [post EXCEPT !.mine = FALSE]

\* Mutant: a frozen question survives a change of the account.
Forget_Bug ==
  screen' = None /\ reading' = None /\ sent' = NoLonger(sent) /\ UNCHANGED operation

\* reset(): a request that is on its way is not cancelled, but its answer will not
\* be applied any more.
Forget ==
  screen' = None /\ reading' = None /\ sent' = NoLonger(sent) /\ operation' = None

\* Another token, or Connect again; the page leaving is the same.
Connect(actor) ==
  /\ account' = actor /\ known' = 0 /\ Forget
  /\ UNCHANGED <<portalVars, queueVars, late, asked, refused>>

\* view() for the page's account; a read that a later step makes obsolete is dropped
\* on arrival (readSerial, activity, generation), and here at once.
Read ==
  /\ reading' = [actor |-> account, run |-> run,
                 asks  |-> /\ play = "live" /\ ~Waiting(account)
                           /\ Cardinality(RequestsOf(account)) < limits.actor]
  /\ UNCHANGED <<portalVars, queueVars, account, known, screen, operation, sent,
                 late, asked, refused>>

\* The answer of refresh(): a new run resets the page first.
Show ==
  /\ reading # None
  /\ screen' = reading /\ known' = reading.run /\ reading' = None
  /\ IF known \notin {0, reading.run}
     THEN operation' = None /\ sent' = NoLonger(sent)
     ELSE UNCHANGED <<operation, sent>>
  /\ UNCHANGED <<portalVars, queueVars, account, late, asked, refused>>

\* A read that fails blanks the transcript; one without authorization is Connect.
ReadFails ==
  /\ screen # None
  /\ screen' = None /\ reading' = None
  /\ UNCHANGED <<portalVars, queueVars, account, known, operation, sent, late,
                 asked, refused>>

\* submit(): a new question, or the frozen one again, never with an old snapshot.
Submit ==
  /\ sent = None /\ screen # None
  /\ \/ operation # None /\ UNCHANGED <<operation, asked>>
     \/ /\ operation = None /\ screen.asks /\ Len(asked) < MaxQuestions
        /\ operation' = [key |-> Len(asked) + 1, run |-> screen.run]
        /\ asked' = Append(asked, [actor |-> account, run |-> screen.run])
  /\ sent' = [actor |-> account, key |-> operation'.key, run |-> operation'.run,
              mine |-> TRUE, answer |-> None]
  /\ screen' = None /\ reading' = None
  /\ UNCHANGED <<portalVars, queueVars, account, known, late, refused>>

Arrive(outcome) ==
  /\ sent # None /\ sent.answer = None
  /\ HandleRequest(sent, outcome)
  /\ sent' = [sent EXCEPT !.answer = AnswerTo(sent, outcome)]
  /\ UNCHANGED <<earlier, limits, account, known, screen, operation, reading, late, asked, refused>>

\* Only a 200 or a 409 releases the frozen question.
Dropped(seen) == seen # "unsure"

\* The end of submit(); seen: the answer, or "unsure" when the network lost it.
Settle(seen) ==
  /\ sent # None /\ seen \in {sent.answer, "unsure"} \ {None}
  /\ late' = IF sent.answer = None
             THEN late \union {[actor |-> sent.actor, key |-> sent.key, run |-> sent.run]}
             ELSE late
  /\ operation' = IF sent.mine /\ Dropped(seen) THEN None ELSE operation
  /\ refused' = IF sent.mine /\ seen = "rejected" THEN refused \union {sent.key} ELSE refused
  /\ sent' = None /\ screen' = None /\ reading' = None
  /\ UNCHANGED <<portalVars, queueVars, account, known, asked>>

\* A request arrives after the page has given up on it.
ArriveLate(post, outcome) ==
  /\ post \in late /\ late' = late \ {post}
  /\ HandleRequest(post, outcome)
  /\ UNCHANGED <<earlier, limits, account, known, screen, operation, sent, reading, asked, refused>>

-------------------------------------------------------------------------------
RecordedIn(events) == {events[n].key : n \in {m \in DOMAIN events : events[m].type = "request"}}

SupportReset ==
  /\ NextRun
  /\ earlier' = earlier \union RecordedIn(queue) /\ queue' = <<>>
  /\ UNCHANGED <<limits, pageVars>>

SupportControl == (StartPlay \/ EndPlay) /\ UNCHANGED <<queueVars, pageVars>>

StaffRoles   == {"facilitator", "technical_operator"}
SupportKinds == {"hint", "platform_issue"}

SupportNext ==
  \/ \E actor \in Learners : Connect(actor)
  \/ Read \/ Show \/ ReadFails \/ Submit
  \/ \E outcome \in Outcomes : Arrive(outcome)
  \/ \E seen \in Answers : Settle(seen)
  \/ \E post \in late, outcome \in Outcomes : ArriveLate(post, outcome)
  \/ \E role \in StaffRoles, key \in ReplyKeys, n \in DOMAIN queue, kind \in SupportKinds :
       Respond(role, key, n, kind)
  \/ SupportControl \/ SupportReset

SupportSpec == PortalInit /\ SupportInit /\ [][SupportNext]_supportVars

-------------------------------------------------------------------------------
WithinLimits ==
  /\ Cardinality(Requests) <= limits.queue
  /\ \A actor \in Learners : Cardinality(RequestsOf(actor)) <= limits.actor

\* A new question of an actor follows the reply to the one before it.
QuestionsTakeTurns ==
  \A m, n \in Requests : m < n /\ queue[m].actor = queue[n].actor =>
    /\ queue[m].key # queue[n].key
    /\ \E a \in m + 1 .. n - 1 : queue[a].type = "reply" /\ queue[a].to = m

Replies == DOMAIN queue \ Requests

RepliesFit ==
  \A n \in Replies : /\ queue[n].to \in Requests /\ queue[n].to < n
                     /\ queue[n].play = "live" \/ queue[n].kind = "platform_issue"

RepliesDiffer ==
  \A m, n \in Replies : m # n =>
    /\ queue[m].to # queue[n].to
    /\ <<queue[m].role, queue[m].key>> # <<queue[n].role, queue[n].key>>

\* support_index() accepts the queue, which it reads again before every request,
\* reply and review: no workflow brings the queue into a state that locks it
\* (orchestrator/support.py support_index).
QueueAccepted == WithinLimits /\ QuestionsTakeTurns /\ RepliesFit /\ RepliesDiffer

\* What the page has told its user about a question is and stays true, whatever was
\* lost, retried or came late: one it called recorded is in the ledger of a run, and one
\* it called rejected never gets there, except behind two refusals that the page words
\* alike and that do not deny an earlier copy (AnswerTo: "other run" and "overtook").  A
\* question is recorded in the run and under the name it was typed with, and a transcript
\* is only shown to its owner.
PageIsTruthful ==
  /\ refused \intersect (earlier \union RecordedIn(queue)) = {}
  /\ sent # None /\ sent.answer = "recorded" =>
       sent.key \in earlier \union RecordedIn(queue)
  /\ RecordedIn(queue) \intersect earlier = {}
  /\ \A n \in Requests : asked[queue[n].key] = [actor |-> queue[n].actor, run |-> run]
  /\ screen # None => screen.actor = account
===============================================================================
