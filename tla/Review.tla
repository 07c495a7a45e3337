-------------------------------- MODULE Review ---------------------------------
(***************************************************************************)
(* What becomes of a run after play: evaluators' judgments of one learning *)
(* objective, revised optimistically from several pages, and the archives  *)
(* that freeze the ledger before a reset (dashboard/service.py,            *)
(* orchestrator/aar.py, dashboard/store.py, static/evaluator-review.js,    *)
(* static/review-archives.js).  A bundle is its events: its hash equals    *)
(* another bundle's when the events do.                                    *)
(***************************************************************************)
EXTENDS PortalRun, SequencesExt

CONSTANTS Evaluators,     \* pages that review
          MaxSaves,       \* bound: judgments saved on the pages
          MaxCaptures     \* bound: archives of an exercise

ASSUME ReviewAssumption ==
  /\ Evaluators # {} /\ IsFiniteSet(Evaluators)
  /\ MaxSaves \in Nat /\ MaxCaptures \in Nat
  /\ None \notin {"failed", "recorded"}

VARIABLES ledger,         \* the events of the run after play
          past,           \* the final ledgers of earlier runs
          archives,       \* the review_archives table
          report,         \* the report on each page
          inspect,        \* inspectRequired of each page
          saving,         \* the judgment each page waits for (busy)
          abandoned,      \* judgments a page gave up on that may still arrive
          saves           \* what save number k had on its page's screen

reviewPages == <<report, inspect, saving, abandoned, saves>>
reviewVars  == <<portalVars, ledger, past, archives, reviewPages>>

ReviewInit ==
  /\ ledger = <<>> /\ past = <<>> /\ archives = {}
  /\ report = [p \in Evaluators |-> None] /\ inspect = [p \in Evaluators |-> FALSE]
  /\ saving = [p \in Evaluators |-> None]
  /\ abandoned = {} /\ saves = <<>>

-------------------------------------------------------------------------------
\* Judgments.

Judged(events) == {n \in DOMAIN events : events[n].type = "judgment"}

NoJudgment == [revision |-> 0, save |-> 0]

\* The judgment that stands when the event at a position is written.
Standing(events, position) ==
  LET earlier == {n \in Judged(events) : n < position}
  IN IF earlier = {} THEN NoJudgment ELSE events[Max(earlier)]

Current == Standing(ledger, Len(ledger) + 1)

Revision == Current.revision

\* The save that the current judgment of the objective records; 0 for None.
CurrentSave == Current.save

\* Mutant: the revision that the evaluator has seen is not compared.
JudgmentRefused_Bug(post) == post.run # run \/ play # "stopped"

\* judge_objective() and validate_judgment().
JudgmentRefused(post) ==
  post.run # run \/ play # "stopped" \/ post.expected # Revision

\* The append is no transaction with the sequence number, and stops nothing.
HandleJudgment(post, outcome) ==
  IF JudgmentRefused(post)
  THEN outcome = "ok" /\ UNCHANGED <<portalVars, ledger>>
  ELSE /\ Appending(outcome)
       /\ ledger' = IF Stored(outcome)
                    THEN Append(ledger, [type |-> "judgment", save |-> post.save,
                                         revision |-> post.expected + 1,
                                         supersedes |-> CurrentSave])
                    ELSE ledger
       /\ UNCHANGED <<run, play>>

\* busy; a save whose page was invalidated is on its way, but not waited for.
Waits(p) == saving[p] # None /\ saving[p].mine

Disowned(post) == IF post = None THEN None ELSE [post EXCEPT !.mine = FALSE]

\* refresh() of aar_report().  What a page does while it reads makes the read obsolete,
\* so that one that is shown at all may be shown at once.  A new run invalidates the
\* page first, which ends busy; a report that is read during a save does not end the
\* inspection.
ReadReport(p) ==
  LET other == report[p] # None /\ report[p].run # run
      busy  == Waits(p) /\ ~other
  IN /\ report' = [report EXCEPT ![p] =
          [run |-> run, terminal |-> play = "stopped", revision |-> Revision,
           shown |-> CurrentSave]]
     /\ inspect' = [inspect EXCEPT ![p] = busy]
     /\ saving' = IF other THEN [saving EXCEPT ![p] = Disowned(@)] ELSE saving
     /\ UNCHANGED <<portalVars, ledger, past, archives, abandoned, saves>>

\* A report that cannot be read: its run stays known, and nothing can be saved.
ReportFails(p) ==
  /\ report[p] # None
  /\ report' = [report EXCEPT ![p] = [run |-> @.run, terminal |-> FALSE, revision |-> 0, shown |-> 0]]
  /\ inspect' = [inspect EXCEPT ![p] = TRUE]
  /\ UNCHANGED <<portalVars, ledger, past, archives, saving, abandoned, saves>>

\* Another token, or a 401: invalidate() forgets the pending save.
Reconnect(p) ==
  /\ report' = [report EXCEPT ![p] = None]
  /\ inspect' = [inspect EXCEPT ![p] = FALSE]
  /\ saving' = [saving EXCEPT ![p] = Disowned(@)]
  /\ UNCHANGED <<portalVars, ledger, past, archives, abandoned, saves>>

\* canSave()
MaySave(p) ==
  /\ ~Waits(p) /\ ~inspect[p]
  /\ report[p] # None /\ report[p].terminal

\* A save that the page does not wait for any more stays on its way.
Abandon(post) ==
  IF post = None \/ post.answer # None THEN {}
  ELSE {[save |-> post.save, run |-> post.run, expected |-> post.expected]}

Save(p) ==
  /\ MaySave(p) /\ Len(saves) < MaxSaves
  /\ saves' = Append(saves, [run |-> report[p].run, shown |-> report[p].shown])
  /\ saving' = [saving EXCEPT ![p] =
       [save |-> Len(saves) + 1, run |-> report[p].run, expected |-> report[p].revision,
        mine |-> TRUE, answer |-> None]]
  /\ abandoned' = abandoned \union Abandon(saving[p])
  /\ inspect' = [inspect EXCEPT ![p] = TRUE]
  /\ UNCHANGED <<portalVars, ledger, past, archives, report>>

ArriveSave(p, outcome) ==
  /\ saving[p] # None /\ saving[p].answer = None
  /\ HandleJudgment(saving[p], outcome)
  /\ saving' = [saving EXCEPT ![p].answer =
       IF JudgmentRefused(saving[p]) \/ outcome # "ok" THEN "failed" ELSE "recorded"]
  /\ UNCHANGED <<past, archives, report, inspect, abandoned, saves>>

ArriveAbandoned(post, outcome) ==
  /\ post \in abandoned /\ abandoned' = abandoned \ {post}
  /\ HandleJudgment(post, outcome)
  /\ UNCHANGED <<past, archives, report, inspect, saving, saves>>

\* The end of submit(), whatever the answer: the page has to look first.
SettleSave(p) ==
  /\ saving[p] # None
  /\ abandoned' = abandoned \union Abandon(saving[p])
  /\ saving' = [saving EXCEPT ![p] = None]
  /\ UNCHANGED <<portalVars, ledger, past, archives, report, inspect, saves>>

-------------------------------------------------------------------------------
\* Archives.

Archived(events) == \E a \in archives : a.run = run /\ a.events = events

NextNumber == Cardinality(archives) + 1

Snapshot(bundle) == [number |-> NextNumber, run |-> run, events |-> bundle]

Audited == Append(ledger, [type |-> "archive", number |-> NextNumber])

\* append_review_archive(): the snapshot and its audit in one transaction.
ArchiveAppended(outcome, bundle) ==
  /\ ledger' = IF Stored(outcome) THEN Audited ELSE ledger
  /\ archives' = IF Stored(outcome) THEN archives \union {Snapshot(bundle)} ELSE archives

\* When that fails, the sequence number is given back only if the ledger is as it was,
\* and is lost if the ledger cannot be read (RunLedger has the numbers).
Freeze(outcome, bundle) ==
  /\ intact /\ Cardinality(archives) < MaxCaptures
  /\ intact' \in (IF outcome = "lost" THEN BOOLEAN ELSE {TRUE})
  /\ mishaps' = mishaps + (IF outcome = "ok" THEN 0 ELSE 1) /\ mishaps' <= MaxMishaps
  /\ ArchiveAppended(outcome, bundle)

\* Mutant: a hash that is no longer the ledger's is archived.
Stale_Bug(bundle) == FALSE

Stale(bundle) == bundle # ledger

\* capture_review_archive() of the bundle whose hash was previewed.  A page keeps the
\* hash of its preview, retries it when it has no answer and may ask late: it asks for
\* any bundle that the run has had.  One that is archived already is only confirmed,
\* and one of another run is refused.
Capture(bundle, outcome) ==
  /\ play = "stopped" /\ IsPrefix(bundle, ledger)
  /\ ~Archived(bundle) /\ ~Stale(bundle)
  /\ Freeze(outcome, bundle)
  /\ UNCHANGED <<past, run, play, reviewPages>>

\* _reset_run() freezes the run first, whatever was captured before.
ResetReview ==
  /\ play = "stopped" /\ intact /\ run < MaxRuns /\ Cardinality(archives) < MaxCaptures
  /\ archives' = archives \union {Snapshot(ledger)} /\ past' = Append(past, Audited)
  /\ ledger' = <<>> /\ run' = run + 1 /\ play' = "ready"
  /\ UNCHANGED <<intact, mishaps, reviewPages>>

\* The archive fails, and nothing is reset.
ResetUnarchived(outcome) ==
  /\ play = "stopped" /\ outcome # "ok"
  /\ Freeze(outcome, ledger)
  /\ UNCHANGED <<past, run, play, reviewPages>>

\* A component fails to be rebuilt, with an event of its own or without: the run
\* stays, is reviewed further and is reset again.
ResetAborted(outcome) ==
  /\ play = "stopped" /\ intact /\ Cardinality(archives) < MaxCaptures
  /\ mishaps' = mishaps + 1 /\ mishaps' <= MaxMishaps
  /\ archives' = archives \union {Snapshot(ledger)}
  /\ ledger' = IF Stored(outcome) THEN Append(Audited, [type |-> "cleanup"]) ELSE Audited
  /\ intact' = Stored(outcome)
  /\ UNCHANGED <<past, run, play, reviewPages>>

ReviewPlay ==
  /\ StartPlay \/ EndPlay
  /\ UNCHANGED <<ledger, past, archives, reviewPages>>

ReviewNext ==
  \/ ReviewPlay
  \/ \E p \in Evaluators :
       \/ ReadReport(p) \/ ReportFails(p) \/ Reconnect(p) \/ Save(p) \/ SettleSave(p)
       \/ \E outcome \in Outcomes : ArriveSave(p, outcome)
  \/ \E post \in abandoned, outcome \in Outcomes : ArriveAbandoned(post, outcome)
  \/ \E outcome \in Outcomes :
       \/ ResetUnarchived(outcome)
       \/ \E n \in 0..Len(ledger) : Capture(SubSeq(ledger, 1, n), outcome)
  \/ \E outcome \in {"ok", "lost"} : ResetAborted(outcome)
  \/ ResetReview

ReviewSpec == PortalInit /\ ReviewInit /\ [][ReviewNext]_reviewVars

-------------------------------------------------------------------------------
LedgerOf(r) == IF r = run THEN ledger ELSE past[r]

\* Every judgment was made in view of the one that it supersedes, in the run that
\* was on its author's screen, and once, although pages save at the same time, lose
\* answers, and have saves arrive after they gave up on them.
JudgmentsInformed ==
  \A r \in 1..run :
    LET events == LedgerOf(r) IN
      \A n \in Judged(events) :
        LET judgment == events[n]
            previous == Standing(events, n)
        IN /\ judgment.revision = previous.revision + 1
           /\ judgment.supersedes = previous.save
           /\ saves[judgment.save] = [run |-> r, shown |-> judgment.supersedes]
           /\ \A m \in Judged(events) \ {n} : events[m].save # judgment.save

\* An archive is the ledger up to its own audit, exactly and once; every run that was
\* left has one with all of its judgments.
ArchivesExact ==
  /\ \A a \in archives :
       /\ IsStrictPrefix(a.events, LedgerOf(a.run))
       /\ LedgerOf(a.run)[Len(a.events) + 1] = [type |-> "archive", number |-> a.number]
       /\ \A b \in archives \ {a} : <<a.run, a.events>> # <<b.run, b.events>>
  /\ \A r \in 1..run - 1 :
       \E a \in archives : a.run = r /\ Judged(a.events) = Judged(past[r])
===============================================================================
