------------------------------ MODULE ImpactStage ------------------------------
(***************************************************************************)
(* The impact and recovery stage of a run (orchestrator/impact.py and the  *)
(* action module 07), on top of StageRun: the disposable file fixture that *)
(* is marked, restored and rolled back file by file, checkpoint DP4 with   *)
(* its branches, the recovery brief, the end of play and the reset that    *)
(* provisions the next run's fixture.                                      *)
(***************************************************************************)
EXTENDS StageRun

CONSTANTS Files,          \* the names of FIXTURE_CONTENTS
          MaxChecks       \* bound: recorded health validations of a run

ASSUME ImpactAssumption ==
  /\ Files # {} /\ IsFiniteSet(Files)
  /\ MaxChecks \in Nat \ {0}

VARIABLES fixture,        \* what is in live/ and staging/; known-good/ is never written
          damaged,        \* history: a way back failed and the files were not
                          \* restored since
          defence,        \* what prevention() reads of EndpointAdState: the task is
                          \* active; the host is isolated and the account is gone
          earlier,        \* what the earlier stages have: see EarlierFacts
          impact,         \* prepared, applied and last_impact_request (undo)
          validated,      \* validation_event_id, numbered; 0 for None
          checks,         \* how many validations have been recorded
          brief,          \* the recovery brief
          review,         \* final_review
          left            \* the fixtures that earlier runs left behind

impactVars == <<stageVars, fixture, damaged, defence, earlier, impact, validated,
                checks, brief, review, left>>

ImpactBranches == {"ACT-08A", "ACT-08B"}
ImpactItems    == {"PRE-03", "MSEL-08", "END-01"} \union ImpactBranches

\* The results of DP2 and DP3, the delivered branch of DP3, and every other source
\* and checkpoint that END-01 asks for.
EarlierFacts == {"DP2", "DP3", "outcome", "sources"}

Needed(fact) ==
  CASE fact = "outcome" -> {"DP3"}
    [] fact = "sources" -> {"DP2", "DP3", "outcome"}
    [] OTHER            -> {}

\* A file counts with its whole content: one that was cut off is not in live or staged.
Untouched == [live |-> Files, staged |-> {}, marked |-> {}, note |-> FALSE]

Marked(variant) ==
  IF variant = "realized"
  THEN [live |-> {}, staged |-> Files, marked |-> Files, note |-> TRUE]
  ELSE [live |-> Files, staged |-> {}, marked |-> Files, note |-> FALSE]

Healthy == fixture = Untouched

NoBrief == [sound |-> FALSE, cites |-> 0]

FreshRun ==
  /\ fixture' = Untouched /\ damaged' = FALSE
  /\ defence' = [active |-> FALSE, contained |-> FALSE]
  /\ earlier' = {}
  /\ impact' = [prepared |-> FALSE, applied |-> FALSE, undo |-> "none"]
  /\ validated' = 0 /\ checks' = 0 /\ brief' = NoBrief /\ review' = "none"

ImpactInit ==
  /\ phase = "ready"
  /\ NewStage(ImpactItems, {"impact", "impact_automation"})
  /\ fixture = Untouched /\ damaged = FALSE
  /\ defence = [active |-> FALSE, contained |-> FALSE]
  /\ earlier = {}
  /\ impact = [prepared |-> FALSE, applied |-> FALSE, undo |-> "none"]
  /\ validated = 0 /\ checks = 0 /\ brief = NoBrief /\ review = "none"
  /\ left = {}

-------------------------------------------------------------------------------
\* What the other stages do meanwhile.

\* Participants' actions on the endpoint, and ACT-04B creating the account.
Defend ==
  /\ \/ /\ phase = "running"
        /\ \/ defence' = [defence EXCEPT !.active = FALSE]
           \/ defence' = [defence EXCEPT !.contained = TRUE]
     \/ /\ phase \in {"running", "paused"}
        /\ defence' = [defence EXCEPT !.contained = FALSE]
  /\ UNCHANGED <<stageVars, fixture, damaged, earlier, impact, validated, checks,
                 brief, review, left>>

EarlierStages ==
  /\ phase \in {"running", "paused"}
  /\ \E fact \in EarlierFacts \ earlier :
       Needed(fact) \subseteq earlier /\ earlier' = earlier \union {fact}
  /\ UNCHANGED <<stageVars, fixture, damaged, defence, impact, validated, checks,
                 brief, review, left>>

-------------------------------------------------------------------------------
\* Mutant: the task is not looked at.
Prevented_Bug == impact.prepared /\ defence.contained

\* prevention(): DP4 looks at the endpoint alone.
Prevented == impact.prepared /\ defence.contained /\ ~defence.active

\* evaluate_recovery(); an original is never changed, only moved.
Recovered ==
  /\ Healthy
  /\ validated # 0 /\ brief.cites = validated
  /\ brief.sound

\* The variant follows the task, whatever DP4 said.
Variant == IF defence.active THEN "realized" ELSE "blocked"

\* Files are moved and marked one after the other: what an interrupted
\* apply_markers() finds, "done" files being finished and the file "at" moved.
Interrupted(variant, done, at) ==
  LET moved == IF variant = "realized" THEN done \union at ELSE {}
  IN [live |-> Files \ moved, staged |-> moved, marked |-> done, note |-> FALSE]

\* _restore_snapshot(): live/ is emptied and written again, then staging/: what an
\* interrupted replacement of the files by those of "to" may leave.
Between(from, to) ==
  [live : SUBSET from.live, staged : {from.staged}, marked : SUBSET from.marked,
   note : {FALSE, from.note}]
  \union
  [live : SUBSET to.live, staged : {from.staged}, marked : SUBSET to.marked,
   note : {FALSE, to.note}]
  \union
  [live : {to.live}, staged : (SUBSET from.staged) \union (SUBSET to.staged),
   marked : {to.marked}, note : {to.note}]

\* How a file operation breaks off: not at all; at one file or at the deadline, with
\* the disk usable again; or for good, so that the way back fails as well.
Breaks == {"none", "passing", "lasting"}

\* Mutant: the way back forgets staging/.
AfterFault_Bug(snapshot, partials, break) ==
  IF break = "passing" THEN {[snapshot EXCEPT !.staged = p.staged] : p \in partials}
  ELSE UNION {Between(p, snapshot) : p \in partials}

\* The except branches of apply_markers() and restore_fixture(): back to the snapshot,
\* from any of the states that the interrupted operation may have reached.
AfterFault(snapshot, partials, break) ==
  IF break = "passing" THEN {snapshot}
  ELSE UNION {Between(p, snapshot) : p \in partials}

ImpactStates(i) == IF i = "PRE-03" THEN {"ready"} ELSE {"running"}

\* _transition() and apply_markers(): what stops a step; scored: DP4 by now.
ImpactWorks(i, scored) ==
  CASE i = "PRE-03"  -> Healthy
    [] i = "MSEL-08" -> "outcome" \in earlier
    [] i = "END-01"  ->
         /\ impact.applied /\ "sources" \in earlier /\ scored # "none"
         /\ \A s \in {"PRE-03", "MSEL-08", IF scored = "pass" THEN "ACT-08A" ELSE "ACT-08B"} :
              item[s] = "delivered"
    [] OTHER         -> Healthy

\* handle() refuses a branch that DP4 did not select without calling the adapter.
Refused(i, scored) ==
  /\ i \in ImpactBranches
  /\ scored # (IF i = "ACT-08A" THEN "pass" ELSE "miss") \/ ~impact.prepared

AdapterFor(i) == IF i \in ImpactBranches THEN "impact" ELSE "impact_automation"

ImpactDelivery(i, scored, break, late, lost, unpublished) ==
  IF Refused(i, scored)
  THEN [status |-> "failed", applied |-> FALSE,
        good |-> FALSE, published |-> "none"]
  ELSE Delivery(AdapterFor(i), i, ImpactStates(i),
                ImpactWorks(i, scored) /\ break = "none", late, lost, unpublished)

\* A branch that apply_markers() has begun can break off between two files.
MayBreak(i, scored, late, lost, unpublished) ==
  /\ i \in ImpactBranches /\ ~Refused(i, scored) /\ phase = "running" /\ Healthy
  /\ lost = "none" /\ late = "never" /\ ~unpublished

ImpactDelivered(i, d, break) ==
  /\ published' = [published EXCEPT ![i] = d.published]
  /\ fixture' \in
       IF i \notin ImpactBranches THEN {fixture}
       ELSE IF d.applied THEN {Marked(Variant)}
       ELSE IF break # "none"
       THEN AfterFault(fixture,
              {Interrupted(Variant, done, at) :
                 done \in SUBSET Files, at \in {{}} \union {{f} : f \in Files}},
              break)
       ELSE {fixture}
  /\ damaged' = (damaged \/ (break = "lasting" /\ fixture' # fixture))
  /\ defence' = IF i = "PRE-03" /\ d.applied THEN [defence EXCEPT !.active = TRUE]
                ELSE defence
  /\ impact' = CASE i = "PRE-03" /\ d.applied -> [impact EXCEPT !.prepared = TRUE]
                 [] i \in ImpactBranches /\ d.good ->
                      [impact EXCEPT !.applied = TRUE, !.undo = "held"]
                 [] OTHER -> impact
  /\ validated' = IF i \in ImpactBranches /\ d.good THEN 0 ELSE validated
  /\ review' = IF i = "END-01" /\ d.applied
               THEN (IF Recovered THEN "passed" ELSE "missed") ELSE review
  /\ UNCHANGED <<adapters, earlier, checks, brief, left>>

\* silent: the sink refuses the controller's own event after the last item's
\* delivery, and the run is not completed.
DeliverImpact(i) ==
  /\ Open(i)
  /\ \E late \in Lateness, lost \in Losses, unpublished, silent \in BOOLEAN,
        break \in Breaks :
       LET d == ImpactDelivery(i, result, break, late, lost, unpublished)
       IN /\ Fault(late, lost, unpublished \/ break # "none" \/ silent)
          /\ break # "none" => MayBreak(i, result, late, lost, unpublished)
          /\ silent => i = "END-01" /\ d.status = "delivered"
          /\ item' = [item EXCEPT ![i] = d.status]
          /\ phase' = IF i = "END-01" /\ d.status = "delivered" /\ ~silent
                      THEN "completed" ELSE phase
          /\ ImpactDelivered(i, d, break)
  /\ UNCHANGED result

\* resolve(): only in play, with a healthy and prepared source.
ResolveDp4 ==
  /\ phase = "running" /\ result = "none"
  /\ impact.prepared /\ item["PRE-03"] = "delivered" /\ Healthy
  /\ \A i \in ImpactBranches : item[i] = "pending"
  /\ {"DP2", "DP3"} \subseteq earlier
  /\ result' = IF Prevented THEN "pass" ELSE "miss"
  /\ \E visited \in 0..2, late \in Lateness, lost \in Losses,
        unpublished \in BOOLEAN, break \in Breaks :
       LET visit == BranchVisit("ACT-08A", "ACT-08B", Prevented, visited)
           d == ImpactDelivery(visit.match, result', break, late, lost, unpublished)
       IN /\ Fault(late, lost, unpublished \/ break # "none" \/ visited < 2)
          /\ break # "none" => MayBreak(visit.match, result', late, lost, unpublished)
          /\ item' = Visited(visit, d.status)
          /\ IF visit.runs THEN ImpactDelivered(visit.match, d, break)
             ELSE UNCHANGED <<published, adapters, fixture, damaged, defence, earlier,
                              impact, validated, checks, brief, review, left>>
  /\ UNCHANGED phase

-------------------------------------------------------------------------------
\* Recovery.

RecoveryDefinition(r) ==
  [roles |-> {"cloud_responder", "facilitator"}, target |-> r,
   states |-> IF r = "restore" THEN {"running"} ELSE {"running", "stopped", "ready"}]

\* Mutant: a preview counts as an observation.
Observed_Bug(outcome, dry) == Successful(outcome) /\ ~outcome.cached

Observed(outcome, dry) == Successful(outcome) /\ ~outcome.cached /\ ~dry

\* The observation of a call that was executed now is evidence; a restore takes
\* an earlier validation back.
RecoveryRecorded(r, fresh) ==
  CASE fresh /\ r = "validate" -> validated' = checks + 1 /\ checks' = checks + 1
    [] fresh /\ r = "restore"  -> validated' = 0 /\ UNCHANGED checks
    [] OTHER                   -> UNCHANGED <<validated, checks>>

\* restore_fixture() empties live/, then staging/, then copies known-good/.
Emptied == [live |-> {}, staged |-> {}, marked |-> {}, note |-> FALSE]

RestoreBroken ==
  Between(fixture, Emptied) \union {[Emptied EXCEPT !.live = s] : s \in SUBSET Files}

RestoreFixture(applied, break) ==
  IF applied THEN {Untouched}
  ELSE IF break = "none" THEN {fixture}
  ELSE AfterFault(fixture, RestoreBroken, break)

Damaged(applied, break, next) ==
  ~applied /\ (damaged \/ (break = "lasting" /\ next # fixture))

\* recover(), each request under its own key (IdentityStage has keys that are used
\* again); unpublished: the sink refuses the observation.
Recover(r, dry) ==
  /\ impact.applied
  /\ \E late \in Lateness, lost \in Losses, unpublished \in BOOLEAN, break \in Breaks :
       LET works == IF r = "restore" THEN break = "none" ELSE Healthy
           outcome == Submission("impact", RecoveryDefinition(r), r, "cloud_responder",
                                 OwnKey, dry, works, late, lost)
           fresh == Observed(outcome, dry)
           restored == outcome.applied /\ r = "restore"
       IN /\ Fault(late, lost, unpublished \/ break # "none")
          /\ break # "none" => /\ r = "restore" /\ ~dry /\ phase = "running"
                               /\ lost = "none" /\ late = "never"
          /\ unpublished => fresh
          /\ fixture' \in RestoreFixture(restored, break)
          /\ damaged' = Damaged(restored, break, fixture')
          /\ Submitted("impact", OwnKey, outcome)
          /\ RecoveryRecorded(r, fresh /\ ~unpublished)
          /\ checks' <= MaxChecks
  /\ UNCHANGED <<phase, item, result, published, defence, earlier, impact, brief,
                 review, left>>

\* rollback(): a token that is used once, for the untouched files of before the
\* branch.  When it breaks off, or raises after it, the spent request stays in place.
StaffRollback ==
  /\ impact.undo = "held"
  /\ \/ /\ fixture' = Untouched
        /\ impact' = [impact EXCEPT !.undo = "none"]
        /\ validated' = 0
        /\ UNCHANGED faults
     \/ /\ fixture' \in Between(fixture, Untouched)
        /\ impact' = [impact EXCEPT !.undo = "spent"]
        /\ Fault("never", "last", FALSE)
        /\ UNCHANGED validated
  /\ damaged' = (fixture' # Untouched)
  /\ UNCHANGED <<phase, item, result, published, adapters, defence, earlier, checks,
                 brief, review, left>>

\* submit_brief(): the references are impact evidence of this run.
SubmitBrief(sound, cites) ==
  /\ phase = "running" /\ impact.applied
  /\ cites \in {0, validated}
  /\ brief' = [sound |-> sound, cites |-> cites]
  /\ UNCHANGED <<stageVars, fixture, damaged, defence, earlier, impact, validated,
                 checks, review, left>>

\* restore_for_reset() trusts neither the result nor the fixture alone.
RestoredForReset(outcome, restored) == Successful(outcome) /\ restored = Untouched

\* reset(): the old fixture is restored through an adapter of its own, then the
\* next run's fixture is provisioned; a fault leaves the run as it was, but for
\* the old files.
ResetImpact ==
  /\ phase \in {"stopped", "completed"}
  /\ \E late \in Lateness, lost \in Losses, unpublished \in BOOLEAN, break \in Breaks :
       LET outcome == Execute(NewAdapter,
                        [roles |-> {"technical_operator"}, target |-> "reset",
                         states |-> {"stopped"}],
                        [key |-> OwnKey, print |-> "reset", role |-> "technical_operator",
                         target |-> "reset", dry |-> FALSE],
                        "stopped", break = "none", late, lost)
       IN /\ break # "none" => lost = "none" /\ late = "never" /\ ~unpublished
          /\ \E restored \in RestoreFixture(outcome.applied, break) :
               IF RestoredForReset(outcome, restored) /\ ~unpublished
               THEN Rebuild /\ FreshRun /\ left' = left \union {restored}
               ELSE /\ Fault(late, lost, unpublished \/ break # "none")
                    /\ fixture' = restored
                    /\ damaged' = Damaged(outcome.applied, break, restored)
                    /\ UNCHANGED <<phase, item, result, published, adapters, defence,
                                   earlier, impact, validated, checks, brief, review,
                                   left>>

ImpactControl ==
  /\ \/ \E i \in ImpactItems : SkipItem(i)
     \/ Begin({"PRE-03"}) \/ Pause \/ Resume \/ StopPlay
  /\ UNCHANGED <<fixture, damaged, defence, earlier, impact, validated, checks, brief,
                 review, left>>

Recoveries == {"restore", "validate"}

ImpactNext ==
  \/ Defend
  \/ EarlierStages
  \/ \E i \in ImpactItems : DeliverImpact(i)
  \/ ResolveDp4
  \/ \E r \in Recoveries, dry \in BOOLEAN : Recover(r, dry)
  \/ StaffRollback
  \/ \E sound \in BOOLEAN, cites \in 0..MaxChecks : SubmitBrief(sound, cites)
  \/ ImpactControl
  \/ ResetImpact

ImpactSpec == ImpactInit /\ [][ImpactNext]_impactVars

-------------------------------------------------------------------------------
\* Between two calls the fixture is untouched or carries one variant as a whole,
\* although files are moved, marked, copied and put back one by one and any of those
\* may fail: half made files mean that the way back failed too, and are gone after the
\* next restore, roll-back or reset that succeeds.
ImpactAllOrNothing ==
  damaged \/ fixture \in {Untouched, Marked("blocked"), Marked("realized")}

\* A recorded health validation is true of the fixture as it is now: dry runs,
\* late results and refused evidence never record one, and every later change takes
\* it back.  Only a restore or a roll-back that broke off leaves it recorded beside
\* damaged files, which evaluate_recovery() looks at again.
ValidationIsCurrent == validated # 0 => Healthy \/ damaged

\* After a passed DP4 no original is ever moved away: the variant follows the
\* task at the time of the branch, which nothing can arm again by then, and no way
\* back brings moved files or the note.
PreventedStaysBlocked ==
  result = "pass" => fixture.staged = {} /\ ~fixture.note /\ ~defence.active

\* A completed run has all the sources of its review delivered with all of their
\* evidence, and a review that passed rests on a brief that was complete.
CompletedIsObserved ==
  phase = "completed" =>
    /\ review # "none" /\ impact.applied /\ result # "none" /\ "sources" \in earlier
    /\ \A i \in {"PRE-03", "MSEL-08", "END-01"} \union
             {IF result = "pass" THEN "ACT-08A" ELSE "ACT-08B"} :
         item[i] = "delivered" /\ published[i] = "all"
    /\ review = "passed" => brief.sound /\ brief.cites # 0

\* No earlier run leaves markers or moved files in its directory.
RunsLeaveNothing == left \subseteq {Untouched}
===============================================================================
