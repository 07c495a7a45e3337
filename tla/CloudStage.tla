------------------------------- MODULE CloudStage -------------------------------
(***************************************************************************)
(* The mock-cloud stage of a run (orchestrator/cloud.py and the action     *)
(* module 06), on top of StageRun: the reviewed steps ACT-05 to ACT-07,    *)
(* the participants' four actions and their exposure assessment, the audit *)
(* that is written step by step, and checkpoint DP3 with its branches.     *)
(***************************************************************************)
EXTENDS StageRun, Sequences, FiniteSetsExt

CONSTANT Claims           \* the counts that assessments claim

ASSUME CloudAssumption == Claims \subseteq 0..25

VARIABLES cloud,          \* MockCloudState, with its preserved evidence
          played,         \* access_staged, policy_attempted and the branches made
          audit,          \* CloudStage.audit
          assessment      \* CloudStage.assessment

cloudVars == <<stageVars, cloud, played, audit, assessment>>

CloudSources  == {"ACT-05", "ACT-06"}
CloudBranches == {"ACT-07A", "ACT-07B"}
CloudItems    == CloudSources \union CloudBranches

CloudResponses == {"key.revoke", "principal.disable", "policy.restore",
                   "evidence.preserve"}

Nothing == [count |-> -1, audit |-> {}]

\* altered: policy id, hash and bulk flag, which change together.
CloudBaseline ==
  [enabled |-> TRUE, key |-> TRUE, altered |-> FALSE, count |-> 0, kept |-> Nothing]

Unassessed == [sound |-> FALSE, count |-> -1, cites |-> [type |-> "none", count |-> 0]]

CloudInit ==
  /\ phase = "ready"
  /\ NewStage(CloudItems, {"cloud", "cloud_automation"})
  /\ cloud = CloudBaseline
  /\ played = {}
  /\ audit = {}
  /\ assessment = Unassessed

-------------------------------------------------------------------------------
\* MockCloudState.access_decision().
Decision(state, bulk) == state.enabled /\ state.key /\ (bulk => state.altered)

Allowed(bulk) == Decision(cloud, bulk)

Remediate(r) ==
  CASE r = "key.revoke"        -> [cloud EXCEPT !.key = FALSE]
    [] r = "principal.disable" -> [cloud EXCEPT !.enabled = FALSE, !.key = FALSE]
    [] r = "policy.restore"    -> [cloud EXCEPT !.altered = FALSE]
    [] r = "evidence.preserve" ->
         IF cloud.kept = Nothing
         THEN [cloud EXCEPT !.kept = [count |-> cloud.count, audit |-> audit]]
         ELSE cloud

\* Dry runs and keys that are used again change no fixture (IdentityStage has
\* them); here every request is an execution under its own key, of which a deadline
\* or a refused event changes the answer alone, or leaves nothing behind.
CloudRespond(r) ==
  LET outcome == Submission("cloud",
                   [roles |-> {"cloud_responder", "facilitator"}, target |-> r,
                    states |-> {"running"}],
                   r, "cloud_responder", OwnKey, FALSE, TRUE, "never", "none")
  IN /\ cloud' = IF outcome.applied THEN Remediate(r) ELSE cloud
     /\ Submitted("cloud", OwnKey, outcome)
     /\ UNCHANGED <<phase, item, result, published, faults, played, audit, assessment>>

\* submit_assessment(): a claim that cites events of this run's audit, which may
\* be made again, after DP3 too.  sound: the right principal and no overclaim.
\* One cited count stands for the references, since DP3 looks for no other event.
Assess(sound, count, event) ==
  /\ phase = "running" /\ "ACT-05" \in played
  /\ event \in audit /\ event.type = "accessed"
  /\ assessment' = [sound |-> sound, count |-> count, cites |-> event]
  /\ UNCHANGED <<stageVars, cloud, played, audit>>

-------------------------------------------------------------------------------
CloudStates(i) ==
  IF i \in CloudBranches THEN {"running", "paused"} ELSE {"running"}

\* Mutant: the bulk request is not tied to the result of DP3.
CloudWorksUnscored_Bug(i, scored) ==
  /\ i # "ACT-05" => "ACT-05" \in played
  /\ i \in CloudBranches => "ACT-06" \in played
  /\ i = "ACT-07A" => ~Allowed(TRUE)

\* Mutant: a step does not ask for the access that comes before it.
CloudWorksUnstaged_Bug(i, scored) ==
  /\ i = "ACT-07A" => scored = "pass" /\ ~Allowed(TRUE)
  /\ i = "ACT-07B" => scored = "miss"

\* _transition(): what stops a step; scored: the result of DP3 by now.
CloudWorks(i, scored) ==
  /\ i # "ACT-05" => "ACT-05" \in played
  /\ i \in CloudBranches => "ACT-06" \in played
  /\ i = "ACT-07A" => scored = "pass" /\ ~Allowed(TRUE)
  /\ i = "ACT-07B" => scored = "miss"

\* _read_records() overwrites the cumulative record.
Advance(i) ==
  CASE i = "ACT-05" /\ Allowed(FALSE) -> [cloud EXCEPT !.count = 1]
    [] i = "ACT-06" /\ Allowed(FALSE) -> [cloud EXCEPT !.count = 5, !.altered = TRUE]
    [] i \in CloudBranches /\ Allowed(TRUE) -> [cloud EXCEPT !.count = 25]
    [] OTHER -> cloud

\* Mutant: the count was read before the step.
CloudEvidence_Bug(i, state) == <<[type |-> "accessed", count |-> cloud.count]>>

\* _evidence(): the events of a step in their order, about the state it left
\* behind; the last one is the cumulative count.
CloudEvidence(i, state) ==
  LET open(bulk) == Decision(state, bulk)
      event(type) == [type |-> type, count |-> state.count]
      facts == CASE i = "ACT-05" ->
                      IF open(FALSE) THEN <<"authenticated", "enumerated", "accessed">>
                      ELSE <<"authentication_blocked", "accessed">>
                 [] i = "ACT-06" ->
                      IF open(FALSE) THEN <<"policy_changed", "accessed">>
                      ELSE <<"change_blocked", "accessed">>
                 [] OTHER        ->
                      IF open(TRUE) THEN <<"bulk_completed", "claimed", "accessed">>
                      ELSE <<"bulk_blocked", "accessed">>
  IN [n \in DOMAIN facts |-> event(facts[n])]

\* _handle_locked(): the audit holds the events that the sink accepted, which
\* are all of them unless it refuses one after the first "upto".
CloudDelivery(i, scored, late, lost, upto) ==
  LET step(refused) == Delivery("cloud_automation", i, CloudStates(i),
                                CloudWorks(i, scored), late, lost, refused)
      good == step(FALSE).good
      after == IF step(FALSE).applied THEN Advance(i) ELSE cloud
      events == CloudEvidence(i, after)
      refused == good /\ upto < Len(events)
  IN [step   |-> step(refused), cloud |-> after, refused |-> refused,
      events |-> IF good THEN {events[n] : n \in DOMAIN events \cap 1..upto} ELSE {}]

CloudDelivered(i, d) ==
  /\ published' = [published EXCEPT ![i] = d.step.published]
  /\ UNCHANGED adapters
  /\ cloud' = d.cloud
  /\ played' = IF d.step.applied THEN played \union {i} ELSE played
  /\ audit' = audit \union d.events

\* The most events of a step is three.
DeliverCloud(i) ==
  /\ Open(i)
  /\ \E late \in Lateness, lost \in Losses, upto \in 0..3 :
       LET d == CloudDelivery(i, result, late, lost, upto)
       IN /\ Fault(late, lost, d.refused)
          /\ item' = [item EXCEPT ![i] = d.step.status]
          /\ CloudDelivered(i, d)
  /\ UNCHANGED <<phase, result, assessment>>

-------------------------------------------------------------------------------
\* evaluate(): the seven checks of DP3.
CloudPassed ==
  /\ CloudSources \subseteq played
  /\ assessment.sound
  /\ ~cloud.key
  /\ ~cloud.altered
  /\ assessment.count = cloud.count
  /\ assessment.cites.type = "accessed" /\ assessment.cites.count = assessment.count

\* resolve(): only with both sources delivered and both branches still open.
ResolveDp3 ==
  /\ phase \in {"running", "paused"}
  /\ result = "none"
  /\ CloudSources \subseteq played
  /\ \A i \in CloudSources : item[i] = "delivered"
  /\ \A i \in CloudBranches : item[i] = "pending"
  /\ result' = IF CloudPassed THEN "pass" ELSE "miss"
  /\ \E visited \in 0..2, late \in Lateness, lost \in Losses, upto \in 0..3 :
       LET visit == BranchVisit("ACT-07A", "ACT-07B", CloudPassed, visited)
           d == CloudDelivery(visit.match, result', late, lost, upto)
       IN /\ Fault(late, lost, d.refused \/ visited < 2)
          /\ item' = Visited(visit, d.step.status)
          /\ IF visit.runs THEN CloudDelivered(visit.match, d)
             ELSE UNCHANGED <<published, adapters, cloud, played, audit>>
  /\ UNCHANGED <<phase, assessment>>

ResetCloud ==
  /\ Rebuild
  /\ cloud' = CloudBaseline /\ played' = {} /\ audit' = {} /\ assessment' = Unassessed

CloudControl ==
  /\ \/ \E i \in CloudItems : SkipItem(i)
     \/ Begin({}) \/ Pause \/ Resume \/ StopPlay
  /\ UNCHANGED <<cloud, played, audit, assessment>>

CloudNext ==
  \/ \E r \in CloudResponses : CloudRespond(r)
  \/ \E sound \in BOOLEAN, count \in Claims, event \in audit :
       Assess(sound, count, event)
  \/ \E i \in CloudItems : DeliverCloud(i)
  \/ ResolveDp3
  \/ CloudControl
  \/ ResetCloud

CloudSpec == CloudInit /\ [][CloudNext]_cloudVars

-------------------------------------------------------------------------------
\* The claim of a full theft is found in the audit only when the bulk request
\* really read all records, which takes a missed DP3; and a passed DP3 stays
\* true of the fixtures, with an exposure that can be cited.
ClaimsFollowMiss ==
  /\ cloud.count = 25 \/ (\E e \in audit : e.type = "claimed") => result = "miss"
  /\ \A e \in audit : e.type = "claimed" => cloud.count = 25
  /\ result = "pass" =>
       ~Allowed(TRUE) /\ ~cloud.altered /\ [type |-> "accessed", count |-> cloud.count] \in audit

\* When every step that was made also left all of its evidence, the count that
\* participants find in the audit is the exposure that DP3 compares with.
ExposureIsEvidenced ==
  (\A i \in played : published[i] = "all") =>
    cloud.count = Max({0} \union {e.count : e \in {f \in audit : f.type = "accessed"}})

\* The preserved evidence is a view the run really offered, at most as much as
\* was exposed and audited later, and it does not survive into the next run.
PreservedIsOfThisRun ==
  cloud.kept # Nothing => cloud.kept.count <= cloud.count /\ cloud.kept.audit \subseteq audit

\* The confirmed exposure of a run never shrinks, although each step overwrites it.
ExposureOnlyGrows ==
  [][cloud'.count < cloud.count => phase' = "ready"]_cloudVars
===============================================================================
