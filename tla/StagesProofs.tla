------------------------------ MODULE StagesProofs ------------------------------
(***************************************************************************)
(* Proofs about the three stages, and about the runs of MCStages, in which *)
(* the initial state chooses the stage: for any selection of the           *)
(* participants' actions, any idempotency keys, any claims, any files, any *)
(* requests and any number of faults.                                      *)
(***************************************************************************)
EXTENDS MCStages, TLAPS

-------------------------------------------------------------------------------
(***************************************************************************)
(* The identity stage.                                                     *)
(***************************************************************************)

EstateOK ==
  estate \in [session : BOOLEAN, factor : BOOLEAN, enabled : BOOLEAN,
              version : Nat \ {0}, isolated : BOOLEAN, preserved : BOOLEAN,
              account : {"absent", "disabled", "enabled"}]

ContainmentInv == EstateOK /\ BlockedMeansContained

\* An effect stands only when the handler did what was asked of it: neither a cached
\* answer, nor a denial, nor a lost first event applies anything.
LEMMA AppliedMeansWorked ==
  ASSUME NEW adapter, NEW definition, NEW request, NEW runState, NEW works \in BOOLEAN,
         NEW late, NEW lost,
         Execute(adapter, definition, request, runState, works, late, lost).applied
  PROVE  works
BY DEF Execute, Applied

\* No action of a participant takes a part of the containment back.
LEMMA ResponsesContain ==
  ASSUME EstateOK, NEW r \in Responses, estate' = ContainBy(r)
  PROVE  EstateOK' /\ (PathsContained => PathsContained')
<1>1. r \in {"session.revoke", "factor.remove", "account.disable", "credential.reset",
             "host.isolate", "artifact.preserve", "persistence.disable",
             "persistence.remove"}
  BY IdentityAssumption DEF IdentityResponses, EndpointResponses
<1>2. CASE r \in {"session.revoke", "factor.remove", "account.disable"}
  BY <1>2 DEF EstateOK, ContainBy, ContainIdentity, ContainEndpoint,
                     IdentityResponses, PathsContained
<1>3. CASE r = "credential.reset"
  BY <1>3 DEF EstateOK, ContainBy, ContainIdentity, ContainEndpoint,
                     IdentityResponses, PathsContained
<1>4. CASE r \in {"host.isolate", "artifact.preserve"}
  BY <1>4 DEF EstateOK, ContainBy, ContainIdentity, ContainEndpoint,
                     IdentityResponses, PathsContained
<1>5. CASE r \in {"persistence.disable", "persistence.remove"}
  BY <1>5 DEF EstateOK, ContainBy, ContainIdentity, ContainEndpoint,
                     IdentityResponses, PathsContained
<1>6. QED
  BY <1>1, <1>2, <1>3, <1>4, <1>5

LEMMA RespondContains ==
  ASSUME ContainmentInv, NEW r \in Responses, NEW role, NEW key, NEW dry,
         Respond(r, role, key, dry)
  PROVE  ContainmentInv'
<1>1. UNCHANGED <<result, simulated>> /\ (estate' = ContainBy(r) \/ estate' = estate)
  BY DEF Respond
<1>2. EstateOK' /\ (PathsContained => PathsContained')
  BY <1>1, ResponsesContain DEF ContainmentInv, EstateOK, PathsContained
<1>3. QED
  BY <1>1, <1>2 DEF ContainmentInv, BlockedMeansContained

\* A step makes no containment undone, and the passing branch is only made when the
\* fixtures are contained.
LEMMA StepContains ==
  ASSUME ContainmentInv, NEW i \in IdentityItems, NEW late, NEW lost,
         NEW unpublished \in BOOLEAN,
         StepDelivered(i, StepDelivery(i, late, lost, unpublished))
  PROVE  /\ EstateOK' /\ PathsContained' = PathsContained
         /\ "ACT-04A" \in simulated' => PathsContained
<1> DEFINE d == StepDelivery(i, late, lost, unpublished)
<1>1. /\ simulated' = IF d.applied THEN simulated \union {i} ELSE simulated
      /\ estate' \in {estate, [estate EXCEPT !.account = "enabled"]}
  BY DEF StepDelivered
<1>2. d.applied => StepWorks(i)
  <2>1. StepWorks(i) \in BOOLEAN
    BY DEF StepWorks
  <2>2. QED
    BY <2>1, AppliedMeansWorked DEF StepDelivery, Delivery
<1>3. EstateOK' /\ PathsContained' = PathsContained
  BY <1>1 DEF ContainmentInv, EstateOK, PathsContained
<1>4. i = "ACT-04A" /\ d.applied => PathsContained
  BY <1>2 DEF StepWorks
<1>5. QED
  BY <1>1, <1>3, <1>4 DEF ContainmentInv, BlockedMeansContained

LEMMA DeliverContains ==
  ASSUME ContainmentInv, NEW i \in IdentityItems, DeliverStep(i)
  PROVE  ContainmentInv'
<1>1. PICK late \in Lateness, lost \in Losses, unpublished \in BOOLEAN :
        StepDelivered(i, StepDelivery(i, late, lost, unpublished))
  BY DEF DeliverStep
<1>2. UNCHANGED result
  BY DEF DeliverStep
<1>3. QED
  BY <1>1, <1>2, StepContains DEF ContainmentInv, BlockedMeansContained

\* DP2 is passed on the fixtures as they are, and its branch leaves them contained.
LEMMA ResolveContains ==
  ASSUME ContainmentInv, ResolveDp2
  PROVE  ContainmentInv'
<1>1. result' = IF PathsContained THEN "pass" ELSE "miss"
  BY DEF ResolveDp2
<1>2. PICK visited \in 0..2, late \in Lateness, lost \in Losses, unpublished \in BOOLEAN :
        LET visit == BranchVisit("ACT-04A", "ACT-04B", PathsContained, visited)
            d == StepDelivery(visit.match, late, lost, unpublished)
        IN IF visit.runs THEN StepDelivered(visit.match, d)
           ELSE UNCHANGED <<simulated, estate, published, adapters>>
  BY DEF ResolveDp2
<1> DEFINE match == IF PathsContained THEN "ACT-04A" ELSE "ACT-04B"
<1>3. \/ StepDelivered(match, StepDelivery(match, late, lost, unpublished))
      \/ UNCHANGED <<simulated, estate>>
  BY <1>2 DEF BranchVisit
<1>4. match \in IdentityItems
  BY IdentityAssumption DEF Branches
<1>5. CASE StepDelivered(match, StepDelivery(match, late, lost, unpublished))
  BY <1>1, <1>4, <1>5, StepContains DEF ContainmentInv, BlockedMeansContained
<1>6. CASE UNCHANGED <<simulated, estate>>
  BY <1>1, <1>6 DEF ContainmentInv, EstateOK, BlockedMeansContained, PathsContained
<1>7. QED
  BY <1>3, <1>5, <1>6

\* What the controller decides alone, and a reset.
LEMMA ControlContains ==
  ASSUME ContainmentInv, IdentityControl \/ ResetIdentity
  PROVE  ContainmentInv'
<1>1. CASE IdentityControl
  BY <1>1 DEF IdentityControl, SkipItem, Begin, Pause, Resume, StopPlay, ContainmentInv,
              EstateOK, BlockedMeansContained, PathsContained
<1>2. CASE ResetIdentity
  BY <1>2 DEF ResetIdentity, Rebuild, ContainmentInv, EstateOK, Baseline,
              BlockedMeansContained
<1>3. QED
  BY <1>1, <1>2

LEMMA ContainmentInitially == IdentityInit => ContainmentInv
BY DEF IdentityInit, NewStage, Baseline, ContainmentInv, EstateOK, BlockedMeansContained

LEMMA ContainmentKept ==
  ASSUME ContainmentInv, [IdentityNext]_identityVars
  PROVE  ContainmentInv'
<1>1. CASE UNCHANGED identityVars
  BY <1>1 DEF identityVars, stageVars, ContainmentInv, EstateOK, BlockedMeansContained,
              PathsContained
<1>2. CASE IdentityNext
  <2>1. ASSUME NEW r \in Responses, NEW role, NEW key, NEW dry,
               Respond(r, role, key, dry)
        PROVE  ContainmentInv'
    BY <2>1, RespondContains
  <2>2. Repeated \subseteq Responses
    BY IdentityAssumption
  <2>3. QED
    BY <1>2, <2>1, <2>2, DeliverContains, ResolveContains, ControlContains
       DEF IdentityNext
<1>3. QED
  BY <1>1, <1>2

\* identity_slice.py resolve_dp2() and handle(), and the fixtures of the modules 04 and
\* 05: a containment that DP2 scored, or that evidence of a blocked sign-in rests on,
\* is not taken back before the reset, whatever fails and in whatever order
\* participants, facilitators and the clock act.
THEOREM ContainmentIsForGood == IdentitySpec => []BlockedMeansContained
<1>1. ContainmentInv /\ [IdentityNext]_identityVars => ContainmentInv'
  BY ContainmentKept
<1>2. ContainmentInv => BlockedMeansContained
  BY DEF ContainmentInv
<1>3. QED
  BY <1>1, <1>2, ContainmentInitially, PTL DEF IdentitySpec

-------------------------------------------------------------------------------
(***************************************************************************)
(* Evidence and records.  The automation keeps no key of an item, so that  *)
(* a step is never answered from an earlier execution; what the two        *)
(* adapters of the participants keep under a key is a response whose       *)
(* effect still stands.                                                    *)
(***************************************************************************)

\* What a response leaves behind; a removed account may be created again.
Effect(r) ==
  CASE r = "session.revoke"    -> ~estate.session
    [] r = "factor.remove"     -> ~estate.factor
    [] r = "account.disable"   -> ~estate.enabled
    [] r = "credential.reset"  -> estate.version > 1
    [] r = "host.isolate"      -> estate.isolated
    [] r = "artifact.preserve" -> estate.preserved
    [] OTHER                   -> TRUE

Shaped(adapter) == adapter = [results |-> adapter.results, stopped |-> adapter.stopped]

\* What an adapter keeps under its keys.
RecordsHold(adapter) ==
  \A key \in DOMAIN adapter.results :
    /\ adapter.results[key].print[1] \in Responses
    /\ adapter.results[key].status = "executed" => Effect(adapter.results[key].print[1])

StepsBacked ==
  /\ item \in [IdentityItems -> {"pending", "delivered", "failed", "skipped"}]
  /\ published \in [IdentityItems -> {"none", "part", "all"}]
  /\ EvidenceIsBacked

AdaptersHold ==
  /\ adapters = [a \in Devices |-> adapters[a]]
  /\ \A a \in Devices : Shaped(adapters[a])
  /\ DOMAIN adapters["automation"].results = {}
  /\ \A a \in {"identity", "endpoint"} : RecordsHold(adapters[a])

RecordsInv == EstateOK /\ StepsBacked /\ AdaptersHold

LEMMA ResponsesAre ==
  Responses \subseteq {"session.revoke", "factor.remove", "account.disable",
    "credential.reset", "host.isolate", "artifact.preserve", "persistence.disable",
    "persistence.remove"}
BY IdentityAssumption DEF IdentityResponses, EndpointResponses

\* A response has its effect, and takes no other back.
LEMMA ResponseEffect ==
  ASSUME EstateOK, NEW r \in Responses, estate' = ContainBy(r)
  PROVE  Effect(r)' /\ \A q \in Responses : Effect(q) => Effect(q)'
<1>1. CASE r = "session.revoke"
  BY <1>1, ResponsesAre
  DEF EstateOK, ContainBy, ContainIdentity, IdentityResponses, Effect
<1>2. CASE r = "factor.remove"
  BY <1>2, ResponsesAre
  DEF EstateOK, ContainBy, ContainIdentity, IdentityResponses, Effect
<1>3. CASE r = "account.disable"
  BY <1>3, ResponsesAre
  DEF EstateOK, ContainBy, ContainIdentity, IdentityResponses, Effect
<1>4. CASE r = "credential.reset"
  BY <1>4, ResponsesAre
  DEF EstateOK, ContainBy, ContainIdentity, IdentityResponses, Effect
<1>5. CASE r = "host.isolate"
  BY <1>5, ResponsesAre
  DEF EstateOK, ContainBy, ContainEndpoint, IdentityResponses, Effect
<1>6. CASE r = "artifact.preserve"
  BY <1>6, ResponsesAre
  DEF EstateOK, ContainBy, ContainEndpoint, IdentityResponses, Effect
<1>7. CASE r \in {"persistence.disable", "persistence.remove"}
  BY <1>7, ResponsesAre
  DEF EstateOK, ContainBy, ContainEndpoint, IdentityResponses, Effect
<1>8. QED
  BY <1>1, <1>2, <1>3, <1>4, <1>5, <1>6, <1>7, ResponsesAre

\* Doing a response again changes nothing when its effect stands.
LEMMA EffectHolds ==
  ASSUME EstateOK, NEW r \in Responses, Effect(r)
  PROVE  \/ ContainBy(r) = estate
         \/ r = "credential.reset" /\ estate.version > 1
         \/ r \in {"persistence.disable", "persistence.remove"}
<1>1. CASE r = "session.revoke"
  BY <1>1 DEF EstateOK, ContainBy, ContainIdentity, IdentityResponses, Effect
<1>2. CASE r = "factor.remove"
  BY <1>2 DEF EstateOK, ContainBy, ContainIdentity, IdentityResponses, Effect
<1>3. CASE r = "account.disable"
  BY <1>3 DEF EstateOK, ContainBy, ContainIdentity, IdentityResponses, Effect
<1>4. CASE r = "credential.reset"
  BY <1>4 DEF Effect
<1>5. CASE r = "host.isolate"
  BY <1>5 DEF EstateOK, ContainBy, ContainEndpoint, IdentityResponses, Effect
<1>6. CASE r = "artifact.preserve"
  BY <1>6 DEF EstateOK, ContainBy, ContainEndpoint, IdentityResponses, Effect
<1>7. QED
  BY <1>1, <1>2, <1>3, <1>4, <1>5, <1>6, ResponsesAre

\* execute() of safe-action adapters: what is kept of a call that was not answered
\* from the cache is its own result, which is "executed" only when the effect stands.
LEMMA ExecuteKeeps ==
  ASSUME NEW adapter, NEW definition, NEW request, NEW runState, NEW works \in BOOLEAN,
         NEW late, NEW lost, request.dry \in BOOLEAN
  PROVE  LET outcome == Execute(adapter, definition, request, runState, works, late, lost)
             verdict == Status(request, works, late)
         IN /\ \/ outcome.adapter = adapter
               \/ /\ outcome.adapter = Stored(adapter, request, verdict)
                  /\ verdict = "executed" => outcome.applied
            /\ /\ ~Known(adapter, request) /\ ~request.dry /\ Successful(outcome)
               => outcome.applied
<1> DEFINE outcome == Execute(adapter, definition, request, runState, works, late, lost)
           verdict == Status(request, works, late)
<1>1. verdict = "executed" => Applied(request, works, late)
  BY DEF Status, Applied
<1>2. ~request.dry => verdict # "dry_run"
  BY DEF Status
<1> HIDE DEF verdict
<1>3. CASE lost = "first"
  BY <1>3 DEF Execute, Successful
<1>4. CASE lost # "first" /\ Known(adapter, request) /\ SamePrint(adapter, request)
  BY <1>4 DEF Execute
<1>5. CASE /\ lost # "first" /\ ~(Known(adapter, request) /\ SamePrint(adapter, request))
           /\ Denied(adapter, definition, request, runState)
  BY <1>5 DEF Execute, Successful
<1>6. CASE /\ lost # "first" /\ ~(Known(adapter, request) /\ SamePrint(adapter, request))
           /\ ~Denied(adapter, definition, request, runState)
  <2>1. outcome = [reply   |-> IF lost = "last" THEN "raised" ELSE verdict, cached |-> FALSE,
                   adapter |-> Stored(adapter, request, verdict),
                   applied |-> Applied(request, works, late)]
    BY <1>6 DEF Execute, verdict
  <2>2. QED
    BY <1>1, <1>2, <2>1 DEF Successful, verdict
<1>7. QED
  BY <1>3, <1>4, <1>5, <1>6

\* Records that were true stay true when no effect is taken back, and a new one is true
\* when it is "executed" only with its effect standing.
LEMMA RecordsAfter ==
  ASSUME NEW old, Shaped(old), RecordsHold(old), NEW request, NEW verdict, NEW next,
         \A q \in Responses : Effect(q) => Effect(q)',
         \/ next = old
         \/ /\ next = Stored(old, request, verdict)
            /\ request.print[1] \in Responses
            /\ verdict = "executed" => Effect(request.print[1])'
  PROVE  Shaped(next) /\ RecordsHold(next)'
<1>1. CASE next = old
  BY <1>1 DEF RecordsHold
<1>2. CASE /\ next = Stored(old, request, verdict)
           /\ request.print[1] \in Responses
           /\ verdict = "executed" => Effect(request.print[1])'
  <2>1. /\ Shaped(next)
        /\ next.results = [key \in DOMAIN old.results \union {request.key} |->
                             IF key = request.key
                             THEN [print |-> request.print, status |-> verdict]
                             ELSE old.results[key]]
    BY <1>2 DEF Shaped, Stored
  <2>2. ASSUME NEW key \in DOMAIN next.results
        PROVE  /\ next.results[key].print[1] \in Responses
               /\ next.results[key].status = "executed"
                  => Effect(next.results[key].print[1])'
    <3>1. CASE key = request.key
      <4>1. next.results[key] = [print |-> request.print, status |-> verdict]
        BY <2>1, <3>1
      <4>2. next.results[key].print = request.print /\ next.results[key].status = verdict
        BY <4>1
      <4>3. QED
        BY <1>2, <4>2
    <3>2. CASE key # request.key
      <4>1. key \in DOMAIN old.results /\ next.results[key] = old.results[key]
        BY <2>1, <2>2, <3>2
      <4>2. QED
        BY <4>1 DEF RecordsHold
    <3>3. QED
      BY <3>1, <3>2
  <2>3. QED
    BY <2>1, <2>2 DEF RecordsHold
<1>3. QED
  BY <1>1, <1>2

\* A response keeps the records true: it has its effect before its result is stored,
\* and takes no effect of another response back.
LEMMA RespondKeepsRecords ==
  ASSUME RecordsInv, NEW r \in Responses, NEW role, NEW key, NEW dry \in BOOLEAN,
         Respond(r, role, key, dry)
  PROVE  RecordsInv'
<1> DEFINE a == AdapterOf(r)
           request == [key |-> key, print |-> <<r, role, dry>>, role |-> role,
                       target |-> r, dry |-> dry]
           Outcome(late) == Submission(a, ResponseDefinition(r), r, role, key, dry,
                                       ResponseWorks(r), late, "none")
           Result(late) == Status(request, ResponseWorks(r), late)
<1>1. UNCHANGED <<item, published, simulated>>
  BY DEF Respond
<1>2. PICK late : /\ estate' = IF Outcome(late).applied THEN ContainBy(r) ELSE estate
                  /\ Submitted(a, key, Outcome(late))
  BY DEF Respond
<1>3. a \in {"identity", "endpoint"}
  BY DEF AdapterOf
<1>4. /\ EstateOK'
      /\ \A q \in Responses : Effect(q) => Effect(q)'
      /\ Outcome(late).applied => Effect(r)'
  <2>1. CASE estate' = ContainBy(r)
    <3>1. EstateOK'
      BY <2>1, ResponsesContain DEF RecordsInv
    <3>2. QED
      BY <2>1, <3>1, ResponseEffect DEF RecordsInv
  <2>2. CASE estate' = estate /\ ~Outcome(late).applied
    BY <2>2 DEF RecordsInv, EstateOK, Effect
  <2>3. QED
    BY <1>2, <2>1, <2>2
<1>5. StepsBacked'
  BY <1>1 DEF RecordsInv, StepsBacked, EvidenceIsBacked
<1>6. \/ Outcome(late).adapter = adapters[a]
      \/ /\ Outcome(late).adapter = Stored(adapters[a], request, Result(late))
         /\ Result(late) = "executed" => Outcome(late).applied
  <2>1. ResponseWorks(r) \in BOOLEAN
    BY DEF ResponseWorks
  <2>2. request.dry \in BOOLEAN
    OBVIOUS
  <2>3. Outcome(late) = Execute(adapters[a], ResponseDefinition(r), request, phase,
                                ResponseWorks(r), late, "none")
    BY DEF Submission
  <2> HIDE DEF request, a
  <2>4. QED
    BY <2>1, <2>2, <2>3, ExecuteKeeps
<1>7. request.print[1] = r
  OBVIOUS
<1>8. PICK next : next = Outcome(late).adapter
  OBVIOUS
<1>9. Shaped(next) /\ RecordsHold(next)'
  <2>1. Shaped(adapters[a]) /\ RecordsHold(adapters[a])
    BY <1>3 DEF RecordsInv, AdaptersHold, Devices
  <2> HIDE DEF request, a, Outcome, Result
  <2>2. QED
    BY <1>4, <1>6, <1>7, <1>8, <2>1, RecordsAfter
<1>10. ASSUME NEW b \in {"identity", "endpoint"}, NEW old, old = adapters[b]
       PROVE  RecordsHold(old)'
  BY <1>4, <1>10 DEF RecordsInv, AdaptersHold, RecordsHold
<1>11. AdaptersHold'
  <2>1. CASE adapters' = adapters
    BY <1>10, <2>1 DEF RecordsInv, AdaptersHold
  <2>2. CASE adapters' = [adapters EXCEPT ![a] = next]
    <3> HIDE DEF a
    <3>1. /\ adapters' = [b \in Devices |-> IF b = a THEN next ELSE adapters[b]]
          /\ \A b \in Devices : Shaped(adapters[b])
      BY <1>3, <2>2 DEF RecordsInv, AdaptersHold, Devices
    <3>2. ASSUME NEW b \in {"identity", "endpoint"}
          PROVE  RecordsHold(adapters[b])'
      <4>1. PICK kept : kept = adapters'[b]
        OBVIOUS
      <4>2. RecordsHold(kept)'
        BY <1>9, <1>10, <3>1, <4>1 DEF Devices
      <4>3. QED
        BY <4>1, <4>2
    <3>3. /\ adapters' = [b \in Devices |-> adapters'[b]]
          /\ \A b \in Devices : Shaped(adapters'[b])
          /\ adapters'["automation"] = adapters["automation"]
      BY <1>3, <1>9, <3>1 DEF Devices
    <3>4. QED
      BY <3>2, <3>3 DEF RecordsInv, AdaptersHold
  <2>3. QED
    BY <1>2, <1>8, <2>1, <2>2 DEF Submitted
<1>12. QED
  BY <1>4, <1>5, <1>11 DEF RecordsInv

\* An item is answered by its own execution when the adapter keeps no key: a good
\* answer means that its transition was made.
LEMMA DeliveryIsDone ==
  ASSUME NEW a, DOMAIN adapters[a].results = {}, NEW i, NEW states,
         NEW works \in BOOLEAN, NEW late, NEW lost, NEW unpublished \in BOOLEAN
  PROVE  LET d == Delivery(a, i, states, works, late, lost, unpublished)
         IN /\ d.good \in BOOLEAN /\ d.applied \in BOOLEAN
            /\ d.good => d.applied
            /\ d.applied => works
            /\ d.status = IF d.good /\ ~unpublished THEN "delivered" ELSE "failed"
            /\ d.published = IF ~d.good THEN "none" ELSE IF unpublished THEN "part"
                             ELSE "all"
<1> DEFINE request == [key |-> i, print |-> i, role |-> "scenario_engine", target |-> i,
                       dry |-> FALSE]
           definition == [roles |-> {"scenario_engine"}, target |-> i, states |-> states]
           outcome == Execute(adapters[a], definition, request, phase, works, late, lost)
           d == Delivery(a, i, states, works, late, lost, unpublished)
<1>1. /\ d.good = Successful(outcome) /\ d.applied = outcome.applied
      /\ d.status = IF d.good /\ ~unpublished THEN "delivered" ELSE "failed"
      /\ d.published = IF ~d.good THEN "none" ELSE IF unpublished THEN "part" ELSE "all"
  BY DEF Delivery
<1>2. ~Known(adapters[a], request)
  BY DEF Known
<1>3. request.dry \in BOOLEAN /\ ~request.dry
  OBVIOUS
<1>4. outcome.applied \in BOOLEAN
  <2> HIDE DEF request, definition
  <2>1. Applied(request, works, late) \in BOOLEAN
    BY DEF Applied
  <2>2. QED
    BY <2>1 DEF Execute
<1>5. Successful(outcome) \in BOOLEAN
  BY DEF Successful
<1>6. Successful(outcome) => outcome.applied
  <2> HIDE DEF request, definition
  <2>1. QED
    BY <1>2, <1>3, ExecuteKeeps
<1>7. outcome.applied => works
  <2> HIDE DEF request, definition
  <2>1. QED
    BY AppliedMeansWorked
<1>8. QED
  BY <1>1, <1>4, <1>5, <1>6, <1>7

LEMMA StepIsDone ==
  ASSUME RecordsInv, NEW i \in IdentityItems, NEW late, NEW lost,
         NEW unpublished \in BOOLEAN
  PROVE  LET d == StepDelivery(i, late, lost, unpublished)
         IN /\ d.good \in BOOLEAN /\ d.applied \in BOOLEAN
            /\ d.good => d.applied
            /\ d.applied => StepWorks(i)
            /\ d.status = IF d.good /\ ~unpublished THEN "delivered" ELSE "failed"
            /\ d.published = IF ~d.good THEN "none" ELSE IF unpublished THEN "part"
                             ELSE "all"
<1>1. StepWorks(i) \in BOOLEAN
  BY DEF StepWorks
<1>2. DOMAIN adapters["automation"].results = {}
  BY DEF RecordsInv, AdaptersHold
<1>3. QED
  BY <1>1, <1>2, DeliveryIsDone DEF StepDelivery

\* A delivered step leaves evidence of what it did, and takes no effect of a response
\* back.
LEMMA StepKeepsRecords ==
  ASSUME RecordsInv, NEW i \in IdentityItems, NEW late, NEW lost,
         NEW unpublished \in BOOLEAN,
         StepDelivered(i, StepDelivery(i, late, lost, unpublished)),
         item' \in [IdentityItems -> {"pending", "delivered", "failed", "skipped"}],
         item'[i] = StepDelivery(i, late, lost, unpublished).status,
         \A j \in IdentityItems \ {i} : item'[j] # "delivered" \/ item'[j] = item[j]
  PROVE  RecordsInv'
<1> DEFINE d == StepDelivery(i, late, lost, unpublished)
<1>1. /\ d.good \in BOOLEAN /\ d.applied \in BOOLEAN
      /\ d.good => d.applied
      /\ d.applied => StepWorks(i)
      /\ d.status = IF d.good /\ ~unpublished THEN "delivered" ELSE "failed"
      /\ d.published = IF ~d.good THEN "none" ELSE IF unpublished THEN "part" ELSE "all"
  BY StepIsDone
<1> HIDE DEF d
<1>2. /\ simulated' = IF d.applied THEN simulated \union {i} ELSE simulated
      /\ estate' \in {estate, [estate EXCEPT !.account = "enabled"]}
      /\ published' = [published EXCEPT ![i] = d.published]
      /\ adapters' = adapters
  BY DEF StepDelivered, d
<1>3. d.applied /\ i \in DOMAIN Before => Before[i] \in simulated
  BY <1>1 DEF StepWorks
<1>4. /\ published' \in [IdentityItems -> {"none", "part", "all"}]
      /\ published'[i] = d.published
      /\ \A j \in IdentityItems \ {i} : published'[j] = published[j]
  BY <1>1, <1>2 DEF RecordsInv, StepsBacked
<1>5. EvidenceIsBacked'
  <2>1. ASSUME NEW j \in IdentityItems
        PROVE  /\ published'[j] # "none" => j \in simulated'
               /\ j \in simulated' \cap DOMAIN Before => Before[j] \in simulated'
               /\ item'[j] = "delivered" => published'[j] = "all"
    <3>1. CASE j = i
      BY <1>1, <1>2, <1>3, <1>4, <3>1 DEF RecordsInv, StepsBacked, EvidenceIsBacked, d
    <3>2. CASE j # i
      BY <1>2, <1>4, <3>2 DEF RecordsInv, StepsBacked, EvidenceIsBacked
    <3>3. QED
      BY <3>1, <3>2
  <2>2. QED
    BY <2>1 DEF EvidenceIsBacked
<1>6. EstateOK' /\ \A q \in Responses : Effect(q) => Effect(q)'
  BY <1>2 DEF RecordsInv, EstateOK, Effect
<1>7. AdaptersHold'
  <2>1. ASSUME NEW b \in {"identity", "endpoint"}, NEW old, old = adapters[b]
        PROVE  RecordsHold(old)'
    BY <1>6, <2>1 DEF RecordsInv, AdaptersHold, RecordsHold
  <2>2. QED
    BY <1>2, <2>1 DEF RecordsInv, AdaptersHold
<1>8. QED
  BY <1>4, <1>5, <1>6, <1>7 DEF RecordsInv, StepsBacked

LEMMA DeliverKeepsRecords ==
  ASSUME RecordsInv, NEW i \in IdentityItems, DeliverStep(i)
  PROVE  RecordsInv'
<1>1. PICK late \in Lateness, lost \in Losses, unpublished \in BOOLEAN :
        /\ item' = [item EXCEPT ![i] = StepDelivery(i, late, lost, unpublished).status]
        /\ StepDelivered(i, StepDelivery(i, late, lost, unpublished))
  BY DEF DeliverStep
<1>2. StepDelivery(i, late, lost, unpublished).status \in {"delivered", "failed"}
  BY StepIsDone
<1>3. QED
  BY <1>1, <1>2, StepKeepsRecords DEF RecordsInv, StepsBacked, EvidenceIsBacked


\* resolve_dp2() delivers a branch that is pending and skips the other one.
LEMMA ResolveKeepsRecords ==
  ASSUME RecordsInv, ResolveDp2
  PROVE  RecordsInv'
<1>1. PICK visited \in 0..2, late \in Lateness, lost \in Losses, unpublished \in BOOLEAN :
        LET visit == BranchVisit("ACT-04A", "ACT-04B", PathsContained, visited)
            d == StepDelivery(visit.match, late, lost, unpublished)
        IN /\ item' = Visited(visit, d.status)
           /\ IF visit.runs THEN StepDelivered(visit.match, d)
              ELSE UNCHANGED <<simulated, estate, published, adapters>>
  BY DEF ResolveDp2
<1> DEFINE visit == BranchVisit("ACT-04A", "ACT-04B", PathsContained, visited)
           d == StepDelivery(visit.match, late, lost, unpublished)
<1>2. /\ visit.runs \in BOOLEAN /\ visit.skips \in BOOLEAN
      /\ visit.match \in IdentityItems /\ visit.match # visit.opposite
  BY IdentityAssumption DEF BranchVisit, Branches
<1>3. d.status \in {"delivered", "failed"}
  BY <1>2, StepIsDone
<1> HIDE DEF visit, d
<1>4. /\ item' = [j \in IdentityItems |->
                    CASE j = visit.match /\ visit.runs     -> d.status
                      [] j = visit.opposite /\ visit.skips -> "skipped"
                      [] OTHER                             -> item[j]]
      /\ IF visit.runs THEN StepDelivered(visit.match, d)
         ELSE UNCHANGED <<simulated, estate, published, adapters>>
  BY <1>1 DEF RecordsInv, StepsBacked, Visited, visit, d
<1>5. /\ item' \in [IdentityItems -> {"pending", "delivered", "failed", "skipped"}]
      /\ \A j \in IdentityItems :
           item'[j] # "delivered" \/ item'[j] = item[j] \/ (j = visit.match /\ visit.runs)
      /\ visit.runs => item'[visit.match] = d.status
  BY <1>2, <1>3, <1>4 DEF RecordsInv, StepsBacked
<1>6. CASE visit.runs
  BY <1>2, <1>4, <1>5, <1>6, StepKeepsRecords DEF d
<1>7. CASE ~visit.runs
  <2>1. UNCHANGED <<simulated, estate, published, adapters>>
    BY <1>4, <1>7
  <2>2. StepsBacked'
    BY <1>5, <1>7, <2>1 DEF RecordsInv, StepsBacked, EvidenceIsBacked
  <2>3. EstateOK' /\ AdaptersHold'
    BY ZenonT(60), <2>1 DEF RecordsInv, EstateOK, AdaptersHold, RecordsHold, Effect
  <2>4. QED
    BY <2>2, <2>3 DEF RecordsInv
<1>8. QED
  BY <1>2, <1>6, <1>7

\* A fail-safe latch leaves the records, and a reset leaves nothing of a run.
LEMMA ControlKeepsRecords ==
  ASSUME RecordsInv, IdentityControl \/ ResetIdentity
  PROVE  RecordsInv'
<1>1. CASE IdentityControl
  <2>1. UNCHANGED <<estate, simulated, published>>
    BY <1>1 DEF IdentityControl, SkipItem, Begin, Pause, Resume, StopPlay
  <2>2. /\ item' \in [IdentityItems -> {"pending", "delivered", "failed", "skipped"}]
        /\ \A j \in IdentityItems : item'[j] # "delivered" \/ item'[j] = item[j]
    BY <1>1 DEF IdentityControl, SkipItem, Begin, Pause, Resume, StopPlay, RecordsInv,
                StepsBacked
  <2>3. StepsBacked'
    BY <2>1, <2>2 DEF RecordsInv, StepsBacked, EvidenceIsBacked
  <2>4. \/ adapters' = adapters
        \/ adapters' = [a \in DOMAIN adapters |-> FailSafe(adapters[a])]
    BY <1>1 DEF IdentityControl, SkipItem, Begin, Pause, Resume, StopPlay
  <2>5. /\ adapters' = [a \in Devices |-> adapters'[a]]
        /\ \A a \in Devices : /\ Shaped(adapters'[a])
                              /\ adapters'[a].results = adapters[a].results
    BY <2>4 DEF RecordsInv, AdaptersHold, Shaped, FailSafe
  <2>6. AdaptersHold'
    <3>1. \A a \in {"identity", "endpoint"} : RecordsHold(adapters[a])
      BY DEF RecordsInv, AdaptersHold
    <3>2. \A a \in {"identity", "endpoint"} : RecordsHold(adapters[a])'
      <4>1. \A r : Effect(r)' = Effect(r)
        BY <2>1 DEF Effect
      <4>2. \A a \in {"identity", "endpoint"} : adapters'[a].results = adapters[a].results
        BY <2>5 DEF Devices
      <4>3. QED
        BY <3>1, <4>1, <4>2 DEF RecordsHold
    <3>3. DOMAIN adapters'["automation"].results = {}
      BY <2>5 DEF RecordsInv, AdaptersHold, Devices
    <3>4. QED
      BY <2>5, <3>2, <3>3 DEF AdaptersHold
  <2>7. QED
    BY <2>1, <2>3, <2>6 DEF RecordsInv, EstateOK
<1>2. CASE ResetIdentity
  <2>1. StepsBacked' /\ EstateOK'
    BY <1>2 DEF ResetIdentity, Rebuild, Baseline, RecordsInv, StepsBacked, EvidenceIsBacked,
                EstateOK
  <2>2. adapters' = [a \in Devices |-> [results |-> <<>>, stopped |-> FALSE]]
    BY <1>2 DEF ResetIdentity, Rebuild, NewAdapter, RecordsInv, AdaptersHold
  <2>3. AdaptersHold'
    BY <2>2 DEF AdaptersHold, Shaped, RecordsHold, Devices
  <2>4. QED
    BY <2>1, <2>3 DEF RecordsInv
<1>3. QED
  BY <1>1, <1>2

LEMMA RecordsInitially == IdentityInit => RecordsInv
<1> SUFFICES ASSUME IdentityInit PROVE RecordsInv
  OBVIOUS
<1>2. EstateOK /\ StepsBacked
  BY DEF IdentityInit, NewStage, Baseline, EstateOK, StepsBacked, EvidenceIsBacked
<1>3. adapters = [a \in Devices |-> [results |-> <<>>, stopped |-> FALSE]]
  BY DEF IdentityInit, NewStage, NewAdapter
<1>4. AdaptersHold
  BY <1>3 DEF AdaptersHold, Shaped, RecordsHold, Devices
<1>5. QED
  BY <1>2, <1>4 DEF RecordsInv

LEMMA RecordsKept == RecordsInv /\ [IdentityNext]_identityVars => RecordsInv'
<1> SUFFICES ASSUME RecordsInv, [IdentityNext]_identityVars
             PROVE  RecordsInv'
  OBVIOUS
<1>1. CASE UNCHANGED identityVars
  <2>1. UNCHANGED <<estate, simulated, item, published, adapters>>
    BY <1>1 DEF identityVars, stageVars
  <2>2. EstateOK' /\ StepsBacked'
    BY <2>1 DEF RecordsInv, EstateOK, StepsBacked, EvidenceIsBacked
  <2>3. AdaptersHold'
    BY <2>1 DEF RecordsInv, AdaptersHold, RecordsHold, Effect
  <2>4. QED
    BY <2>2, <2>3 DEF RecordsInv
<1>2. CASE IdentityNext
  <2>1. ASSUME NEW r \in Responses, NEW role, NEW key, NEW dry \in BOOLEAN,
               Respond(r, role, key, dry)
        PROVE  RecordsInv'
    BY <2>1, RespondKeepsRecords
  <2>2. Repeated \subseteq Responses
    BY IdentityAssumption
  <2>3. QED
    BY <1>2, <2>1, <2>2, DeliverKeepsRecords, ResolveKeepsRecords, ControlKeepsRecords
       DEF IdentityNext
<1>3. QED
  BY <1>1, <1>2

LEMMA RecordsAreTrue == RecordsInv => EvidenceIsBacked /\ AnsweredEffectsHold
<1> SUFFICES ASSUME RecordsInv,
                    NEW a \in {"identity", "endpoint"}, NEW key \in Executed(adapters[a])
             PROVE  LET r == adapters[a].results[key].print[1]
                    IN \/ ContainBy(r) = estate
                       \/ r = "credential.reset" /\ estate.version > 1
                       \/ r \in {"persistence.disable", "persistence.remove"}
  BY DEF RecordsInv, StepsBacked, AnsweredEffectsHold
<1>1. /\ key \in DOMAIN adapters[a].results
      /\ adapters[a].results[key].status = "executed"
  BY DEF Executed
<1>2. PICK r \in Responses : r = adapters[a].results[key].print[1] /\ Effect(r)
  BY <1>1 DEF RecordsInv, AdaptersHold, RecordsHold
<1>3. QED
  BY <1>2, EffectHolds DEF RecordsInv

\* identity_slice.py handle() and submit_action(), shared/actions.py execute(): what the
\* evidence store says of an attacker step has happened, each step after the one it
\* builds on, and a key that is answered "executed" stands for an effect that is still
\* there, although any of the writes of a call may be refused or late.
THEOREM RecordsAreBacked == IdentitySpec => [](EvidenceIsBacked /\ AnsweredEffectsHold)
<1>1. QED
  BY RecordsInitially, RecordsKept, RecordsAreTrue, PTL DEF IdentitySpec

-------------------------------------------------------------------------------
(***************************************************************************)
(* The cloud stage and the impact stage.                                   *)
(***************************************************************************)

ItemStates == {"pending", "delivered", "failed", "skipped"}
Amounts    == {"none", "part", "all"}

\* The adapters of these two stages keep no key that is used again.
AdaptersAreFresh(names) ==
  /\ adapters = [a \in names |-> adapters[a]]
  /\ \A a \in names : Shaped(adapters[a]) /\ DOMAIN adapters[a].results = {}

LEMMA ControlKeepsFresh ==
  ASSUME NEW names, AdaptersAreFresh(names),
         \/ adapters' = adapters
         \/ adapters' = [a \in DOMAIN adapters |-> FailSafe(adapters[a])]
         \/ adapters' = [a \in DOMAIN adapters |-> NewAdapter]
  PROVE  AdaptersAreFresh(names)'
<1>1. CASE adapters' = adapters
  BY <1>1 DEF AdaptersAreFresh
<1>2. CASE adapters' = [a \in DOMAIN adapters |-> FailSafe(adapters[a])]
  <2>1. DOMAIN adapters = names
    BY DEF AdaptersAreFresh
  <2>2. ASSUME NEW a \in names
        PROVE  /\ Shaped(adapters'[a])
               /\ DOMAIN adapters'[a].results = {}
    <3>1. adapters'[a] = [adapters[a] EXCEPT !.stopped = TRUE]
      BY <1>2, <2>1 DEF FailSafe
    <3>2. Shaped(adapters[a]) /\ DOMAIN adapters[a].results = {}
      BY DEF AdaptersAreFresh
    <3>3. adapters'[a] = [results |-> adapters[a].results, stopped |-> TRUE]
      BY <3>1, <3>2 DEF Shaped
    <3>4. QED
      BY <3>2, <3>3 DEF Shaped
  <2>3. adapters' = [a \in names |-> adapters'[a]]
    BY <1>2, <2>1
  <2>4. QED
    BY <2>2, <2>3 DEF AdaptersAreFresh, Shaped
<1>3. CASE adapters' = [a \in DOMAIN adapters |-> NewAdapter]
  <2>1. NewAdapter = [results |-> <<>>, stopped |-> FALSE]
    BY DEF NewAdapter
  <2>2. adapters' = [a \in names |-> NewAdapter]
    BY <1>3 DEF AdaptersAreFresh
  <2>3. Shaped(NewAdapter) /\ DOMAIN NewAdapter.results = {}
    BY <2>1 DEF Shaped
  <2>4. QED
    BY <2>2, <2>3 DEF AdaptersAreFresh, Shaped
<1>4. QED
  BY <1>1, <1>2, <1>3

-------------------------------------------------------------------------------
(***************************************************************************)
(* The cloud stage.                                                        *)
(***************************************************************************)

Facts == {"authenticated", "enumerated", "accessed", "authentication_blocked",
          "policy_changed", "change_blocked", "bulk_completed", "claimed", "bulk_blocked"}

AuditEvents == [type : Facts, count : Nat]

CloudTypes ==
  /\ item \in [CloudItems -> ItemStates]
  /\ published \in [CloudItems -> Amounts]
  /\ cloud = [enabled |-> cloud.enabled, key |-> cloud.key, altered |-> cloud.altered,
              count |-> cloud.count, kept |-> cloud.kept]
  /\ cloud.enabled \in BOOLEAN /\ cloud.key \in BOOLEAN /\ cloud.altered \in BOOLEAN
  /\ cloud.count \in Nat
  /\ cloud.kept # Nothing => cloud.kept.count \in Nat
  /\ played \subseteq CloudItems
  /\ audit \subseteq AuditEvents
  /\ result \in {"none", "pass", "miss"}
  /\ AdaptersAreFresh({"cloud", "cloud_automation"})

\* The exposure says which steps were made, each once and in their order.
ExposureFollowsSteps ==
  /\ \A i \in played : item[i] # "pending"
  /\ "ACT-05" \notin played => played = {} /\ cloud.count = 0
  /\ "ACT-06" \notin played => played \subseteq {"ACT-05"} /\ cloud.count <= 1
  /\ cloud.count <= IF played \cap CloudBranches = {} THEN 5 ELSE 25
  /\ cloud.count = 25 => result = "miss"

\* The audit is about exposures of this run, the present one of which has its event
\* when all of the evidence was left.
AuditFollowsExposure ==
  /\ \A e \in audit : e.count <= cloud.count /\ (e.type = "claimed" => e.count = 25)
  /\ (\A i \in played : published[i] = "all") =>
       cloud.count = 0 \/ [type |-> "accessed", count |-> cloud.count] \in audit
  /\ PreservedIsOfThisRun

\* Only a claim that cites this run's audit is sound, and what DP3 passed stays so.
ScoreFollowsCitation ==
  /\ assessment.sound => assessment.cites \in audit
  /\ result = "pass" => /\ ~cloud.key /\ ~cloud.altered
                        /\ [type |-> "accessed", count |-> cloud.count] \in audit

CloudInv ==
  CloudTypes /\ ExposureFollowsSteps /\ AuditFollowsExposure /\ ScoreFollowsCitation

\* What a step of the attacker does to the cloud.
LEMMA AdvanceExposes ==
  ASSUME CloudTypes, ExposureFollowsSteps, NEW i \in CloudItems, i \notin played,
         NEW scored, CloudWorks(i, scored)
  PROVE  LET after == Advance(i)
         IN /\ after = [enabled |-> cloud.enabled, key |-> cloud.key,
                        altered |-> after.altered, count |-> after.count,
                        kept |-> cloud.kept]
            /\ after.altered \in BOOLEAN /\ after.count \in Nat
            /\ cloud.count <= after.count
            /\ i = "ACT-05" => after.count <= 1
            /\ i = "ACT-06" => after.count <= 5
            /\ after.count = 25 => i \in CloudBranches
            /\ i \in CloudBranches /\ Decision(after, TRUE) => after.count = 25
            /\ i \in CloudBranches /\ after.count = 25 /\ cloud.count # 25
                 => scored = "miss"
            /\ ~cloud.key => after = cloud
<1> DEFINE after == Advance(i)
           Now(altered, count) ==
             [enabled |-> cloud.enabled, key |-> cloud.key, altered |-> altered,
              count |-> count, kept |-> cloud.kept]
<1>1. CASE i = "ACT-05"
  <2>1. after = Now(cloud.altered, IF Allowed(FALSE) THEN 1 ELSE cloud.count)
    BY <1>1 DEF Advance, CloudTypes, CloudBranches
  <2>2. cloud.count = 0
    BY <1>1 DEF ExposureFollowsSteps
  <2>3. QED
    BY <1>1, <2>1, <2>2 DEF CloudTypes, CloudBranches, Allowed, Decision
<1>2. CASE i = "ACT-06"
  <2>1. cloud.count <= 1
    BY <1>2 DEF ExposureFollowsSteps
  <2>2. CASE ~Allowed(FALSE)
    <3>1. after = cloud
      BY <1>2, <2>2 DEF Advance, CloudBranches
    <3>2. QED
      BY <1>2, <2>1, <3>1 DEF CloudTypes, CloudBranches
  <2>3. CASE Allowed(FALSE)
    <3>1. i # "ACT-05" /\ i \notin CloudBranches
      BY <1>2 DEF CloudBranches
    <3>2. after = [cloud EXCEPT !.count = 5, !.altered = TRUE]
      BY <1>2, <2>3, <3>1 DEF Advance
    <3>3. after = Now(TRUE, 5)
      BY <3>2 DEF CloudTypes
    <3>4. cloud.key
      BY <2>3 DEF Allowed, Decision
    <3> HIDE DEF after
    <3>5. /\ after = Now(after.altered, after.count)
          /\ after.altered \in BOOLEAN /\ after.count = 5
      BY <3>3
    <3>6. cloud.count <= after.count /\ after.count \in Nat /\ after.count <= 5 /\ after.count # 25
      BY <2>1, <3>5 DEF CloudTypes
    <3>7. QED
      BY <1>2, <3>1, <3>4, <3>5, <3>6 DEF after
  <2>4. QED
    BY <2>2, <2>3
<1>3. CASE i \in CloudBranches
  <2>1. after = Now(cloud.altered, IF Allowed(TRUE) THEN 25 ELSE cloud.count)
    BY <1>3 DEF Advance, CloudTypes, CloudBranches
  <2>2. cloud.count <= 25
    BY DEF ExposureFollowsSteps, CloudTypes
  <2>3. QED
    BY <1>3, <2>1, <2>2 DEF CloudTypes, CloudBranches, Allowed, Decision, CloudWorks
<1>4. QED
  BY <1>1, <1>2, <1>3 DEF CloudItems, CloudSources

LEMMA EventsOfFacts ==
  ASSUME NEW facts \in Seq(Facts), NEW count \in Nat, NEW events,
         events = [n \in DOMAIN facts |-> [type |-> facts[n], count |-> count]]
  PROVE  /\ Len(events) = Len(facts) /\ DOMAIN events = 1..Len(events)
         /\ \A n \in 1..Len(facts) :
              /\ events[n] = [type |-> facts[n], count |-> count]
              /\ events[n] \in AuditEvents
<1>1. DOMAIN facts = 1..Len(facts) /\ Len(facts) \in Nat
  OBVIOUS
<1>2. \A n \in 1..Len(facts) :
        /\ events[n] = [type |-> facts[n], count |-> count]
        /\ events[n] \in AuditEvents
  BY <1>1 DEF AuditEvents
<1>3. events = [n \in 1..Len(facts) |-> [type |-> facts[n], count |-> count]]
  BY <1>1
<1>4. Len(events) = Len(facts) /\ DOMAIN events = 1..Len(facts)
  BY <1>1, <1>3
<1>5. QED
  BY <1>2, <1>4

LEMMA ThreeFacts ==
  ASSUME NEW a \in Facts, NEW b \in Facts, NEW c \in Facts, NEW f, f = <<a, b, c>>
  PROVE  f \in Seq(Facts) /\ Len(f) = 3 /\ f[1] = a /\ f[2] = b /\ f[3] = c
OBVIOUS

\* What a step tells: each event carries the exposure that the step left, the last one
\* is that exposure, and only a bulk request that was open claims a theft.
LEMMA EvidenceIsOfStep ==
  ASSUME NEW i \in CloudItems, NEW after, after.count \in Nat
  PROVE  LET events == CloudEvidence(i, after)
         IN \E k \in {2, 3} :
              /\ Len(events) = k /\ DOMAIN events = 1..k
              /\ \A n \in 1..k :
                   /\ events[n] \in AuditEvents /\ events[n].count = after.count
                   /\ events[n].type = "claimed" =>
                        i \in CloudBranches /\ Decision(after, TRUE)
              /\ events[k] = [type |-> "accessed", count |-> after.count]
<1> DEFINE events == CloudEvidence(i, after)
           facts == CASE i = "ACT-05" ->
                           IF Decision(after, FALSE)
                           THEN <<"authenticated", "enumerated", "accessed">>
                           ELSE <<"authentication_blocked", "accessed">>
                      [] i = "ACT-06" ->
                           IF Decision(after, FALSE) THEN <<"policy_changed", "accessed">>
                           ELSE <<"change_blocked", "accessed">>
                      [] OTHER        ->
                           IF Decision(after, TRUE)
                           THEN <<"bulk_completed", "claimed", "accessed">>
                           ELSE <<"bulk_blocked", "accessed">>
<1>1. events = [n \in DOMAIN facts |-> [type |-> facts[n], count |-> after.count]]
  BY DEF CloudEvidence
<1>2. ASSUME NEW f, \/ \E a \in Facts \ {"claimed"} : f = <<a, "accessed">>
                    \/ f = <<"authenticated", "enumerated", "accessed">>
      PROVE  /\ f \in Seq(Facts) /\ Len(f) \in {2, 3} /\ f[Len(f)] = "accessed"
             /\ \A n \in 1..Len(f) : f[n] # "claimed"
  <2>1. CASE \E a \in Facts \ {"claimed"} : f = <<a, "accessed">>
    <3>1. PICK a \in Facts \ {"claimed"} : f = <<a, "accessed">>
      BY <2>1
    <3>2. f \in Seq(Facts) /\ Len(f) = 2 /\ f[1] = a /\ f[2] = "accessed"
      BY <3>1 DEF Facts
    <3>3. \A n \in 1..Len(f) : f[n] # "claimed"
      BY <3>2
    <3>4. QED
      BY <3>2, <3>3
  <2>2. CASE f = <<"authenticated", "enumerated", "accessed">>
    <3>1. /\ f \in Seq(Facts) /\ Len(f) = 3
          /\ f[1] = "authenticated" /\ f[2] = "enumerated" /\ f[3] = "accessed"
      <4>1. {"authenticated", "enumerated", "accessed"} \subseteq Facts
        BY DEF Facts
      <4>2. QED
        BY <2>2, <4>1, ThreeFacts
    <3>2. \A n \in 1..Len(f) : f[n] # "claimed"
      BY <3>1
    <3>3. QED
      BY <3>1, <3>2
  <2>3. QED
    BY <1>2, <2>1, <2>2
<1>3. ASSUME NEW f, f = <<"bulk_completed", "claimed", "accessed">>
      PROVE  /\ f \in Seq(Facts) /\ Len(f) \in {2, 3} /\ f[Len(f)] = "accessed"
  <2>1. {"bulk_completed", "claimed", "accessed"} \subseteq Facts
    BY DEF Facts
  <2>2. QED
    BY <1>3, <2>1, ThreeFacts
<1>4. /\ facts \in Seq(Facts) /\ Len(facts) \in {2, 3} /\ facts[Len(facts)] = "accessed"
      /\ \A n \in 1..Len(facts) : facts[n] = "claimed" =>
           i \in CloudBranches /\ Decision(after, TRUE)
  <2>1. \/ \E a \in Facts \ {"claimed"} : facts = <<a, "accessed">>
        \/ facts = <<"authenticated", "enumerated", "accessed">>
        \/ /\ facts = <<"bulk_completed", "claimed", "accessed">>
           /\ i \in CloudBranches /\ Decision(after, TRUE)
    <3>1. {"authentication_blocked", "policy_changed", "change_blocked", "bulk_blocked"}
            \subseteq Facts \ {"claimed"}
      BY DEF Facts
    <3>2. CASE i = "ACT-05"
      BY <3>1, <3>2
    <3>3. CASE i = "ACT-06"
      BY <3>1, <3>3
    <3>4. CASE i # "ACT-05" /\ i # "ACT-06"
      <4>1. i \in CloudBranches
        BY <3>4 DEF CloudItems, CloudSources
      <4>2. QED
        BY <3>1, <3>4, <4>1
    <3>5. QED
      BY <3>2, <3>3, <3>4
  <2> HIDE DEF facts
  <2>2. QED
    BY <1>2, <1>3, <2>1
<1> HIDE DEF events, facts
<1>5. /\ Len(events) = Len(facts) /\ DOMAIN events = 1..Len(events)
      /\ \A n \in 1..Len(facts) :
           /\ events[n] = [type |-> facts[n], count |-> after.count]
           /\ events[n] \in AuditEvents
  BY <1>1, <1>4, EventsOfFacts
<1>6. PICK k \in {2, 3} : k = Len(facts)
  BY <1>4
<1>7. Len(events) = k /\ DOMAIN events = 1..k
  BY <1>5, <1>6
<1>8. \A n \in 1..k : /\ events[n] = [type |-> facts[n], count |-> after.count]
                      /\ events[n] \in AuditEvents
                      /\ facts[n] = "claimed" => i \in CloudBranches /\ Decision(after, TRUE)
  BY <1>4, <1>5, <1>6
<1>9. k \in 1..k /\ facts[k] = "accessed"
  BY <1>4, <1>6
<1>10. ASSUME NEW n \in 1..k
       PROVE  events[n].type = facts[n] /\ events[n].count = after.count
  <2>1. events[n] = [type |-> facts[n], count |-> after.count]
    BY <1>8
  <2>2. QED
    BY <2>1
<1>11. \A n \in 1..k : /\ events[n] \in AuditEvents /\ events[n].count = after.count
                       /\ events[n].type = "claimed" =>
                            i \in CloudBranches /\ Decision(after, TRUE)
  BY <1>8, <1>10
<1>12. events[k] = [type |-> "accessed", count |-> after.count]
  BY <1>8, <1>9
<1>13. QED
  BY <1>7, <1>11, <1>12 DEF events

\* What _handle_locked() leaves of a step.
StepLeaves(i, scored, d) ==
  /\ d.step.published \in Amounts /\ d.step.status \in {"delivered", "failed"}
  /\ d.step.applied \in BOOLEAN
  /\ d.step.applied => CloudWorks(i, scored)
  /\ d.cloud = IF d.step.applied THEN Advance(i) ELSE cloud
  /\ d.events \subseteq AuditEvents
  /\ d.events # {} => d.step.applied
  /\ \A e \in d.events :
       /\ e.count = d.cloud.count
       /\ e.type = "claimed" => i \in CloudBranches /\ Decision(d.cloud, TRUE)
  /\ d.step.published = "all" =>
       [type |-> "accessed", count |-> d.cloud.count] \in d.events

LEMMA CloudDeliveryIsDone ==
  ASSUME CloudTypes, ExposureFollowsSteps, NEW i \in CloudItems, i \notin played,
         NEW scored, NEW late, NEW lost, NEW upto \in 0..3
  PROVE  StepLeaves(i, scored, CloudDelivery(i, scored, late, lost, upto))
<1> DEFINE Step(refused) == Delivery("cloud_automation", i, CloudStates(i),
                                     CloudWorks(i, scored), late, lost, refused)
           good == Step(FALSE).good
           after == IF Step(FALSE).applied THEN Advance(i) ELSE cloud
           events == CloudEvidence(i, after)
           refused == good /\ upto < Len(events)
           d == CloudDelivery(i, scored, late, lost, upto)
<1>1. /\ d.step = Step(refused) /\ d.cloud = after
      /\ d.events = IF good THEN {events[n] : n \in DOMAIN events \cap 1..upto} ELSE {}
  BY DEF CloudDelivery
<1>2. Step(refused).good = good /\ Step(refused).applied = Step(FALSE).applied
  BY DEF Delivery
<1>3. CloudWorks(i, scored) \in BOOLEAN
  BY DEF CloudWorks
<1>4. DOMAIN adapters["cloud_automation"].results = {}
  BY DEF CloudTypes, AdaptersAreFresh
<1>5. \A u \in BOOLEAN :
        /\ Step(u).good \in BOOLEAN /\ Step(u).applied \in BOOLEAN
        /\ Step(u).good => Step(u).applied
        /\ Step(u).applied => CloudWorks(i, scored)
        /\ Step(u).status = IF Step(u).good /\ ~u THEN "delivered" ELSE "failed"
        /\ Step(u).published = IF ~Step(u).good THEN "none" ELSE IF u THEN "part" ELSE "all"
  BY <1>3, <1>4, DeliveryIsDone
<1> HIDE DEF Step
<1>6. after.count \in Nat
  <2>1. CASE Step(FALSE).applied
    BY <1>5, <2>1, AdvanceExposes
  <2>2. CASE ~Step(FALSE).applied
    BY <2>2 DEF CloudTypes
  <2>3. QED
    BY <2>1, <2>2
<1> HIDE DEF after
<1>7. PICK k \in {2, 3} :
        /\ Len(events) = k /\ DOMAIN events = 1..k
        /\ \A n \in 1..k :
             /\ events[n] \in AuditEvents /\ events[n].count = after.count
             /\ events[n].type = "claimed" => i \in CloudBranches /\ Decision(after, TRUE)
        /\ events[k] = [type |-> "accessed", count |-> after.count]
  BY ZenonT(60), <1>6, EvidenceIsOfStep
<1> HIDE DEF events
<1>8. refused \in BOOLEAN
  OBVIOUS
<1>9. /\ d.step.published \in Amounts /\ d.step.status \in {"delivered", "failed"}
      /\ d.step.applied \in BOOLEAN
      /\ d.step.applied = Step(FALSE).applied
      /\ d.step.published = "all" => good /\ ~refused
  BY <1>1, <1>2, <1>5, <1>8 DEF Amounts
<1>10. d.cloud = IF d.step.applied THEN Advance(i) ELSE cloud
  BY <1>1, <1>9 DEF after
<1>11. \A e \in d.events : \E n \in 1..k : e = events[n]
  <2>1. DOMAIN events = 1..k
    BY <1>7
  <2>2. QED
    BY ZenonT(60), <1>1, <2>1
<1>12. /\ d.events \subseteq AuditEvents
       /\ \A e \in d.events :
            /\ e.count = after.count
            /\ e.type = "claimed" => i \in CloudBranches /\ Decision(after, TRUE)
  BY ZenonT(60), <1>7, <1>11
<1>13. d.events # {} => d.step.applied
  BY <1>1, <1>5, <1>9
<1>14. good /\ ~refused => [type |-> "accessed", count |-> after.count] \in d.events
  <2>1. ASSUME good, ~refused
        PROVE  k \in DOMAIN events \cap 1..upto
    <3>1. Len(events) = k /\ DOMAIN events = 1..k
      BY <1>7
    <3>2. ~(upto < k)
      BY <2>1, <3>1
    <3>3. QED
      BY <3>1, <3>2
  <2>2. ASSUME good, ~refused
        PROVE  events[k] \in d.events
    BY <1>1, <2>1, <2>2
  <2>3. QED
    BY <1>7, <2>2
<1> HIDE DEF refused, good, d
<1>15. d.step.applied => CloudWorks(i, scored)
  BY <1>5, <1>9
<1>16. d.cloud = after
  BY <1>1
<1>17. StepLeaves(i, scored, d)
  BY <1>9, <1>10, <1>12, <1>13, <1>14, <1>15, <1>16 DEF StepLeaves
<1>18. QED
  BY <1>17 DEF d

\* The largest count of the accessed events, and 0.
LEMMA LargestCount ==
  ASSUME NEW top \in Nat, NEW counts \in SUBSET Nat,
         \A c \in counts : c <= top, top = 0 \/ top \in counts
  PROVE  top = Max({0} \union counts)
<1>1. /\ top \in {0} \union counts
      /\ \A c \in {0} \union counts : top >= c
  OBVIOUS
<1>2. \A x \in {0} \union counts :
        (\A c \in {0} \union counts : x >= c) => x = top
  BY <1>1
<1>3. QED
  BY <1>1, <1>2 DEF Max

\* A step that works, each at most once, keeps the invariant; scored: the result of DP3
\* by then, which is recorded before the branch is visited.
LEMMA CloudStepKeeps ==
  ASSUME CloudInv, NEW i \in CloudItems, item[i] = "pending", NEW late, NEW lost,
         NEW upto \in 0..3, result' \in {"none", "pass", "miss"},
         CloudDelivered(i, CloudDelivery(i, result', late, lost, upto)),
         result = "none" \/ result' = result,
         result' = "pass" /\ result = "none" =>
           /\ ~cloud.key /\ ~cloud.altered
           /\ [type |-> "accessed", count |-> cloud.count] \in audit,
         item' \in [CloudItems -> ItemStates], item'[i] # "pending",
         \A j \in CloudItems : item[j] # "pending" => item'[j] # "pending",
         assessment' = assessment
  PROVE  CloudInv' /\ cloud.count <= cloud'.count
<1>1. CloudTypes /\ ExposureFollowsSteps /\ AuditFollowsExposure /\ ScoreFollowsCitation
  BY DEF CloudInv
<1>2. i \notin played
  BY <1>1 DEF ExposureFollowsSteps
<1>3. PICK scored : scored = result'
  OBVIOUS
<1> DEFINE d == CloudDelivery(i, scored, late, lost, upto)
           event == [type |-> "accessed", count |-> cloud'.count]
           Unmade == cloud' = cloud /\ played' = played /\ audit' = audit
           Made == /\ CloudWorks(i, scored) /\ cloud' = Advance(i)
                   /\ played' = played \union {i}
                   /\ published'[i] = "all" => event \in audit'
                   /\ \A e \in audit' \ audit :
                        /\ e.count = cloud'.count
                        /\ e.type = "claimed" => i \in CloudBranches /\ Decision(cloud', TRUE)
<1>4. /\ audit' \subseteq AuditEvents /\ audit \subseteq audit' /\ adapters' = adapters
      /\ published' \in [CloudItems -> Amounts]
      /\ \A j \in CloudItems : j # i => published'[j] = published[j]
      /\ Unmade \/ Made
  <2>1. StepLeaves(i, scored, d)
    BY <1>1, <1>2, CloudDeliveryIsDone
  <2>2. /\ published' = [published EXCEPT ![i] = d.step.published]
        /\ adapters' = adapters /\ cloud' = d.cloud
        /\ played' = IF d.step.applied THEN played \union {i} ELSE played
        /\ audit' = audit \union d.events
    BY <1>3 DEF CloudDelivered
  <2> HIDE DEF d
  <2>3. /\ audit' \subseteq AuditEvents /\ audit \subseteq audit'
        /\ published' \in [CloudItems -> Amounts] /\ published'[i] = d.step.published
        /\ \A j \in CloudItems : j # i => published'[j] = published[j]
    BY <1>1, <2>1, <2>2 DEF CloudTypes, StepLeaves
  <2>4. ASSUME d.step.applied
        PROVE  Made
    <3>1. CloudWorks(i, scored) /\ cloud' = Advance(i) /\ cloud' = d.cloud
      BY <2>1, <2>2, <2>4 DEF StepLeaves
    <3>2. played' = played \union {i} /\ audit' = audit \union d.events
      BY <2>2, <2>4
    <3>3. published'[i] = "all" => event \in audit'
      BY <2>1, <2>3, <3>1, <3>2 DEF StepLeaves
    <3>4. ASSUME NEW e \in audit' \ audit
          PROVE  /\ e.count = cloud'.count
                 /\ e.type = "claimed" => i \in CloudBranches /\ Decision(cloud', TRUE)
      BY <2>1, <3>1, <3>2 DEF StepLeaves
    <3>5. QED
      BY <3>1, <3>2, <3>3, <3>4
  <2>5. ASSUME ~d.step.applied
        PROVE  Unmade
    BY <2>1, <2>2, <2>5 DEF StepLeaves
  <2>6. Unmade \/ Made
    BY <2>4, <2>5
  <2> HIDE DEF Unmade, Made
  <2>7. QED
    BY <2>2, <2>3, <2>6
<1>5. ASSUME Made
      PROVE  /\ cloud' = [enabled |-> cloud.enabled, key |-> cloud.key,
                          altered |-> cloud'.altered, count |-> cloud'.count,
                          kept |-> cloud.kept]
             /\ cloud'.altered \in BOOLEAN /\ cloud'.count \in Nat
             /\ cloud.count <= cloud'.count
             /\ i = "ACT-05" => cloud'.count <= 1
             /\ i = "ACT-06" => cloud'.count <= 5
             /\ cloud'.count = 25 => i \in CloudBranches
             /\ i \in CloudBranches /\ Decision(cloud', TRUE) => cloud'.count = 25
             /\ i \in CloudBranches /\ cloud'.count = 25 /\ cloud.count # 25
                  => scored = "miss"
             /\ ~cloud.key => cloud' = cloud
  BY <1>1, <1>2, <1>5, AdvanceExposes
<1>6. /\ cloud' = [enabled |-> cloud.enabled, key |-> cloud.key,
                   altered |-> cloud'.altered, count |-> cloud'.count,
                   kept |-> cloud.kept]
      /\ cloud'.altered \in BOOLEAN /\ cloud'.count \in Nat
      /\ cloud.count <= cloud'.count
      /\ ~cloud.key => cloud' = cloud
      /\ played' \subseteq CloudItems
      /\ Unmade \/ played' = played \union {i}
  <2>1. CASE Made
    BY <1>1, <1>5, <2>1 DEF CloudTypes
  <2>2. CASE Unmade
    BY <1>1, <2>2 DEF CloudTypes
  <2>3. QED
    BY <1>4, <2>1, <2>2
<1>7. cloud'.kept = cloud.kept /\ cloud'.enabled = cloud.enabled /\ cloud'.key = cloud.key
  BY <1>6
<1>8. CloudTypes'
  <2>1. cloud'.enabled \in BOOLEAN /\ cloud'.key \in BOOLEAN
    BY <1>1, <1>7 DEF CloudTypes
  <2>2. AdaptersAreFresh({"cloud", "cloud_automation"})'
    BY <1>1, <1>4 DEF CloudTypes, AdaptersAreFresh
  <2>3. cloud' = [enabled |-> cloud'.enabled, key |-> cloud'.key,
                  altered |-> cloud'.altered, count |-> cloud'.count,
                  kept |-> cloud'.kept]
    BY <1>6
  <2>4. cloud'.kept # Nothing => cloud'.kept.count \in Nat
    BY <1>1, <1>7 DEF CloudTypes
  <2>5. result' \in {"none", "pass", "miss"} /\ item' \in [CloudItems -> ItemStates]
    OBVIOUS
  <2>6. QED
    BY <1>4, <1>6, <2>1, <2>2, <2>3, <2>4, <2>5 DEF CloudTypes
<1>9. ExposureFollowsSteps'
  <2>1. \A j \in played' : item'[j] # "pending"
    BY <1>1, <1>6 DEF ExposureFollowsSteps, CloudTypes
  <2>2. CASE Unmade
    BY <1>1, <2>1, <2>2 DEF ExposureFollowsSteps
  <2>3. CASE Made
    <3>1. /\ i = "ACT-05" \/ "ACT-05" \in played
          /\ i \in CloudBranches => "ACT-06" \in played
          /\ "ACT-05" \notin CloudBranches /\ "ACT-06" \notin CloudBranches
          /\ i = "ACT-05" \/ i = "ACT-06" \/ i \in CloudBranches
      BY <2>3 DEF CloudWorks, CloudBranches, CloudItems, CloudSources
    <3>2. cloud'.count <= IF played' \cap CloudBranches = {} THEN 5 ELSE 25
      <4>1. CASE i \in CloudBranches
        <5>1. cloud.count <= 25
          BY <1>1 DEF ExposureFollowsSteps, CloudTypes
        <5>2. cloud'.count = 25 \/ cloud'.count = cloud.count
          BY <1>1, <2>3, <4>1 DEF Advance, CloudBranches, CloudTypes
        <5>3. i \in played' \cap CloudBranches
          BY <2>3, <4>1
        <5>4. QED
          BY <1>1, <5>1, <5>2, <5>3 DEF CloudTypes
      <4>2. CASE i \notin CloudBranches
        <5>1. i = "ACT-05" => cloud'.count <= 1
          BY <1>5, <2>3
        <5>2. i = "ACT-06" => cloud'.count <= 5
          BY <1>5, <2>3
        <5>3. cloud'.count \in Nat
          BY <1>6
        <5>4. cloud'.count <= 5
          BY <3>1, <4>2, <5>1, <5>2, <5>3
        <5>5. QED
          BY <5>3, <5>4
      <4>3. QED
        BY <4>1, <4>2
    <3>3. "ACT-06" \notin played' => played' \subseteq {"ACT-05"} /\ cloud'.count <= 1
      <4>1. ASSUME "ACT-06" \notin played'
            PROVE  i = "ACT-05"
        BY <2>3, <3>1, <4>1
      <4>2. QED
        BY <1>1, <1>5, <2>3, <4>1 DEF ExposureFollowsSteps
    <3>4. cloud'.count = 25 => result' = "miss"
      <4>1. CASE cloud.count = 25
        BY <1>1, <4>1 DEF ExposureFollowsSteps
      <4>2. CASE cloud.count # 25
        BY <1>3, <1>5, <2>3, <4>2
      <4>3. QED
        BY <4>1, <4>2
    <3>5. "ACT-05" \in played'
      BY <2>3, <3>1
    <3>6. QED
      BY <2>1, <3>2, <3>3, <3>4, <3>5 DEF ExposureFollowsSteps
  <2>4. QED
    BY <1>4, <2>2, <2>3
<1>10. AuditFollowsExposure'
  <2>1. ASSUME NEW e \in audit'
        PROVE  e.count <= cloud'.count /\ (e.type = "claimed" => e.count = 25)
    <3>1. CASE e \notin audit
      <4>1. CASE Made
        <5>1. /\ e.count = cloud'.count
              /\ e.type = "claimed" => i \in CloudBranches /\ Decision(cloud', TRUE)
          BY <2>1, <3>1, <4>1
        <5>2. e.type = "claimed" => cloud'.count = 25
          BY <1>5, <4>1, <5>1
        <5>3. QED
          BY <1>6, <5>1, <5>2
      <4>2. QED
        BY <1>4, <2>1, <3>1, <4>1
    <3>2. CASE e \in audit
      <4>1. e.count <= cloud.count /\ (e.type = "claimed" => e.count = 25)
        BY <1>1, <3>2 DEF AuditFollowsExposure
      <4>2. e.count \in Nat
        BY <1>1, <3>2 DEF CloudTypes, AuditEvents
      <4>3. QED
        BY <1>1, <1>6, <4>1, <4>2 DEF CloudTypes
    <3>3. QED
      BY <3>1, <3>2
  <2>2. ASSUME \A j \in played' : published'[j] = "all"
        PROVE  cloud'.count = 0 \/ event \in audit'
    <3>1. CASE Made
      <4>1. published'[i] = "all"
        BY <2>2, <3>1
      <4>2. QED
        BY <3>1, <4>1
    <3>2. CASE Unmade
      <4>1. \A j \in played : published'[j] = published[j]
        BY <1>1, <1>2, <1>4 DEF CloudTypes
      <4>2. QED
        BY <1>1, <2>2, <3>2, <4>1 DEF AuditFollowsExposure
    <3>3. QED
      BY <1>4, <3>1, <3>2
  <2>3. PreservedIsOfThisRun'
    <3>1. ASSUME cloud'.kept # Nothing
          PROVE  cloud'.kept.count <= cloud'.count /\ cloud'.kept.audit \subseteq audit'
      <4>1. cloud.kept.count <= cloud.count /\ cloud.kept.audit \subseteq audit
        BY <1>1, <1>7, <3>1 DEF AuditFollowsExposure, PreservedIsOfThisRun
      <4>2. cloud.kept.count \in Int
        BY <1>1, <1>7, <3>1 DEF CloudTypes
      <4>3. QED
        BY <1>1, <1>4, <1>6, <1>7, <4>1, <4>2 DEF CloudTypes
    <3>2. QED
      BY <3>1 DEF PreservedIsOfThisRun
  <2>4. QED
    BY <2>1, <2>2, <2>3 DEF AuditFollowsExposure
<1>11. ScoreFollowsCitation'
  <2>1. ASSUME result' = "pass"
        PROVE  ~cloud'.key /\ ~cloud'.altered /\ event \in audit'
    <3>1. /\ ~cloud.key /\ ~cloud.altered
          /\ [type |-> "accessed", count |-> cloud.count] \in audit
      BY <1>1, <2>1 DEF ScoreFollowsCitation
    <3>2. cloud' = cloud
      BY <1>6, <3>1
    <3>3. QED
      BY <1>4, <3>1, <3>2
  <2>2. QED
    BY <1>1, <1>4, <2>1 DEF ScoreFollowsCitation
<1>12. QED
  BY <1>6, <1>8, <1>9, <1>10, <1>11 DEF CloudInv

\* A participant's action changes no exposure and reopens nothing.
LEMMA CloudRespondKeeps ==
  ASSUME CloudInv, NEW r \in CloudResponses, CloudRespond(r)
  PROVE  CloudInv' /\ cloud'.count = cloud.count
<1>1. CloudTypes /\ ExposureFollowsSteps /\ AuditFollowsExposure /\ ScoreFollowsCitation
  BY DEF CloudInv
<1>2. /\ UNCHANGED <<phase, item, result, published, played, audit, assessment, adapters>>
      /\ cloud' \in {cloud, Remediate(r)}
  BY DEF CloudRespond, Submitted
<1>3. /\ cloud' = [enabled |-> cloud'.enabled, key |-> cloud'.key,
                   altered |-> cloud'.altered, count |-> cloud.count,
                   kept |-> cloud'.kept]
      /\ cloud'.enabled \in BOOLEAN /\ cloud'.key \in BOOLEAN
      /\ cloud'.altered \in BOOLEAN
      /\ ~cloud.key => ~cloud'.key
      /\ ~cloud.altered => ~cloud'.altered
      /\ cloud'.kept \in {cloud.kept, [count |-> cloud.count, audit |-> audit]}
  <2>1. CASE cloud' = cloud
    BY <1>1, <2>1 DEF CloudTypes
  <2>2. CASE r = "key.revoke" /\ cloud' = Remediate(r)
    BY <1>1, <2>2 DEF CloudTypes, Remediate
  <2>3. CASE r = "principal.disable" /\ cloud' = Remediate(r)
    BY <1>1, <2>3 DEF CloudTypes, Remediate
  <2>4. CASE r = "policy.restore" /\ cloud' = Remediate(r)
    BY <1>1, <2>4 DEF CloudTypes, Remediate
  <2>5. CASE r = "evidence.preserve" /\ cloud' = Remediate(r)
    <3>1. \/ cloud' = cloud
          \/ cloud' = [cloud EXCEPT !.kept = [count |-> cloud.count, audit |-> audit]]
      BY <2>5 DEF Remediate
    <3>2. QED
      BY <1>1, <3>1 DEF CloudTypes
  <2>6. QED
    BY <1>2, <2>1, <2>2, <2>3, <2>4, <2>5 DEF CloudResponses
<1>4. cloud'.count = cloud.count
  BY <1>3
<1>5. CloudTypes'
  <2>1. AdaptersAreFresh({"cloud", "cloud_automation"})'
    BY <1>1, <1>2 DEF CloudTypes, AdaptersAreFresh
  <2>2. cloud'.kept # Nothing => cloud'.kept.count \in Nat
    BY <1>1, <1>3 DEF CloudTypes
  <2>3. QED
    BY <1>1, <1>2, <1>3, <1>4, <2>1, <2>2 DEF CloudTypes
<1>6. ExposureFollowsSteps'
  BY <1>1, <1>2, <1>4 DEF ExposureFollowsSteps
<1>7. AuditFollowsExposure'
  <2>1. PreservedIsOfThisRun'
    BY <1>1, <1>2, <1>3, <1>4 DEF CloudTypes, AuditFollowsExposure, PreservedIsOfThisRun
  <2>2. QED
    BY <1>1, <1>2, <1>4, <2>1 DEF AuditFollowsExposure
<1>8. ScoreFollowsCitation'
  BY <1>1, <1>2, <1>3, <1>4 DEF ScoreFollowsCitation
<1>9. QED
  BY <1>4, <1>5, <1>6, <1>7, <1>8 DEF CloudInv

LEMMA AssessKeeps ==
  ASSUME CloudInv, NEW sound \in BOOLEAN, NEW count, NEW event, Assess(sound, count, event)
  PROVE  CloudInv' /\ cloud' = cloud
<1>1. /\ UNCHANGED <<phase, item, result, published, played, audit, adapters, cloud>>
      /\ event \in audit
      /\ assessment' = [sound |-> sound, count |-> count, cites |-> event]
  BY DEF Assess, stageVars
<1>2. CloudTypes'
  BY <1>1 DEF CloudInv, CloudTypes, AdaptersAreFresh
<1>3. ExposureFollowsSteps' /\ AuditFollowsExposure'
  BY <1>1 DEF CloudInv, ExposureFollowsSteps, AuditFollowsExposure, PreservedIsOfThisRun
<1>4. ScoreFollowsCitation'
  BY <1>1 DEF CloudInv, ScoreFollowsCitation
<1>5. QED
  BY <1>1, <1>2, <1>3, <1>4 DEF CloudInv

LEMMA DeliverCloudKeeps ==
  ASSUME CloudInv, NEW i \in CloudItems, DeliverCloud(i)
  PROVE  CloudInv' /\ cloud.count <= cloud'.count
<1>1. PICK late \in Lateness, lost \in Losses, upto \in 0..3 :
        /\ item' = [item EXCEPT ![i] =
                      CloudDelivery(i, result, late, lost, upto).step.status]
        /\ CloudDelivered(i, CloudDelivery(i, result, late, lost, upto))
  BY DEF DeliverCloud
<1>2. item[i] = "pending" /\ result' = result /\ assessment' = assessment
  BY DEF DeliverCloud, Open
<1>3. CloudTypes /\ ExposureFollowsSteps /\ i \notin played
  BY <1>2 DEF CloudInv, ExposureFollowsSteps
<1>4. StepLeaves(i, result, CloudDelivery(i, result, late, lost, upto))
  BY <1>3, CloudDeliveryIsDone
<1>5. CloudDelivery(i, result, late, lost, upto).step.status \in {"delivered", "failed"}
  BY <1>4 DEF StepLeaves
<1>6. /\ item' \in [CloudItems -> ItemStates] /\ item'[i] # "pending"
      /\ \A j \in CloudItems : item[j] # "pending" => item'[j] # "pending"
  BY <1>1, <1>3, <1>5 DEF CloudTypes, ItemStates
<1>7. CloudDelivered(i, CloudDelivery(i, result', late, lost, upto))
  BY <1>1, <1>2
<1>8. result' \in {"none", "pass", "miss"} /\ (result' = "pass" => result # "none")
  BY <1>2, <1>3 DEF CloudTypes
<1>9. QED
  BY <1>2, <1>6, <1>7, <1>8, CloudStepKeeps

\* DP3 passes on the fixtures and on a claim that this run's audit bears out.
LEMMA ResolveDp3Keeps ==
  ASSUME CloudInv, ResolveDp3
  PROVE  CloudInv' /\ cloud.count <= cloud'.count
<1> DEFINE Visit(visited) == BranchVisit("ACT-07A", "ACT-07B", CloudPassed, visited)
           match == IF CloudPassed THEN "ACT-07A" ELSE "ACT-07B"
<1>1. /\ result = "none" /\ result' = IF CloudPassed THEN "pass" ELSE "miss"
      /\ \A i \in CloudBranches : item[i] = "pending"
      /\ assessment' = assessment
  BY DEF ResolveDp3
<1>2. PICK visited \in 0..2, late \in Lateness, lost \in Losses, upto \in 0..3 :
        LET visit == Visit(visited)
            d == CloudDelivery(visit.match, result', late, lost, upto)
        IN /\ item' = Visited(visit, d.step.status)
           /\ IF visit.runs THEN CloudDelivered(visit.match, d)
              ELSE UNCHANGED <<published, adapters, cloud, played, audit>>
  BY DEF ResolveDp3
<1>3. CloudTypes /\ ExposureFollowsSteps /\ AuditFollowsExposure /\ ScoreFollowsCitation
  BY DEF CloudInv
<1>4. CloudPassed \in BOOLEAN
  BY DEF CloudPassed
<1>5. result' \in {"none", "pass", "miss"} /\ (result' = "pass" => CloudPassed)
  BY <1>1, <1>4
<1>6. result' = "pass" => /\ ~cloud.key /\ ~cloud.altered
                          /\ [type |-> "accessed", count |-> cloud.count] \in audit
  <2>1. ASSUME CloudPassed
        PROVE  [type |-> "accessed", count |-> cloud.count] \in audit
    <3>1. /\ assessment.cites \in audit /\ assessment.cites.type = "accessed"
          /\ assessment.cites.count = cloud.count
      BY <1>3, <2>1 DEF CloudPassed, ScoreFollowsCitation
    <3>2. PICK e \in AuditEvents : e = assessment.cites
      BY <1>3, <3>1 DEF CloudTypes
    <3>3. e = [type |-> "accessed", count |-> cloud.count]
      BY <3>1, <3>2 DEF AuditEvents
    <3>4. QED
      BY <3>1, <3>2, <3>3
  <2>2. QED
    BY <1>5, <2>1 DEF CloudPassed
<1>7. match \in CloudItems /\ item[match] = "pending"
  BY <1>1 DEF CloudItems, CloudBranches
<1> DEFINE mark == CloudDelivery(match, result', late, lost, upto).step.status
<1>8. mark \in {"delivered", "failed"}
  <2>1. PICK scored : scored = result'
    OBVIOUS
  <2>2. match \notin played
    BY <1>3, <1>7 DEF ExposureFollowsSteps
  <2> HIDE DEF match
  <2>3. StepLeaves(match, scored, CloudDelivery(match, scored, late, lost, upto))
    BY <1>3, <1>7, <2>2, CloudDeliveryIsDone
  <2>4. QED
    BY <2>1, <2>3 DEF StepLeaves
<1>9. /\ Visit(visited).match = match
      /\ Visit(visited).runs \in BOOLEAN /\ Visit(visited).skips \in BOOLEAN
  BY DEF BranchVisit
<1>10. /\ item' = Visited(Visit(visited), mark)
       /\ IF Visit(visited).runs
          THEN CloudDelivered(match, CloudDelivery(match, result', late, lost, upto))
          ELSE UNCHANGED <<published, adapters, cloud, played, audit>>
  BY <1>2, <1>9
<1> HIDE DEF match, Visit, mark
<1>11. /\ item' \in [CloudItems -> ItemStates]
       /\ Visit(visited).runs => item'[match] # "pending"
       /\ \A j \in CloudItems : item[j] # "pending" => item'[j] # "pending"
  BY <1>3, <1>7, <1>8, <1>9, <1>10 DEF CloudTypes, Visited, ItemStates
<1>12. CASE Visit(visited).runs
  BY <1>1, <1>5, <1>6, <1>7, <1>10, <1>11, <1>12, CloudStepKeeps
<1>13. CASE ~Visit(visited).runs
  <2>1. UNCHANGED <<published, adapters, cloud, played, audit, assessment>>
    BY <1>1, <1>10, <1>13
  <2>2. CloudTypes'
    BY <1>3, <1>5, <1>11, <2>1 DEF CloudTypes, AdaptersAreFresh
  <2>3. ExposureFollowsSteps'
    BY <1>1, <1>3, <1>11, <2>1 DEF CloudTypes, ExposureFollowsSteps
  <2>4. AuditFollowsExposure'
    BY <1>3, <2>1 DEF AuditFollowsExposure, PreservedIsOfThisRun
  <2>5. ScoreFollowsCitation'
    BY <1>3, <1>6, <2>1 DEF ScoreFollowsCitation
  <2>6. QED
    BY <1>3, <2>1, <2>2, <2>3, <2>4, <2>5 DEF CloudInv, CloudTypes
<1>14. QED
  BY <1>9, <1>12, <1>13

LEMMA CloudControlKeeps ==
  ASSUME CloudInv, CloudControl
  PROVE  CloudInv' /\ cloud' = cloud
<1>1. UNCHANGED <<cloud, played, audit, assessment, result, published>>
  BY DEF CloudControl, SkipItem, Begin, Pause, Resume, StopPlay
<1>2. CloudTypes /\ ExposureFollowsSteps /\ AuditFollowsExposure /\ ScoreFollowsCitation
  BY DEF CloudInv
<1>3. /\ item' \in [CloudItems -> ItemStates]
      /\ \A j \in CloudItems : item[j] # "pending" => item'[j] # "pending"
  BY <1>2 DEF CloudControl, SkipItem, Begin, Pause, Resume, StopPlay, CloudTypes, ItemStates
<1>4. \/ adapters' = adapters
      \/ adapters' = [a \in DOMAIN adapters |-> FailSafe(adapters[a])]
  BY DEF CloudControl, SkipItem, Begin, Pause, Resume, StopPlay
<1>5. AdaptersAreFresh({"cloud", "cloud_automation"})'
  BY <1>2, <1>4, ControlKeepsFresh DEF CloudTypes
<1>6. CloudTypes' /\ ExposureFollowsSteps'
  BY <1>1, <1>2, <1>3, <1>5 DEF CloudTypes, ExposureFollowsSteps
<1>7. AuditFollowsExposure' /\ ScoreFollowsCitation'
  BY <1>1, <1>2 DEF AuditFollowsExposure, PreservedIsOfThisRun, ScoreFollowsCitation
<1>8. QED
  BY <1>1, <1>6, <1>7 DEF CloudInv

\* What a new stage starts with.
CloudStart ==
  /\ item = [i \in CloudItems |-> "pending"]
  /\ published = [i \in CloudItems |-> "none"]
  /\ cloud = CloudBaseline /\ played = {} /\ audit = {} /\ assessment = Unassessed
  /\ result = "none"
  /\ AdaptersAreFresh({"cloud", "cloud_automation"})

LEMMA CloudStartHolds == CloudStart => CloudInv
<1> SUFFICES ASSUME CloudStart PROVE CloudInv
  OBVIOUS
<1>1. cloud = [enabled |-> TRUE, key |-> TRUE, altered |-> FALSE, count |-> 0,
               kept |-> Nothing]
  BY DEF CloudStart, CloudBaseline
<1>2. CloudTypes
  BY <1>1 DEF CloudStart, CloudTypes, ItemStates, Amounts
<1>3. ExposureFollowsSteps /\ AuditFollowsExposure /\ ScoreFollowsCitation
  BY <1>1 DEF CloudStart, ExposureFollowsSteps, AuditFollowsExposure,
              PreservedIsOfThisRun, ScoreFollowsCitation, Unassessed
<1>4. QED
  BY <1>2, <1>3 DEF CloudInv

LEMMA ResetCloudKeeps ==
  ASSUME CloudInv, ResetCloud
  PROVE  CloudInv' /\ phase' = "ready"
<1>1. AdaptersAreFresh({"cloud", "cloud_automation"})'
  BY ControlKeepsFresh DEF ResetCloud, Rebuild, CloudInv, CloudTypes
<1>2. CloudStart'
  BY <1>1 DEF ResetCloud, Rebuild, CloudStart, CloudInv, CloudTypes
<1>3. phase' = "ready"
  BY DEF ResetCloud, Rebuild
<1>4. QED
  BY <1>2, <1>3, CloudStartHolds, PTL

LEMMA CloudInitially == CloudInit => CloudInv
<1> SUFFICES ASSUME CloudInit PROVE CloudInv
  OBVIOUS
<1>1. adapters = [a \in {"cloud", "cloud_automation"} |->
                    [results |-> <<>>, stopped |-> FALSE]]
  BY DEF CloudInit, NewStage, NewAdapter
<1>2. AdaptersAreFresh({"cloud", "cloud_automation"})
  BY <1>1 DEF AdaptersAreFresh, Shaped
<1>3. CloudStart
  BY <1>2 DEF CloudInit, NewStage, CloudStart
<1>4. QED
  BY <1>3, CloudStartHolds

LEMMA CloudKept ==
  ASSUME CloudInv, [CloudNext]_cloudVars
  PROVE  CloudInv' /\ (cloud.count <= cloud'.count \/ phase' = "ready")
<1>1. cloud.count \in Nat
  BY DEF CloudInv, CloudTypes
<1>2. CASE UNCHANGED cloudVars
  <2>1. UNCHANGED <<cloud, played, audit, assessment, result, published, item, adapters>>
    BY <1>2 DEF cloudVars, stageVars
  <2>2. CloudTypes' /\ ExposureFollowsSteps'
    BY <2>1 DEF CloudInv, CloudTypes, ExposureFollowsSteps, AdaptersAreFresh
  <2>3. AuditFollowsExposure' /\ ScoreFollowsCitation'
    BY <2>1 DEF CloudInv, AuditFollowsExposure, PreservedIsOfThisRun, ScoreFollowsCitation
  <2>4. QED
    BY <1>1, <2>1, <2>2, <2>3 DEF CloudInv
<1>3. ASSUME NEW r \in CloudResponses, CloudRespond(r)
      PROVE  CloudInv' /\ cloud.count <= cloud'.count
  BY <1>1, <1>3, CloudRespondKeeps
<1>4. ASSUME NEW sound \in BOOLEAN, NEW count, NEW event, Assess(sound, count, event)
      PROVE  CloudInv' /\ cloud.count <= cloud'.count
  BY <1>1, <1>4, AssessKeeps
<1>5. CloudControl => CloudInv' /\ cloud.count <= cloud'.count
  BY <1>1, CloudControlKeeps
<1>6. QED
  BY <1>2, <1>3, <1>4, <1>5, DeliverCloudKeeps, ResolveDp3Keeps, ResetCloudKeeps
     DEF CloudNext

LEMMA ClaimsHold == CloudInv => ClaimsFollowMiss
<1> SUFFICES ASSUME CloudInv PROVE ClaimsFollowMiss
  OBVIOUS
<1>1. CloudTypes /\ ExposureFollowsSteps /\ AuditFollowsExposure /\ ScoreFollowsCitation
  BY DEF CloudInv
<1>2. ASSUME NEW e \in audit, e.type = "claimed"
      PROVE  cloud.count = 25
  <2>1. e.count = 25 /\ e.count <= cloud.count
    BY <1>1, <1>2 DEF AuditFollowsExposure
  <2>2. cloud.count <= 25
    BY <1>1 DEF ExposureFollowsSteps, CloudTypes
  <2>3. QED
    BY <1>1, <2>1, <2>2 DEF CloudTypes
<1>3. cloud.count = 25 => result = "miss"
  BY <1>1 DEF ExposureFollowsSteps
<1>4. ~cloud.key => ~Allowed(TRUE)
  BY DEF Allowed, Decision
<1>5. QED
  BY <1>1, <1>2, <1>3, <1>4 DEF ClaimsFollowMiss, ScoreFollowsCitation

LEMMA CloudEvidenceHolds == CloudInv => ExposureIsEvidenced /\ PreservedIsOfThisRun
<1> SUFFICES ASSUME CloudInv, \A i \in played : published[i] = "all"
             PROVE  cloud.count =
                      Max({0} \union {e.count : e \in {f \in audit : f.type = "accessed"}})
  BY DEF CloudInv, AuditFollowsExposure, ExposureIsEvidenced
<1> DEFINE counts == {e.count : e \in {f \in audit : f.type = "accessed"}}
<1>1. CloudTypes /\ AuditFollowsExposure
  BY DEF CloudInv
<1>2. counts \in SUBSET Nat /\ \A c \in counts : c <= cloud.count
  BY <1>1 DEF CloudTypes, AuditEvents, AuditFollowsExposure
<1>3. cloud.count = 0 \/ cloud.count \in counts
  <2>1. CASE cloud.count = 0
    BY <2>1
  <2>2. CASE [type |-> "accessed", count |-> cloud.count] \in audit
    <3>1. PICK e \in audit : e = [type |-> "accessed", count |-> cloud.count]
      BY <2>2
    <3>2. e.type = "accessed" /\ e.count = cloud.count
      BY <3>1
    <3>3. QED
      BY <3>2
  <2>3. QED
    BY <1>1, <2>1, <2>2 DEF AuditFollowsExposure
<1>4. cloud.count \in Nat
  BY <1>1 DEF CloudTypes
<1> HIDE DEF counts
<1>5. cloud.count = Max({0} \union counts)
  BY <1>2, <1>3, <1>4, LargestCount
<1>6. QED
  BY <1>5 DEF counts

\* cloud.py _read_records() and reset(): a step overwrites the confirmed exposure of a
\* run, but never with less; only a new run starts again.
THEOREM ExposureGrows == CloudSpec => ExposureOnlyGrows
<1>1. CloudInv /\ [CloudNext]_cloudVars =>
        [cloud'.count < cloud.count => phase' = "ready"]_cloudVars
  <2> SUFFICES ASSUME CloudInv, [CloudNext]_cloudVars, cloud'.count < cloud.count
               PROVE  phase' = "ready"
    OBVIOUS
  <2>1. cloud.count \in Nat /\ cloud'.count \in Nat
    BY CloudKept DEF CloudInv, CloudTypes
  <2>2. QED
    BY <2>1, CloudKept
<1>2. CloudInv /\ [CloudNext]_cloudVars => CloudInv'
  BY CloudKept
<1>3. QED
  BY <1>1, <1>2, CloudInitially, PTL DEF CloudSpec, ExposureOnlyGrows

-------------------------------------------------------------------------------
(***************************************************************************)
(* The impact and recovery stage.                                          *)
(***************************************************************************)

ImpactAdapters == {"impact", "impact_automation"}

\* The branch that a result of DP4 selects.
Selected(scored) == IF scored = "pass" THEN "ACT-08A" ELSE "ACT-08B"

ImpactTypes ==
  /\ item \in [ImpactItems -> ItemStates]
  /\ published \in [ImpactItems -> Amounts]
  /\ result \in {"none", "pass", "miss"}
  /\ impact = [prepared |-> impact.prepared, applied |-> impact.applied,
               undo |-> impact.undo]
  /\ impact.prepared \in BOOLEAN /\ impact.applied \in BOOLEAN
  /\ defence = [active |-> defence.active, contained |-> defence.contained]
  /\ defence.active \in BOOLEAN
  /\ damaged \in BOOLEAN
  /\ AdaptersAreFresh(ImpactAdapters)

\* A branch is played once, after the source was prepared and DP4 selected it; only
\* then can there be a validation, which a later change of the fixture takes back.
BranchIsPlayedOnce ==
  /\ impact.applied => result # "none" /\ item[Selected(result)] # "pending"
  /\ result # "none" => item["PRE-03"] = "delivered"
  /\ validated # 0 => impact.applied

DeliveredIsPublished ==
  \A i \in ImpactItems : item[i] = "delivered" => published[i] = "all"

FixtureInv ==
  /\ ImpactAllOrNothing /\ RunsLeaveNothing /\ ValidationIsCurrent /\ PreventedStaysBlocked

ImpactInv ==
  /\ ImpactTypes /\ BranchIsPlayedOnce /\ DeliveredIsPublished
  /\ FixtureInv /\ CompletedIsObserved

\* No original is moved away.
Unmoved(files) == files.staged = {} /\ ~files.note

LEMMA VariantsMove == Unmoved(Untouched) /\ Unmoved(Marked("blocked")) /\ Unmoved(Emptied)
BY DEF Unmoved, Untouched, Marked, Emptied

\* A way back from files in their places to files in their places moves none.
LEMMA BetweenMovesNone ==
  ASSUME NEW from, NEW to, Unmoved(from), Unmoved(to), NEW files \in Between(from, to)
  PROVE  Unmoved(files)
<1>1. /\ files.note \in {FALSE, from.note, to.note}
      /\ \/ files.staged = from.staged
         \/ files.staged \in (SUBSET from.staged) \union (SUBSET to.staged)
  BY DEF Between
<1>2. QED
  BY <1>1 DEF Unmoved

LEMMA AfterFaultMovesNone ==
  ASSUME NEW snapshot, NEW partials, NEW break, Unmoved(snapshot),
         \A partial \in partials : Unmoved(partial),
         NEW files \in AfterFault(snapshot, partials, break)
  PROVE  Unmoved(files)
BY BetweenMovesNone DEF AfterFault

\* What a delivery of the stage leaves.
ImpactLeaves(i, scored, break, d) ==
  /\ d.status \in {"delivered", "failed"} /\ d.published \in Amounts
  /\ d.good \in BOOLEAN /\ d.applied \in BOOLEAN
  /\ d.good => d.applied
  /\ d.applied => ~Refused(i, scored) /\ ImpactWorks(i, scored) /\ break = "none"
  /\ d.status = "delivered" => d.good /\ d.published = "all"

LEMMA ImpactDeliveryIsDone ==
  ASSUME AdaptersAreFresh(ImpactAdapters), NEW i \in ImpactItems, NEW scored,
         NEW break \in Breaks, NEW late, NEW lost, NEW unpublished \in BOOLEAN
  PROVE  ImpactLeaves(i, scored, break,
                      ImpactDelivery(i, scored, break, late, lost, unpublished))
<1> DEFINE d == ImpactDelivery(i, scored, break, late, lost, unpublished)
           works == ImpactWorks(i, scored) /\ break = "none"
           full == Delivery(AdapterFor(i), i, ImpactStates(i), works, late, lost, unpublished)
<1>1. Refused(i, scored) \in BOOLEAN
  BY DEF Refused
<1>2. CASE Refused(i, scored)
  <2>1. d = [status |-> "failed", applied |-> FALSE, good |-> FALSE, published |-> "none"]
    BY <1>2 DEF ImpactDelivery
  <2>2. QED
    BY <2>1 DEF ImpactLeaves, Amounts
<1>3. CASE ~Refused(i, scored)
  <2>1. d = full
    BY <1>3 DEF ImpactDelivery
  <2>2. DOMAIN adapters[AdapterFor(i)].results = {}
    BY DEF AdaptersAreFresh, AdapterFor, ImpactAdapters
  <2>3. works \in BOOLEAN
    OBVIOUS
  <2>4. /\ full.good \in BOOLEAN /\ full.applied \in BOOLEAN
        /\ full.good => full.applied
        /\ full.applied => works
        /\ full.status = IF full.good /\ ~unpublished THEN "delivered" ELSE "failed"
        /\ full.published = IF ~full.good THEN "none" ELSE IF unpublished THEN "part"
                            ELSE "all"
    <3> HIDE DEF works
    <3>1. QED
      BY <2>2, <2>3, DeliveryIsDone
  <2> HIDE DEF full, d
  <2>5. ImpactLeaves(i, scored, break, full)
    BY <1>3, <2>4 DEF ImpactLeaves, Amounts
  <2>6. QED
    BY <2>1, <2>5 DEF d
<1>4. QED
  BY <1>1, <1>2, <1>3

\* A delivery keeps the invariant; scored is the result of DP4, which is recorded
\* before its branch is visited.
LEMMA ImpactStepKeeps ==
  ASSUME ImpactInv, NEW i \in ImpactItems, item[i] = "pending", NEW break \in Breaks,
         NEW d, NEW scored, scored = result', ImpactLeaves(i, scored, break, d),
         ImpactDelivered(i, d, break),
         break # "none" => i \in ImpactBranches /\ ~Refused(i, scored) /\ Healthy,
         result' \in {"none", "pass", "miss"},
         \/ result' = result
         \/ /\ result = "none" /\ result' # "none" /\ Healthy
            /\ result' = "pass" => ~defence.active
            /\ item["PRE-03"] = "delivered" /\ i \in ImpactBranches /\ phase' = phase,
         item' \in [ImpactItems -> ItemStates], item'[i] = d.status,
         \A j \in ImpactItems \ {i} :
           /\ item[j] # "pending" => item'[j] # "pending"
           /\ item'[j] = "delivered" <=> item[j] = "delivered",
         phase # "completed",
         phase' = phase \/ (i = "END-01" /\ d.status = "delivered")
  PROVE  ImpactInv'
<1> DEFINE Kept == fixture' = fixture
           Branched == /\ i \in ImpactBranches /\ ~Refused(i, scored) /\ Healthy
                       /\ fixture' = Marked(Variant)
           partials == {Interrupted(Variant, done, at) :
                          done \in SUBSET Files, at \in {{}} \union {{f} : f \in Files}}
           Broken == /\ i \in ImpactBranches /\ ~Refused(i, scored) /\ Healthy
                     /\ fixture' \in AfterFault(fixture, partials, break)
                     /\ fixture' # fixture /\ damaged'
<1>1. /\ ImpactTypes /\ BranchIsPlayedOnce /\ DeliveredIsPublished
      /\ FixtureInv /\ CompletedIsObserved
  BY DEF ImpactInv
<1>2. /\ published' = [published EXCEPT ![i] = d.published]
      /\ adapters' = adapters /\ earlier' = earlier /\ brief' = brief /\ left' = left
      /\ validated' = IF i \in ImpactBranches /\ d.good THEN 0 ELSE validated
      /\ review' = IF i = "END-01" /\ d.applied
                   THEN (IF Recovered THEN "passed" ELSE "missed") ELSE review
      /\ defence' = IF i = "PRE-03" /\ d.applied THEN [defence EXCEPT !.active = TRUE]
                    ELSE defence
      /\ impact' = CASE i = "PRE-03" /\ d.applied -> [impact EXCEPT !.prepared = TRUE]
                     [] i \in ImpactBranches /\ d.good ->
                          [impact EXCEPT !.applied = TRUE, !.undo = "held"]
                     [] OTHER -> impact
  BY DEF ImpactDelivered
<1>3. /\ d.status \in {"delivered", "failed"} /\ d.published \in Amounts
      /\ d.good \in BOOLEAN /\ d.applied \in BOOLEAN
      /\ d.good => d.applied
      /\ d.applied => ~Refused(i, scored) /\ ImpactWorks(i, scored) /\ break = "none"
      /\ d.status = "delivered" => d.good /\ d.published = "all"
  BY DEF ImpactLeaves
<1>4. i \in ImpactBranches => i # "PRE-03" /\ i # "END-01" /\ i # "MSEL-08"
  BY DEF ImpactBranches
<1>5. Kept \/ Branched \/ Broken
  <2>1. fixture' \in
          IF i \notin ImpactBranches THEN {fixture}
          ELSE IF d.applied THEN {Marked(Variant)}
          ELSE IF break # "none" THEN AfterFault(fixture, partials, break)
          ELSE {fixture}
    BY DEF ImpactDelivered
  <2>2. CASE i \in ImpactBranches /\ d.applied
    BY <1>3, <1>4, <2>1, <2>2 DEF ImpactWorks
  <2>3. CASE (i \notin ImpactBranches \/ ~d.applied) /\ break = "none"
    BY <1>3, <2>1, <2>3
  <2>4. CASE (i \notin ImpactBranches \/ ~d.applied) /\ break # "none"
    <3>1. fixture' \in AfterFault(fixture, partials, break)
      BY <2>1, <2>4
    <3>2. break = "passing" => fixture' = fixture
      BY <3>1 DEF AfterFault
    <3>3. break = "lasting" /\ fixture' # fixture => damaged'
      BY DEF ImpactDelivered
    <3>4. QED
      BY <2>4, <3>1, <3>2, <3>3 DEF Breaks
  <2>5. QED
    BY <1>3, <2>2, <2>3, <2>4
<1>6. i \in ImpactBranches /\ ~Refused(i, scored) =>
        i = Selected(result') /\ result' # "none" /\ impact.prepared
  BY DEF Refused, ImpactBranches, Selected
<1>7. i \in ImpactBranches /\ ~Refused(i, scored) => ~impact.applied /\ validated = 0
  BY <1>1, <1>6 DEF BranchIsPlayedOnce
<1>8. /\ impact' = [prepared |-> impact'.prepared, applied |-> impact'.applied,
                    undo |-> impact'.undo]
      /\ impact'.prepared \in BOOLEAN /\ impact'.applied \in BOOLEAN
      /\ i \notin ImpactBranches \/ ~d.good =>
           impact'.applied = impact.applied /\ impact'.undo = impact.undo
      /\ i \in ImpactBranches /\ d.good => impact'.undo = "held"
  <2>1. CASE i = "PRE-03" /\ d.applied
    <3>1. impact' = [impact EXCEPT !.prepared = TRUE] /\ i \notin ImpactBranches
      BY <1>2, <1>4, <2>1
    <3>2. QED
      BY <1>1, <3>1 DEF ImpactTypes
  <2>2. CASE i \in ImpactBranches /\ d.good
    <3>1. impact' = [impact EXCEPT !.applied = TRUE, !.undo = "held"]
      BY <1>2, <1>4, <2>2
    <3>2. QED
      BY <1>1, <2>2, <3>1 DEF ImpactTypes
  <2>3. CASE ~(i = "PRE-03" /\ d.applied) /\ ~(i \in ImpactBranches /\ d.good)
    <3>1. impact' = impact
      BY <1>2, <2>3
    <3>2. QED
      BY <1>1, <2>3, <3>1 DEF ImpactTypes
  <2>4. QED
    BY <1>3, <2>1, <2>2, <2>3
<1>9. (damaged => damaged') /\ damaged' \in BOOLEAN
  BY <1>1 DEF ImpactDelivered, ImpactTypes
<1>10. /\ defence' = [active |-> defence'.active, contained |-> defence'.contained]
       /\ defence'.active \in BOOLEAN
       /\ i # "PRE-03" => defence' = defence
  <2>1. CASE i = "PRE-03" /\ d.applied
    <3>1. defence' = [defence EXCEPT !.active = TRUE]
      BY <1>2, <2>1
    <3>2. QED
      BY <1>1, <2>1, <3>1 DEF ImpactTypes
  <2>2. CASE ~(i = "PRE-03" /\ d.applied)
    BY <1>1, <1>2, <2>2 DEF ImpactTypes
  <2>3. QED
    BY <1>3, <2>1, <2>2
<1>11. ImpactTypes'
  <2>1. AdaptersAreFresh(ImpactAdapters)'
    BY <1>1, <1>2 DEF ImpactTypes, AdaptersAreFresh
  <2>2. published' \in [ImpactItems -> Amounts]
    BY <1>1, <1>2, <1>3 DEF ImpactTypes
  <2>3. QED
    BY <1>8, <1>9, <1>10, <2>1, <2>2 DEF ImpactTypes
<1>12. BranchIsPlayedOnce'
  <2>1. result' # "none" => item'["PRE-03"] = "delivered"
    <3>1. result' # "none" => item["PRE-03"] = "delivered"
      BY <1>1 DEF BranchIsPlayedOnce
    <3>2. "PRE-03" \in ImpactItems
      BY DEF ImpactItems
    <3>3. QED
      BY <3>1, <3>2
  <2>2. ASSUME impact'.applied
        PROVE  result' # "none" /\ item'[Selected(result')] # "pending"
    <3>1. CASE i \in ImpactBranches /\ d.good
      BY <1>3, <1>6, <3>1
    <3>2. CASE i \notin ImpactBranches \/ ~d.good
      <4>1. impact.applied
        BY <1>8, <2>2, <3>2
      <4>2. result # "none" /\ result' = result /\ item[Selected(result)] # "pending"
        BY <1>1, <4>1 DEF BranchIsPlayedOnce
      <4>3. Selected(result) \in ImpactItems
        BY DEF Selected, ImpactItems, ImpactBranches
      <4>4. Selected(result) # i
        BY <4>2
      <4>5. QED
        BY <4>2, <4>3, <4>4
    <3>3. QED
      BY <3>1, <3>2
  <2>3. validated' # 0 => impact'.applied
    BY <1>1, <1>2, <1>8 DEF BranchIsPlayedOnce
  <2>4. QED
    BY <2>1, <2>2, <2>3 DEF BranchIsPlayedOnce, Selected
<1>13. DeliveredIsPublished'
  <2>1. ASSUME NEW j \in ImpactItems, item'[j] = "delivered"
        PROVE  published'[j] = "all"
    <3>1. CASE j = i
      BY <1>1, <1>2, <1>3, <2>1, <3>1 DEF ImpactTypes
    <3>2. CASE j # i
      BY <1>1, <1>2, <2>1, <3>2 DEF ImpactTypes, DeliveredIsPublished
    <3>3. QED
      BY <3>1, <3>2
  <2>2. QED
    BY <2>1 DEF DeliveredIsPublished
<1>14. FixtureInv'
  <2>1. ImpactAllOrNothing'
    <3>1. CASE Kept
      BY <1>1, <1>9, <3>1 DEF FixtureInv, ImpactAllOrNothing, Marked, Untouched
    <3>2. CASE Branched
      <4>1. fixture' \in {Marked("blocked"), Marked("realized")}
        BY <3>2 DEF Variant
      <4>2. QED
        BY <4>1 DEF ImpactAllOrNothing, Marked, Untouched
    <3>3. CASE Broken
      BY <3>3 DEF ImpactAllOrNothing
    <3>4. QED
      BY <1>5, <3>1, <3>2, <3>3
  <2>2. RunsLeaveNothing'
    BY <1>1, <1>2 DEF FixtureInv, RunsLeaveNothing, Untouched
  <2>3. ValidationIsCurrent'
    <3>1. CASE validated = 0
      BY <1>2, <3>1 DEF ValidationIsCurrent
    <3>2. CASE validated # 0
      <4>1. ~(i \in ImpactBranches /\ ~Refused(i, scored))
        BY <1>7, <3>2
      <4>2. i \notin ImpactBranches \/ ~d.good
        BY <1>3, <4>1
      <4>3. fixture' = fixture
        BY <1>5, <4>1
      <4>4. validated' = validated
        BY <1>2, <4>2
      <4>5. QED
        BY <1>1, <1>9, <4>3, <4>4 DEF FixtureInv, ValidationIsCurrent, Healthy, Untouched
    <3>3. QED
      BY <3>1, <3>2
  <2>4. PreventedStaysBlocked'
    <3> SUFFICES ASSUME result' = "pass"
                 PROVE  Unmoved(fixture') /\ ~defence'.active
      BY DEF PreventedStaysBlocked, Unmoved
    <3>1. ~defence.active /\ Unmoved(fixture) /\ item["PRE-03"] = "delivered"
      BY <1>1, VariantsMove DEF FixtureInv, PreventedStaysBlocked, BranchIsPlayedOnce,
                                Healthy, Unmoved
    <3>2. defence' = defence
      BY <1>10, <3>1
    <3>3. Variant = "blocked"
      BY <3>1 DEF Variant
    <3>4. Branched => Unmoved(fixture')
      BY <3>3, VariantsMove
    <3>5. \A partial \in partials : Unmoved(partial)
      BY <3>3 DEF Interrupted, Unmoved
    <3>6. Broken => Unmoved(fixture')
      <4> HIDE DEF partials
      <4>1. QED
        BY <3>1, <3>5, AfterFaultMovesNone
    <3>7. QED
      BY <1>5, <3>1, <3>2, <3>4, <3>6
  <2>5. QED
    BY <2>1, <2>2, <2>3, <2>4 DEF FixtureInv
<1>15. CompletedIsObserved'
  <2> SUFFICES ASSUME phase' = "completed"
               PROVE  CompletedIsObserved'
    BY DEF CompletedIsObserved
  <2>1. i = "END-01" /\ d.status = "delivered" /\ d.applied
    BY <1>3
  <2>2. ImpactWorks(i, scored) /\ i \notin ImpactBranches
    BY <1>3, <1>4, <2>1
  <2>3. /\ impact.applied /\ "sources" \in earlier /\ scored # "none"
        /\ \A s \in {"PRE-03", "MSEL-08", Selected(scored)} : item[s] = "delivered"
    BY <2>1, <2>2 DEF ImpactWorks, Selected
  <2>4. impact'.applied /\ "sources" \in earlier' /\ result' # "none"
    BY <1>2, <1>8, <2>2, <2>3
  <2>5. {"PRE-03", "MSEL-08", Selected(scored)} \subseteq ImpactItems \ {i}
    BY <2>1 DEF ImpactItems, ImpactBranches, Selected
  <2>6. \A s \in {"PRE-03", "MSEL-08", "END-01", Selected(scored)} :
          item'[s] = "delivered" /\ published'[s] = "all"
    <3>1. \A s \in {"PRE-03", "MSEL-08", "END-01", Selected(scored)} :
            s \in ImpactItems /\ item'[s] = "delivered"
      BY <2>1, <2>3, <2>5
    <3>2. QED
      BY <1>13, <3>1 DEF DeliveredIsPublished
  <2>7. /\ review' \in {"passed", "missed"}
        /\ review' = "passed" => brief'.sound /\ brief'.cites # 0
    BY <1>2, <2>1 DEF Recovered
  <2>8. QED
    BY <2>4, <2>6, <2>7 DEF CompletedIsObserved, Selected
<1>16. QED
  BY <1>11, <1>12, <1>13, <1>14, <1>15 DEF ImpactInv

LEMMA DeliverImpactKeeps ==
  ASSUME ImpactInv, NEW i \in ImpactItems, DeliverImpact(i)
  PROVE  ImpactInv'
<1>1. PICK late \in Lateness, lost \in Losses,
           unpublished \in BOOLEAN, silent \in BOOLEAN, break \in Breaks :
        LET d == ImpactDelivery(i, result, break, late, lost, unpublished)
        IN /\ Fault(late, lost, unpublished \/ break # "none" \/ silent)
           /\ break # "none" => MayBreak(i, result, late, lost, unpublished)
           /\ silent => i = "END-01" /\ d.status = "delivered"
           /\ item' = [item EXCEPT ![i] = d.status]
           /\ phase' = IF i = "END-01" /\ d.status = "delivered" /\ ~silent
                       THEN "completed" ELSE phase
           /\ ImpactDelivered(i, d, break)
  BY Zenon DEF DeliverImpact
<1>2. PICK d : d = ImpactDelivery(i, result, break, late, lost, unpublished)
  OBVIOUS
<1>3. /\ break # "none" => i \in ImpactBranches /\ ~Refused(i, result) /\ Healthy
      /\ item' = [item EXCEPT ![i] = d.status]
      /\ phase' = phase \/ (i = "END-01" /\ d.status = "delivered")
      /\ ImpactDelivered(i, d, break)
  BY <1>1, <1>2 DEF MayBreak
<1>4. result' = result /\ item[i] = "pending" /\ phase # "completed"
  BY DEF DeliverImpact, Open
<1>5. ImpactTypes
  BY DEF ImpactInv
<1>6. ImpactLeaves(i, result, break, d)
  BY <1>2, <1>5, ImpactDeliveryIsDone DEF ImpactTypes
<1>7. d.status \in {"delivered", "failed"}
  BY <1>6 DEF ImpactLeaves
<1>8. /\ item' \in [ImpactItems -> ItemStates] /\ item'[i] = d.status
      /\ \A j \in ImpactItems \ {i} : item'[j] = item[j]
  BY <1>3, <1>5, <1>7 DEF ImpactTypes, ItemStates
<1>9. PICK scored : scored = result
  OBVIOUS
<1>10. /\ ImpactLeaves(i, scored, break, d) /\ scored = result'
       /\ break # "none" => i \in ImpactBranches /\ ~Refused(i, scored) /\ Healthy
  BY <1>3, <1>4, <1>6, <1>9
<1>11. result' \in {"none", "pass", "miss"}
  BY <1>4, <1>5 DEF ImpactTypes
<1>12. QED
  BY <1>3, <1>4, <1>8, <1>10, <1>11, ImpactStepKeeps

\* DP4 is resolved on a healthy source, and its branch is visited at once.
LEMMA ResolveDp4Keeps ==
  ASSUME ImpactInv, ResolveDp4
  PROVE  ImpactInv'
<1> DEFINE Visit(visited) == BranchVisit("ACT-08A", "ACT-08B", Prevented, visited)
           match == IF Prevented THEN "ACT-08A" ELSE "ACT-08B"
           opposite == IF Prevented THEN "ACT-08B" ELSE "ACT-08A"
<1>1. /\ phase = "running" /\ phase' = phase /\ result = "none"
      /\ item["PRE-03"] = "delivered" /\ Healthy
      /\ \A j \in ImpactBranches : item[j] = "pending"
      /\ result' = IF Prevented THEN "pass" ELSE "miss"
  BY DEF ResolveDp4
<1>2. PICK visited \in 0..2, late \in Lateness, lost \in Losses,
           unpublished \in BOOLEAN, break \in Breaks :
        LET visit == Visit(visited)
            d == ImpactDelivery(visit.match, result', break, late, lost, unpublished)
        IN /\ break # "none" => MayBreak(visit.match, result', late, lost, unpublished)
           /\ item' = Visited(visit, d.status)
           /\ IF visit.runs THEN ImpactDelivered(visit.match, d, break)
              ELSE UNCHANGED <<published, adapters, fixture, damaged, defence, earlier,
                               impact, validated, checks, brief, review, left>>
  BY DEF ResolveDp4
<1>3. /\ ImpactTypes /\ BranchIsPlayedOnce /\ DeliveredIsPublished
      /\ FixtureInv /\ CompletedIsObserved
  BY DEF ImpactInv
<1>4. /\ result' \in {"none", "pass", "miss"} /\ result' # "none"
      /\ result' = "pass" => ~defence.active
  BY <1>1 DEF Prevented
<1>5. PICK scored : scored = result'
  OBVIOUS
<1>6. /\ Visit(visited).match = match /\ Visit(visited).opposite = opposite
      /\ Visit(visited).runs \in BOOLEAN /\ Visit(visited).skips \in BOOLEAN
  BY DEF BranchVisit
<1>7. PICK d : d = ImpactDelivery(match, scored, break, late, lost, unpublished)
  OBVIOUS
<1>8. /\ break # "none" => ~Refused(match, scored)
      /\ item' = Visited(Visit(visited), d.status)
      /\ IF Visit(visited).runs THEN ImpactDelivered(match, d, break)
         ELSE UNCHANGED <<published, adapters, fixture, damaged, defence, earlier, impact,
                          validated, checks, brief, review, left>>
  BY <1>2, <1>5, <1>6, <1>7 DEF MayBreak
<1>9. /\ match \in ImpactBranches /\ opposite \in ImpactBranches /\ match # opposite
      /\ ImpactBranches \subseteq ImpactItems /\ "PRE-03" \notin ImpactBranches
      /\ "PRE-03" \in ImpactItems
  BY DEF ImpactBranches, ImpactItems
<1> HIDE DEF match, opposite, Visit
<1>10. ImpactLeaves(match, scored, break, d)
  BY <1>3, <1>7, <1>9, ImpactDeliveryIsDone DEF ImpactTypes
<1>11. d.status \in {"delivered", "failed"}
  BY <1>10 DEF ImpactLeaves
<1>12. /\ item' \in [ImpactItems -> ItemStates]
       /\ Visit(visited).runs => item'[match] = d.status
       /\ ~Visit(visited).runs => item'[match] = item[match]
       /\ \A j \in ImpactItems \ {match} :
            /\ item[j] # "pending" => item'[j] # "pending"
            /\ item'[j] = "delivered" <=> item[j] = "delivered"
  <2>1. ASSUME NEW j \in ImpactItems
        PROVE  item'[j] = CASE j = match /\ Visit(visited).runs      -> d.status
                            [] j = opposite /\ Visit(visited).skips  -> "skipped"
                            [] OTHER                                 -> item[j]
    BY <1>3, <1>6, <1>8 DEF Visited, ImpactTypes
  <2>2. DOMAIN item' = ImpactItems /\ item' = [j \in ImpactItems |-> item'[j]]
    BY <1>3, <1>8 DEF Visited, ImpactTypes
  <2>3. ASSUME NEW j \in ImpactItems
        PROVE  /\ item'[j] \in ItemStates
               /\ j = match /\ Visit(visited).runs => item'[j] = d.status
               /\ j = match /\ ~Visit(visited).runs => item'[j] = item[j]
               /\ j # match => /\ item[j] # "pending" => item'[j] # "pending"
                               /\ item'[j] = "delivered" <=> item[j] = "delivered"
    <3>1. item[j] \in ItemStates
      BY <1>3 DEF ImpactTypes
    <3>2. CASE j = match
      BY <1>9, <1>11, <2>1, <3>1, <3>2 DEF ItemStates
    <3>3. CASE j # match
      <4>1. j = opposite => item[j] = "pending"
        BY <1>1, <1>9
      <4>2. item'[j] = item[j] \/ (j = opposite /\ item'[j] = "skipped")
        BY <2>1, <3>3
      <4>3. QED
        BY <3>1, <3>3, <4>1, <4>2 DEF ItemStates
    <3>4. QED
      BY <3>2, <3>3
  <2>4. QED
    BY <1>9, <2>2, <2>3
<1>13. CASE Visit(visited).runs
  <2>1. ImpactDelivered(match, d, break) /\ item'[match] = d.status
    BY <1>8, <1>12, <1>13
  <2>2. item[match] = "pending" /\ match \in ImpactItems
    BY <1>1, <1>9
  <2>3. QED
    BY <1>1, <1>4, <1>5, <1>8, <1>9, <1>10, <1>12, <2>1, <2>2, ImpactStepKeeps
<1>14. CASE ~Visit(visited).runs
  <2>1. UNCHANGED <<published, adapters, fixture, damaged, defence, earlier, impact,
                    validated, checks, brief, review, left>>
    BY <1>8, <1>14
  <2>2. \A j \in ImpactItems : item'[j] = "delivered" <=> item[j] = "delivered"
    BY <1>9, <1>12, <1>14
  <2>3. ImpactTypes'
    BY <1>3, <1>4, <1>12, <2>1 DEF ImpactTypes, AdaptersAreFresh
  <2>4. BranchIsPlayedOnce'
    BY <1>1, <1>3, <1>9, <2>1, <2>2 DEF BranchIsPlayedOnce
  <2>5. DeliveredIsPublished'
    BY <1>3, <2>1, <2>2 DEF DeliveredIsPublished
  <2>6. FixtureInv'
    <3>1. PreventedStaysBlocked'
      BY <1>1, <1>4, <2>1, VariantsMove DEF PreventedStaysBlocked, Healthy, Unmoved
    <3>2. QED
      BY <1>3, <2>1, <3>1 DEF FixtureInv, ImpactAllOrNothing, RunsLeaveNothing,
                              ValidationIsCurrent, Healthy, Marked, Untouched
  <2>7. CompletedIsObserved'
    BY <1>1 DEF CompletedIsObserved
  <2>8. QED
    BY <2>3, <2>4, <2>5, <2>6, <2>7 DEF ImpactInv
<1>15. QED
  BY <1>6, <1>13, <1>14

\* An observed success was executed just now, by a handler that finished.
LEMMA ObservedIsDone ==
  ASSUME NEW r, NEW dry, NEW works \in BOOLEAN, NEW late, NEW lost,
         DOMAIN adapters["impact"].results = {}, NEW outcome,
         outcome = Submission("impact", RecoveryDefinition(r), r, "cloud_responder",
                              OwnKey, dry, works, late, lost)
  PROVE  Observed(outcome, dry) => works
<1> SUFFICES ASSUME ~works, Observed(outcome, dry)
             PROVE  FALSE
  OBVIOUS
<1> DEFINE request == [key |-> OwnKey, print |-> <<r, "cloud_responder", dry>>,
                       role |-> "cloud_responder", target |-> r, dry |-> dry]
           answer(reply, cached, next, applied) ==
             [reply   |-> IF lost = "last" THEN "raised" ELSE reply, cached |-> cached,
              adapter |-> next, applied |-> applied]
           mark == Status(request, works, late)
<1>1. ~Known(adapters["impact"], request)
  BY DEF Known
<1>2. outcome \in {[reply |-> "raised", cached |-> FALSE,
                    adapter |-> adapters["impact"], applied |-> FALSE],
                   answer("denied", FALSE, adapters["impact"], FALSE),
                   answer(mark, FALSE, Stored(adapters["impact"], request, mark),
                          Applied(request, works, late))}
  <2> HIDE DEF request
  <2>1. outcome = Execute(adapters["impact"], RecoveryDefinition(r), request, phase,
                          works, late, lost)
    BY DEF Submission, request
  <2>2. QED
    BY <1>1, <2>1 DEF Execute
<1>3. outcome.reply \in {"raised", "denied", mark}
  BY <1>2
<1>4. ~dry /\ outcome.reply \in {"executed", "dry_run"}
  BY DEF Observed, Successful
<1>5. mark \in {"timed_out", "failed"}
  BY <1>4 DEF Status
<1>6. QED
  BY <1>3, <1>4, <1>5

\* What a restore leaves: the untouched files, those of before, or damaged ones.
LEMMA RestoreLeaves ==
  ASSUME NEW applied, NEW break \in Breaks, NEW files \in RestoreFixture(applied, break)
  PROVE  /\ files = Untouched \/ (damaged => Damaged(applied, break, files))
         /\ files \in {fixture, Untouched} \/ Damaged(applied, break, files)
<1>1. CASE applied
  BY <1>1 DEF RestoreFixture
<1>2. CASE ~applied /\ break # "lasting"
  BY <1>2 DEF RestoreFixture, AfterFault, Damaged, Breaks
<1>3. CASE ~applied /\ break = "lasting"
  BY <1>3 DEF Damaged
<1>4. QED
  BY <1>1, <1>2, <1>3

LEMMA RestoreMovesNone ==
  ASSUME Unmoved(fixture), NEW applied, NEW break, NEW files \in RestoreFixture(applied, break)
  PROVE  Unmoved(files)
<1>1. \A partial \in RestoreBroken : Unmoved(partial)
  <2>1. \A partial \in Between(fixture, Emptied) : Unmoved(partial)
    BY VariantsMove, BetweenMovesNone
  <2>2. \A there : Unmoved([Emptied EXCEPT !.live = there])
    BY DEF Emptied, Unmoved
  <2>3. QED
    BY <2>1, <2>2 DEF RestoreBroken
<1>2. CASE applied
  BY <1>2, VariantsMove DEF RestoreFixture
<1>3. CASE ~applied /\ break = "none"
  BY <1>3 DEF RestoreFixture
<1>4. CASE ~applied /\ break # "none"
  <2>1. files \in AfterFault(fixture, RestoreBroken, break)
    BY <1>4 DEF RestoreFixture
  <2>2. QED
    BY <1>1, <2>1, AfterFaultMovesNone
<1>5. QED
  BY <1>2, <1>3, <1>4

\* A validation is recorded of a healthy fixture only; a restore that is recorded
\* takes the validation back.
LEMMA RecoverKeeps ==
  ASSUME ImpactInv, NEW r \in Recoveries, NEW dry \in BOOLEAN, Recover(r, dry)
  PROVE  ImpactInv'
<1>1. PICK late \in Lateness, lost \in Losses, unpublished \in BOOLEAN, break \in Breaks :
        LET works == IF r = "restore" THEN break = "none" ELSE Healthy
            outcome == Submission("impact", RecoveryDefinition(r), r, "cloud_responder",
                                  OwnKey, dry, works, late, lost)
            fresh == Observed(outcome, dry)
            restored == outcome.applied /\ r = "restore"
        IN /\ Fault(late, lost, unpublished \/ break # "none")
           /\ break # "none" => /\ r = "restore" /\ ~dry /\ phase = "running"
                                /\ lost = "none" /\ late = "never"
           /\ unpublished => fresh
           /\ fixture' \in RestoreFixture(restored, break)
           /\ damaged' = Damaged(restored, break, fixture')
           /\ Submitted("impact", OwnKey, outcome)
           /\ RecoveryRecorded(r, fresh /\ ~unpublished)
           /\ checks' <= MaxChecks
  BY Zenon DEF Recover
<1>2. PICK outcome :
        outcome = Submission("impact", RecoveryDefinition(r), r, "cloud_responder", OwnKey,
                             dry, IF r = "restore" THEN break = "none" ELSE Healthy, late, lost)
  OBVIOUS
<1>3. /\ fixture' \in RestoreFixture(outcome.applied /\ r = "restore", break)
      /\ damaged' = Damaged(outcome.applied /\ r = "restore", break, fixture')
      /\ break # "none" => r = "restore"
      /\ adapters' = adapters
      /\ RecoveryRecorded(r, Observed(outcome, dry) /\ ~unpublished)
  BY <1>1, <1>2 DEF Submitted
<1>4. /\ impact.applied
      /\ UNCHANGED <<phase, item, result, published, defence, earlier, impact, brief,
                     review, left>>
  BY DEF Recover
<1>5. /\ ImpactTypes /\ BranchIsPlayedOnce /\ DeliveredIsPublished
      /\ FixtureInv /\ CompletedIsObserved
  BY DEF ImpactInv
<1>6. /\ fixture' = Untouched \/ (damaged => damaged')
      /\ fixture' \in {fixture, Untouched} \/ damaged'
      /\ PreventedStaysBlocked => PreventedStaysBlocked'
      /\ r = "validate" => fixture' = fixture /\ damaged' = damaged
  <2>1. /\ fixture' = Untouched \/ (damaged => damaged')
        /\ fixture' \in {fixture, Untouched} \/ damaged'
    BY <1>3, RestoreLeaves
  <2>2. PreventedStaysBlocked => PreventedStaysBlocked'
    BY <1>3, <1>4, RestoreMovesNone DEF PreventedStaysBlocked, Unmoved
  <2>3. r = "validate" => fixture' = fixture /\ damaged' = damaged
    BY <1>3, <1>5 DEF RestoreFixture, Damaged, ImpactTypes
  <2>4. QED
    BY <2>1, <2>2, <2>3
<1>7. Observed(outcome, dry) /\ r = "validate" => Healthy
  <2>1. DOMAIN adapters["impact"].results = {}
    BY <1>5 DEF ImpactTypes, AdaptersAreFresh, ImpactAdapters
  <2>2. CASE r = "validate"
    <3>1. Healthy \in BOOLEAN
      BY DEF Healthy
    <3>2. outcome = Submission("impact", RecoveryDefinition(r), r, "cloud_responder",
                               OwnKey, dry, Healthy, late, lost)
      BY <1>2, <2>2
    <3>3. QED
      BY <2>1, <3>1, <3>2, ObservedIsDone
  <2>3. QED
    BY <2>2
<1>8. \/ validated' = validated
      \/ validated' = 0
      \/ Healthy /\ r = "validate"
  BY <1>3, <1>7 DEF RecoveryRecorded
<1>9. ImpactTypes'
  BY <1>3, <1>4, <1>5 DEF ImpactTypes, AdaptersAreFresh, Damaged
<1>10. BranchIsPlayedOnce'
  BY <1>4, <1>5 DEF BranchIsPlayedOnce, Selected
<1>11. DeliveredIsPublished' /\ CompletedIsObserved'
  BY <1>4, <1>5 DEF DeliveredIsPublished, CompletedIsObserved
<1>12. FixtureInv'
  <2>1. ValidationIsCurrent'
    <3>1. fixture = Untouched => fixture' = Untouched \/ damaged'
      BY <1>6
    <3>2. QED
      BY <1>5, <1>6, <1>8, <3>1 DEF FixtureInv, ValidationIsCurrent, Healthy, Untouched
  <2>2. ImpactAllOrNothing' /\ RunsLeaveNothing'
    BY <1>4, <1>5, <1>6 DEF FixtureInv, ImpactAllOrNothing, RunsLeaveNothing, Marked,
                            Untouched
  <2>3. QED
    BY <1>5, <1>6, <2>1, <2>2 DEF FixtureInv
<1>13. QED
  BY <1>9, <1>10, <1>11, <1>12 DEF ImpactInv

\* The staff rollback: what it breaks it owns up to.
LEMMA RollbackKeeps ==
  ASSUME ImpactInv, StaffRollback
  PROVE  ImpactInv'
<1>1. /\ ImpactTypes /\ BranchIsPlayedOnce /\ DeliveredIsPublished
      /\ FixtureInv /\ CompletedIsObserved
  BY DEF ImpactInv
<1>2. UNCHANGED <<phase, item, result, published, adapters, defence, earlier, checks,
                  brief, review, left>>
  BY DEF StaffRollback
<1>3. /\ \/ /\ fixture' = Untouched /\ validated' = 0
            /\ impact' = [impact EXCEPT !.undo = "none"]
         \/ /\ impact' = [impact EXCEPT !.undo = "spent"] /\ validated' = validated
            /\ fixture' \in Between(fixture, Untouched)
      /\ damaged' = (fixture' # Untouched)
  BY DEF StaffRollback
<1>4. /\ impact' = [prepared |-> impact.prepared, applied |-> impact.applied,
                    undo |-> impact'.undo]
      /\ validated' = 0 \/ validated' = validated
  BY <1>1, <1>3 DEF ImpactTypes
<1>5. impact'.prepared = impact.prepared /\ impact'.applied = impact.applied
  BY <1>4
<1>6. ImpactTypes'
  BY <1>1, <1>2, <1>3, <1>4, <1>5 DEF ImpactTypes, AdaptersAreFresh
<1>7. BranchIsPlayedOnce'
  BY <1>1, <1>2, <1>4, <1>5 DEF BranchIsPlayedOnce, Selected
<1>8. DeliveredIsPublished' /\ CompletedIsObserved'
  BY <1>1, <1>2, <1>5 DEF DeliveredIsPublished, CompletedIsObserved
<1>9. FixtureInv'
  <2>1. PreventedStaysBlocked'
    <3>1. Unmoved(fixture) => Unmoved(fixture')
      BY <1>3, VariantsMove, BetweenMovesNone
    <3>2. QED
      BY <1>1, <1>2, <3>1 DEF FixtureInv, PreventedStaysBlocked, Unmoved
  <2>2. QED
    BY <1>1, <1>2, <1>3, <2>1 DEF FixtureInv, ImpactAllOrNothing, RunsLeaveNothing,
         ValidationIsCurrent, Healthy, Marked, Untouched
<1>10. QED
  BY <1>6, <1>7, <1>8, <1>9 DEF ImpactInv

\* What the rest of the run does meanwhile; nothing arms the task again.
LEMMA MeanwhileKeeps ==
  ASSUME ImpactInv,
         \/ Defend \/ EarlierStages
         \/ \E sound \in BOOLEAN, cites \in 0..MaxChecks : SubmitBrief(sound, cites)
  PROVE  ImpactInv'
<1>1. /\ ImpactTypes /\ BranchIsPlayedOnce /\ DeliveredIsPublished
      /\ FixtureInv /\ CompletedIsObserved
  BY DEF ImpactInv
<1>2. /\ UNCHANGED <<phase, item, result, published, adapters, fixture, damaged, impact,
                     validated, review, left>>
      /\ phase # "completed"
  BY DEF Defend, EarlierStages, SubmitBrief, stageVars
<1>3. /\ defence' = [active |-> defence'.active, contained |-> defence'.contained]
      /\ defence'.active \in BOOLEAN
      /\ defence'.active => defence.active
  <2>1. \/ defence' = defence
        \/ defence' = [defence EXCEPT !.active = FALSE]
        \/ \E c \in BOOLEAN : defence' = [defence EXCEPT !.contained = c]
    BY DEF Defend, EarlierStages, SubmitBrief
  <2>2. QED
    BY <1>1, <2>1 DEF ImpactTypes
<1>4. ImpactTypes'
  BY <1>1, <1>2, <1>3 DEF ImpactTypes, AdaptersAreFresh
<1>5. BranchIsPlayedOnce' /\ DeliveredIsPublished' /\ CompletedIsObserved'
  BY <1>1, <1>2 DEF BranchIsPlayedOnce, DeliveredIsPublished, CompletedIsObserved, Selected
<1>6. FixtureInv'
  <2>1. PreventedStaysBlocked'
    BY <1>1, <1>2, <1>3 DEF FixtureInv, PreventedStaysBlocked, Marked
  <2>2. QED
    BY <1>1, <1>2, <2>1 DEF FixtureInv, ImpactAllOrNothing, RunsLeaveNothing,
                            ValidationIsCurrent, Healthy, Marked, Untouched
<1>7. QED
  BY <1>4, <1>5, <1>6 DEF ImpactInv

LEMMA ImpactControlKeeps ==
  ASSUME ImpactInv, ImpactControl
  PROVE  ImpactInv'
<1>1. /\ ImpactTypes /\ BranchIsPlayedOnce /\ DeliveredIsPublished
      /\ FixtureInv /\ CompletedIsObserved
  BY DEF ImpactInv
<1>2. UNCHANGED <<result, published, fixture, damaged, defence, earlier, impact, validated,
                  checks, brief, review, left>>
  BY DEF ImpactControl, SkipItem, Begin, Pause, Resume, StopPlay
<1>3. \/ adapters' = adapters
      \/ adapters' = [a \in DOMAIN adapters |-> FailSafe(adapters[a])]
  BY DEF ImpactControl, SkipItem, Begin, Pause, Resume, StopPlay
<1>4. phase' # "completed" \/ (phase' = phase /\ item' = item)
  BY DEF ImpactControl, SkipItem, Begin, Pause, Resume, StopPlay, Open
<1>5. \/ item' = item
      \/ \E i \in ImpactItems : item[i] = "pending" /\ item' = [item EXCEPT ![i] = "skipped"]
  BY DEF ImpactControl, SkipItem, Begin, Pause, Resume, StopPlay, Open
<1>6. /\ item' \in [ImpactItems -> ItemStates]
      /\ \A j \in ImpactItems : /\ item[j] # "pending" => item'[j] # "pending"
                                /\ item'[j] = "delivered" <=> item[j] = "delivered"
  BY <1>1, <1>5 DEF ImpactTypes, ItemStates
<1>7. AdaptersAreFresh(ImpactAdapters)'
  BY <1>1, <1>3, ControlKeepsFresh DEF ImpactTypes
<1>8. ImpactTypes'
  BY <1>1, <1>2, <1>6, <1>7 DEF ImpactTypes
<1>9. BranchIsPlayedOnce'
  <2>1. Selected(result) \in ImpactItems /\ "PRE-03" \in ImpactItems
    BY DEF Selected, ImpactItems, ImpactBranches
  <2>2. Selected(result)' = Selected(result)
    BY <1>2 DEF Selected
  <2>3. QED
    BY <1>1, <1>2, <1>6, <2>1, <2>2 DEF BranchIsPlayedOnce
<1>10. DeliveredIsPublished'
  BY <1>1, <1>2, <1>6 DEF DeliveredIsPublished
<1>11. FixtureInv'
  BY <1>1, <1>2 DEF FixtureInv, ImpactAllOrNothing, RunsLeaveNothing,
       ValidationIsCurrent, PreventedStaysBlocked, Healthy, Marked, Untouched
<1>12. CompletedIsObserved'
  BY <1>1, <1>2, <1>4 DEF CompletedIsObserved
<1>13. QED
  BY <1>8, <1>9, <1>10, <1>11, <1>12 DEF ImpactInv

\* What a new stage starts with.
ImpactStart ==
  /\ phase = "ready"
  /\ item = [i \in ImpactItems |-> "pending"]
  /\ published = [i \in ImpactItems |-> "none"]
  /\ result = "none"
  /\ fixture = Untouched /\ damaged = FALSE
  /\ defence = [active |-> FALSE, contained |-> FALSE]
  /\ impact = [prepared |-> FALSE, applied |-> FALSE, undo |-> "none"]
  /\ validated = 0
  /\ left \subseteq {Untouched}
  /\ AdaptersAreFresh(ImpactAdapters)

LEMMA ImpactStartHolds == ImpactStart => ImpactInv
<1> SUFFICES ASSUME ImpactStart PROVE ImpactInv
  OBVIOUS
<1>1. ImpactTypes
  BY DEF ImpactStart, ImpactTypes, ItemStates, Amounts
<1>2. BranchIsPlayedOnce /\ DeliveredIsPublished /\ CompletedIsObserved
  BY DEF ImpactStart, BranchIsPlayedOnce, DeliveredIsPublished, CompletedIsObserved
<1>3. FixtureInv
  BY DEF ImpactStart, FixtureInv, ImpactAllOrNothing, RunsLeaveNothing,
         ValidationIsCurrent, PreventedStaysBlocked, Healthy
<1>4. QED
  BY <1>1, <1>2, <1>3 DEF ImpactInv

\* A reset that fails has restored the fixture at most.
LEMMA ResetImpactKeeps ==
  ASSUME ImpactInv, ResetImpact
  PROVE  ImpactInv'
<1>1. /\ ImpactTypes /\ BranchIsPlayedOnce /\ DeliveredIsPublished
      /\ FixtureInv /\ CompletedIsObserved
  BY DEF ImpactInv
<1> DEFINE Failed == UNCHANGED <<phase, item, result, published, adapters, defence, earlier,
                                 impact, validated, checks, brief, review, left>>
           Outcome(break, late, lost) ==
             Execute(NewAdapter,
               [roles |-> {"technical_operator"}, target |-> "reset",
                states |-> {"stopped"}],
               [key |-> OwnKey, print |-> "reset", role |-> "technical_operator",
                target |-> "reset", dry |-> FALSE],
               "stopped", break = "none", late, lost)
<1>2. \/ \E restored : Rebuild /\ FreshRun /\ restored = Untouched
                       /\ left' = left \union {restored}
      \/ \E applied : \E break \in Breaks :
            /\ fixture' \in RestoreFixture(applied, break)
            /\ damaged' = Damaged(applied, break, fixture')
            /\ Failed
  <2>1. PICK late \in Lateness, lost \in Losses, unpublished \in BOOLEAN, break \in Breaks :
          LET outcome == Outcome(break, late, lost)
          IN /\ break # "none" => lost = "none" /\ late = "never" /\ ~unpublished
             /\ \E restored \in RestoreFixture(outcome.applied, break) :
                  IF RestoredForReset(outcome, restored) /\ ~unpublished
                  THEN Rebuild /\ FreshRun /\ left' = left \union {restored}
                  ELSE /\ Fault(late, lost, unpublished \/ break # "none")
                       /\ fixture' = restored
                       /\ damaged' = Damaged(outcome.applied, break, restored)
                       /\ Failed
    BY Zenon DEF ResetImpact
  <2> HIDE DEF Outcome, Failed
  <2>2. PICK applied : applied = Outcome(break, late, lost).applied
    OBVIOUS
  <2>3. PICK restored \in RestoreFixture(applied, break) :
          \/ restored = Untouched /\ Rebuild /\ FreshRun /\ left' = left \union {restored}
          \/ /\ fixture' = restored /\ damaged' = Damaged(applied, break, restored)
             /\ Failed
    BY <2>1, <2>2 DEF RestoredForReset
  <2>4. QED
    BY <2>3
<1>3. CASE Rebuild /\ FreshRun /\ left' = left \union {Untouched}
  <2>1. AdaptersAreFresh(ImpactAdapters)'
    BY <1>1, <1>3, ControlKeepsFresh DEF Rebuild, ImpactTypes
  <2>2. ImpactStart'
    BY <1>1, <1>3, <2>1 DEF Rebuild, FreshRun, ImpactStart, ImpactTypes, FixtureInv,
                            RunsLeaveNothing, Untouched
  <2>3. QED
    BY <2>2, ImpactStartHolds, PTL
<1>4. ASSUME NEW applied, NEW break \in Breaks,
             fixture' \in RestoreFixture(applied, break),
             damaged' = Damaged(applied, break, fixture'), Failed
      PROVE  ImpactInv'
  <2>1. ImpactTypes'
    BY <1>1, <1>4 DEF ImpactTypes, AdaptersAreFresh, Damaged
  <2>2. BranchIsPlayedOnce' /\ DeliveredIsPublished' /\ CompletedIsObserved'
    BY <1>1, <1>4 DEF BranchIsPlayedOnce, DeliveredIsPublished, CompletedIsObserved, Selected
  <2>3. FixtureInv'
    <3>1. PreventedStaysBlocked'
      BY <1>1, <1>4, RestoreMovesNone DEF FixtureInv, PreventedStaysBlocked, Unmoved
    <3>2. /\ fixture' = Untouched \/ (damaged => damaged')
          /\ fixture' \in {fixture, Untouched} \/ damaged'
      BY <1>4, RestoreLeaves
    <3>3. QED
      BY <1>1, <1>4, <3>1, <3>2 DEF FixtureInv, ImpactAllOrNothing, RunsLeaveNothing,
                                   ValidationIsCurrent, Healthy, Marked, Untouched
  <2>4. QED
    BY <2>1, <2>2, <2>3 DEF ImpactInv
<1>5. QED
  BY <1>2, <1>3, <1>4

LEMMA ImpactInitially == ImpactInit => ImpactInv
<1> SUFFICES ASSUME ImpactInit PROVE ImpactInv
  OBVIOUS
<1>1. adapters = [a \in ImpactAdapters |-> [results |-> <<>>, stopped |-> FALSE]]
  BY DEF ImpactInit, NewStage, NewAdapter, ImpactAdapters
<1>2. AdaptersAreFresh(ImpactAdapters)
  BY <1>1 DEF AdaptersAreFresh, Shaped
<1>3. ImpactStart
  BY <1>2 DEF ImpactInit, NewStage, ImpactStart
<1>4. QED
  BY <1>3, ImpactStartHolds

LEMMA ImpactKept ==
  ASSUME ImpactInv, [ImpactNext]_impactVars
  PROVE  ImpactInv'
<1>1. CASE UNCHANGED impactVars
  <2>1. UNCHANGED <<phase, item, result, published, adapters, fixture, damaged, defence,
                    earlier, impact, validated, checks, brief, review, left>>
    BY <1>1 DEF impactVars, stageVars
  <2>2. ImpactTypes'
    BY <2>1 DEF ImpactInv, ImpactTypes, AdaptersAreFresh
  <2>3. BranchIsPlayedOnce' /\ DeliveredIsPublished' /\ CompletedIsObserved'
    BY <2>1 DEF ImpactInv, BranchIsPlayedOnce, DeliveredIsPublished, CompletedIsObserved,
                Selected
  <2>4. FixtureInv'
    BY <2>1 DEF ImpactInv, FixtureInv, ImpactAllOrNothing, RunsLeaveNothing,
         ValidationIsCurrent, PreventedStaysBlocked, Healthy, Marked, Untouched
  <2>5. QED
    BY <2>2, <2>3, <2>4 DEF ImpactInv
<1>2. CASE ImpactNext
  BY <1>2, MeanwhileKeeps, DeliverImpactKeeps, ResolveDp4Keeps, RecoverKeeps,
     RollbackKeeps, ImpactControlKeeps, ResetImpactKeeps DEF ImpactNext
<1>3. QED
  BY <1>1, <1>2

-------------------------------------------------------------------------------
(***************************************************************************)
(* The runs of MCStages: the stage in play keeps its invariant.            *)
(***************************************************************************)

StagesInv ==
  /\ stage = "identity" => ContainmentInv /\ RecordsInv
  /\ stage = "cloud"    => CloudInv
  /\ stage = "impact"   => ImpactInv

LEMMA StagesInitially == StagesInit => StagesInv
BY ContainmentInitially, RecordsInitially, CloudInitially, ImpactInitially
   DEF StagesInit, StagesInv

LEMMA StagesKept ==
  ASSUME StagesInv, [StagesNext]_stagesVars
  PROVE  StagesInv'
<1>1. stage' = stage
  BY DEF StagesNext, stagesVars
<1>2. stage = "identity" => [IdentityNext]_identityVars
  BY DEF StagesNext, stagesVars, identityVars
<1>3. stage = "cloud" => [CloudNext]_cloudVars
  BY DEF StagesNext, stagesVars, cloudVars
<1>4. stage = "impact" => [ImpactNext]_impactVars
  BY DEF StagesNext, stagesVars, impactVars
<1>5. stage = "identity" => ContainmentInv' /\ RecordsInv'
  BY <1>2, ContainmentKept, RecordsKept DEF StagesInv
<1>6. stage = "cloud" => CloudInv'
  BY <1>3, CloudKept DEF StagesInv
<1>7. stage = "impact" => ImpactInv'
  BY <1>4, ImpactKept DEF StagesInv
<1>8. QED
  BY <1>1, <1>5, <1>6, <1>7 DEF StagesInv

LEMMA StagesInvariant == StagesSpec => []StagesInv
<1>1. StagesInv /\ [StagesNext]_stagesVars => StagesInv'
  BY StagesKept
<1>2. QED
  BY <1>1, StagesInitially, PTL DEF StagesSpec

\* identity_slice.py handle() and shared/actions.py execute(): what the evidence store
\* and the adapters' records say of a step or of a response is true of the fixtures.
THEOREM RecordsOfARunAreTrue == StagesSpec => []IdentityRecordsAreTrue
<1>1. StagesInv => IdentityRecordsAreTrue
  BY RecordsAreTrue DEF StagesInv, IdentityRecordsAreTrue
<1>2. QED
  BY <1>1, StagesInvariant, PTL

\* identity_slice.py resolve_dp2(): a containment that was scored, or that evidence
\* rests on, is never taken back in a run.
THEOREM ContainmentOfARunLasts == StagesSpec => []ContainmentLasts
<1>1. StagesInv => ContainmentLasts
  BY DEF StagesInv, ContainmentInv, ContainmentLasts
<1>2. QED
  BY <1>1, StagesInvariant, PTL

\* cloud.py resolve() and _read_records(): a claim of a full theft means that every
\* record was read after a missed DP3, and a passed DP3 stays true of the fixtures.
THEOREM CloudOutcomesAreTrue == StagesSpec => []CloudOutcomeIsTrue
<1>1. StagesInv => CloudOutcomeIsTrue
  BY ClaimsHold DEF StagesInv, CloudOutcomeIsTrue
<1>2. QED
  BY <1>1, StagesInvariant, PTL

\* cloud.py submit_assessment() and evidence.preserve: the exposure that DP3 compares
\* with is in the audit and in the participants' snapshot, never more and of this run.
THEOREM CloudEvidenceIsOfTheRun == StagesSpec => []CloudEvidenceIsTrue
<1>1. StagesInv => CloudEvidenceIsTrue
  BY CloudEvidenceHolds DEF StagesInv, CloudEvidenceIsTrue
<1>2. QED
  BY <1>1, StagesInvariant, PTL

\* impact_actions.py apply_markers(), restore_fixture(), _restore_snapshot() and rollback(),
\* impact.py restore_for_reset(): wherever a file operation breaks off, half made files
\* mean that the way back broke off too, and whatever broke, no run leaves any behind.
THEOREM FixturesStayWhole == StagesSpec => []FixturesAreWhole
<1>1. StagesInv => FixturesAreWhole
  BY DEF StagesInv, ImpactInv, FixtureInv, FixturesAreWhole
<1>2. QED
  BY <1>1, StagesInvariant, PTL

\* impact.py recover(): a recorded health validation is true of the fixture now, unless
\* a later restore or roll-back and its way back both broke off.
THEOREM RecoveriesAreTrue == StagesSpec => []RecoveryIsTrue
<1>1. StagesInv => RecoveryIsTrue
  BY DEF StagesInv, ImpactInv, FixtureInv, RecoveryIsTrue
<1>2. QED
  BY <1>1, StagesInvariant, PTL

\* impact.py resolve() and END-01: a passed DP4 keeps the originals in place, and a
\* completed run has every source of its review delivered with all of its evidence.
THEOREM ImpactOutcomesAreTrue == StagesSpec => []ImpactOutcomeIsTrue
<1>1. StagesInv => ImpactOutcomeIsTrue
  BY DEF StagesInv, ImpactInv, FixtureInv, ImpactOutcomeIsTrue
<1>2. QED
  BY <1>1, StagesInvariant, PTL
===============================================================================
