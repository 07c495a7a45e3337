----------------------------- MODULE IdentityStage -----------------------------
(***************************************************************************)
(* The identity and endpoint stage of a run: the reviewed attacker steps   *)
(* of IdentitySliceAutomation, the participants' containment actions on    *)
(* the synthetic identity and endpoint fixtures, and checkpoint DP2 with   *)
(* its two branches (orchestrator/identity_slice.py, checkpoints.py and    *)
(* the action modules 04 and 05), on top of StageRun.                      *)
(***************************************************************************)
EXTENDS StageRun

CONSTANTS IdentityItems,  \* the automated items of the stage in play
          Responses,      \* the containment actions that participants submit
          Repeated,       \* those that are also sent under a shared key
          SharedKeys,     \* idempotency keys that clients use more than once
          MaxVersion      \* bound: rotations of the credential

VARIABLES estate,         \* SyntheticIdentityState and EndpointAdState
          simulated       \* the items whose transition state.apply() made

identityVars == <<stageVars, estate, simulated>>

IdentitySetup == {"PRE-01", "PRE-02"}
Branches      == {"ACT-04A", "ACT-04B"}
AttackSteps   == {"ACT-01", "ACT-02", "ACT-03"}

Before == [i \in {"PRE-02"} \union AttackSteps |->
             CASE i = "PRE-02" -> "PRE-01" [] i = "ACT-01" -> "PRE-02"
               [] i = "ACT-02" -> "ACT-01" [] i = "ACT-03" -> "ACT-02"]

IdentityResponses == {"session.revoke", "factor.remove", "account.disable",
                      "credential.reset"}
EndpointResponses == {"host.isolate", "artifact.preserve", "persistence.disable",
                      "persistence.remove"}

ASSUME IdentityAssumption ==
  /\ IdentitySetup \union Branches \subseteq IdentityItems
  /\ IdentityItems \subseteq IdentitySetup \union AttackSteps \union Branches
  /\ \A i \in IdentityItems \cap DOMAIN Before : Before[i] \in IdentityItems
  /\ Responses \subseteq IdentityResponses \union EndpointResponses
  /\ Repeated \subseteq Responses
  /\ OwnKey \notin SharedKeys
  /\ MaxVersion \in Nat

Baseline ==
  [session |-> TRUE, factor |-> TRUE, enabled |-> TRUE, version |-> 1,
   isolated |-> FALSE, preserved |-> FALSE, account |-> "absent"]

Devices == {"identity", "endpoint", "automation"}

IdentityInit ==
  /\ phase = "ready"
  /\ NewStage(IdentityItems, Devices)
  /\ estate = Baseline
  /\ simulated = {}

-------------------------------------------------------------------------------
\* The participants' actions.

AdapterOf(r) == IF r \in IdentityResponses THEN "identity" ELSE "endpoint"

ResponderOf(r) ==
  IF r \in IdentityResponses THEN "identity_responder" ELSE "endpoint_responder"

ResponseDefinition(r) ==
  [roles |-> {ResponderOf(r), "facilitator"}, target |-> r, states |-> {"running"}]

\* A directory account that is absent cannot be disabled; removing it is a no-op.
ResponseWorks(r) == r = "persistence.disable" => estate.account # "absent"

ContainIdentity(r) ==
  CASE r = "session.revoke"      -> [estate EXCEPT !.session = FALSE]
    [] r = "factor.remove"       -> [estate EXCEPT !.factor = FALSE]
    [] r = "account.disable"     -> [estate EXCEPT !.enabled = FALSE]
    [] r = "credential.reset"    -> [estate EXCEPT !.version = @ + 1]

ContainEndpoint(r) ==
  CASE r = "host.isolate"        -> [estate EXCEPT !.isolated = TRUE]
    [] r = "artifact.preserve"   -> [estate EXCEPT !.preserved = TRUE]
    [] r = "persistence.disable" -> [estate EXCEPT !.account = "disabled"]
    [] r = "persistence.remove"  -> [estate EXCEPT !.account = "absent"]

ContainBy(r) ==
  IF r \in IdentityResponses THEN ContainIdentity(r) ELSE ContainEndpoint(r)

\* IdentitySliceRun.submit_action().  A refused event changes the answer alone, or
\* nothing at all, and a deadline only what a retry of a shared key is answered.
Respond(r, role, key, dry) ==
  \E late \in IF key = OwnKey THEN {"never"} ELSE Lateness :
    LET a == AdapterOf(r)
        outcome == Submission(a, ResponseDefinition(r), r, role, key, dry,
                              ResponseWorks(r), late, "none")
    IN /\ Fault(late, "none", FALSE)
       /\ r = "credential.reset" => estate.version < MaxVersion
       /\ estate' = IF outcome.applied THEN ContainBy(r) ELSE estate
       /\ Submitted(a, key, outcome)
       /\ UNCHANGED <<phase, item, result, published, simulated>>

-------------------------------------------------------------------------------
\* The reviewed attacker steps.

\* evaluate_identity_endpoint_containment(): the five checks of DP2.
PathsContained ==
  ~estate.session /\ ~estate.factor /\ estate.version > 1 /\ estate.isolated
    /\ estate.preserved

StepStates(i) ==
  CASE i \in IdentitySetup -> {"ready"}
    [] i \in Branches      -> {"running", "paused"}
    [] OTHER               -> {"running"}

\* Mutant: the passing branch trusts the recorded result.
StepWorks_Bug(i) == i \in DOMAIN Before => Before[i] \in simulated

\* state.apply(): each step needs the one before it; the passing branch checks
\* the containment once more and the adverse branch needs nothing.
StepWorks(i) ==
  /\ i \in DOMAIN Before => Before[i] \in simulated
  /\ i = "ACT-04A" => PathsContained

StepDelivery(i, late, lost, unpublished) ==
  Delivery("automation", i, StepStates(i), StepWorks(i), late, lost, unpublished)

StepDelivered(i, d) ==
  /\ simulated' = IF d.applied THEN simulated \union {i} ELSE simulated
  /\ estate' = IF d.applied /\ i = "ACT-04B"
               THEN [estate EXCEPT !.account = "enabled"] ELSE estate
  /\ published' = [published EXCEPT ![i] = d.published]
  /\ UNCHANGED adapters

\* controller.deliver(), and the items that prepare() and advance_to() make due.
DeliverStep(i) ==
  /\ Open(i)
  /\ \E late \in Lateness, lost \in Losses, unpublished \in BOOLEAN :
       LET d == StepDelivery(i, late, lost, unpublished)
       IN /\ Fault(late, lost, unpublished)
          /\ item' = [item EXCEPT ![i] = d.status]
          /\ StepDelivered(i, d)
  /\ UNCHANGED <<phase, result>>

\* resolve_dp2(): the result is recorded, then the branches are visited.
ResolveDp2 ==
  /\ phase \in {"running", "paused"}
  /\ result = "none"
  /\ result' = IF PathsContained THEN "pass" ELSE "miss"
  /\ \E visited \in 0..2, late \in Lateness, lost \in Losses,
        unpublished \in BOOLEAN :
       LET visit == BranchVisit("ACT-04A", "ACT-04B", PathsContained, visited)
           d == StepDelivery(visit.match, late, lost, unpublished)
       IN /\ Fault(late, lost, unpublished \/ visited < 2)
          /\ item' = Visited(visit, d.status)
          /\ IF visit.runs THEN StepDelivered(visit.match, d)
             ELSE UNCHANGED <<simulated, estate, published, adapters>>
  /\ UNCHANGED phase

-------------------------------------------------------------------------------
ResetIdentity == Rebuild /\ estate' = Baseline /\ simulated' = {}

\* What StageRun decides alone.
IdentityControl ==
  /\ \/ \E i \in IdentityItems : SkipItem(i)
     \/ Begin(IdentitySetup) \/ Pause \/ Resume \/ StopPlay
  /\ UNCHANGED <<estate, simulated>>

Responders == {ResponderOf(r) : r \in Responses}

IdentityNext ==
  \/ \E r \in Responses, role \in Responders : Respond(r, role, OwnKey, FALSE)
  \/ \E r \in Repeated, role \in Responders, key \in SharedKeys, dry \in BOOLEAN :
       Respond(r, role, key, dry)
  \/ \E i \in IdentityItems : DeliverStep(i)
  \/ ResolveDp2
  \/ IdentityControl
  \/ ResetIdentity

IdentitySpec == IdentityInit /\ [][IdentityNext]_identityVars

-------------------------------------------------------------------------------
\* What the evidence store says of an attacker step has happened in the
\* simulation, each step after the one it builds on, and a delivered item left
\* all of its evidence - although the effect, the adapter's record, the
\* evidence and the delivery are written one after the other and any of the
\* writes may fail.
EvidenceIsBacked ==
  \A i \in IdentityItems :
    /\ published[i] # "none" => i \in simulated
    /\ i \in simulated \cap DOMAIN Before => Before[i] \in simulated
    /\ item[i] = "delivered" => published[i] = "all"

\* Evidence of a blocked sign-in after containment, and a passed DP2, are only
\* ever found while the fixtures are contained: no call of a participant and no
\* delivery out of order takes a containment back that was scored.
BlockedMeansContained ==
  result = "pass" \/ "ACT-04A" \in simulated => PathsContained

\* A key whose result is "executed", which a retry is answered with, stands for
\* an effect that is still there; only the adverse branch may create a removed
\* account again.  After a reset no key of the earlier run is answered.
AnsweredEffectsHold ==
  \A a \in {"identity", "endpoint"} : \A key \in Executed(adapters[a]) :
    LET r == adapters[a].results[key].print[1] IN
      \/ ContainBy(r) = estate
      \/ r = "credential.reset" /\ estate.version > 1
      \/ r \in {"persistence.disable", "persistence.remove"}
===============================================================================
