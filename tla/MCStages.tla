-------------------------------- MODULE MCStages --------------------------------
(***************************************************************************)
(* The stages of a run, each explored by itself: the initial state chooses *)
(* one, and the variables of the others stay as they are.  Three of them   *)
(* share the variables of StageRun; what a stage takes from an earlier one *)
(* is a variable of its own (ImpactStage: earlier, defence).  The fourth   *)
(* is the schedule of MFA challenges, with the clock of its own module.    *)
(***************************************************************************)
EXTENDS IdentityStage, CloudStage, ImpactStage, MCScheduledMfa

LOCAL INSTANCE TLC

VARIABLE stage            \* the stage in play

stagesVars == <<stage, stageVars, estate, simulated, cloud, played, audit, assessment,
                fixture, damaged, defence, earlier, impact, validated, checks, brief, review, left, runVars>>

identityOnly == <<estate, simulated>>
cloudOnly    == <<cloud, played, audit, assessment>>
impactOnly   == <<fixture, damaged, defence, earlier, impact, validated, checks, brief,
                  review, left>>

IdentityIdle == estate = Baseline /\ simulated = {}

CloudIdle ==
  cloud = CloudBaseline /\ played = {} /\ audit = {} /\ assessment = Unassessed

ImpactIdle ==
  /\ fixture = Untouched /\ damaged = FALSE
  /\ defence = [active |-> FALSE, contained |-> FALSE]
  /\ earlier = {}
  /\ impact = [prepared |-> FALSE, applied |-> FALSE, undo |-> "none"]
  /\ validated = 0 /\ checks = 0 /\ brief = NoBrief /\ review = "none" /\ left = {}

StagesInit ==
  /\ MfaInit
  /\ \/ stage = "identity" /\ IdentityInit /\ CloudIdle /\ ImpactIdle
     \/ stage = "cloud" /\ CloudInit /\ IdentityIdle /\ ImpactIdle
     \/ stage = "impact" /\ ImpactInit /\ IdentityIdle /\ CloudIdle
     \/ stage = "mfa" /\ IdentityInit /\ CloudIdle /\ ImpactIdle

StagesNext ==
  /\ UNCHANGED stage
  /\ \/ stage = "identity" /\ IdentityNext /\ UNCHANGED <<cloudOnly, impactOnly, runVars>>
     \/ stage = "cloud" /\ CloudNext /\ UNCHANGED <<identityOnly, impactOnly, runVars>>
     \/ stage = "impact" /\ ImpactNext /\ UNCHANGED <<identityOnly, cloudOnly, runVars>>
     \/ stage = "mfa" /\ MfaNext
        /\ UNCHANGED <<stageVars, identityOnly, cloudOnly, impactOnly>>

StagesSpec == StagesInit /\ [][StagesNext]_stagesVars

FilesAlike == Permutations(Files)

-------------------------------------------------------------------------------
\* IdentityStage.EvidenceIsBacked and AnsweredEffectsHold: what the evidence store
\* and the adapters' records say of a step or of a response is true of the
\* fixtures, whichever of the writes failed (identity_slice.py handle(),
\* shared/actions.py execute()).
IdentityRecordsAreTrue ==
  stage = "identity" => EvidenceIsBacked /\ AnsweredEffectsHold

\* IdentityStage.BlockedMeansContained: a containment that DP2 scored, or that
\* evidence of a blocked sign-in rests on, is never taken back.
ContainmentLasts == stage = "identity" => BlockedMeansContained

\* CloudStage.ClaimsFollowMiss: the claim of a full theft means that every record
\* was read after a missed DP3, and a passed DP3 stays true of the fixtures.
CloudOutcomeIsTrue == stage = "cloud" => ClaimsFollowMiss

\* CloudStage.ExposureIsEvidenced and PreservedIsOfThisRun: the exposure that DP3
\* compares with is the one participants can find, live or in their snapshot.
CloudEvidenceIsTrue ==
  stage = "cloud" => ExposureIsEvidenced /\ PreservedIsOfThisRun

\* ImpactStage.ImpactAllOrNothing and RunsLeaveNothing: no fixture is left half made,
\* in this run or by an earlier one, unless the way back broke off too.
FixturesAreWhole == stage = "impact" => ImpactAllOrNothing /\ RunsLeaveNothing

\* ImpactStage.ValidationIsCurrent: a recorded health validation is true now, unless a
\* restore or a roll-back has broken off on its way back since.
RecoveryIsTrue == stage = "impact" => ValidationIsCurrent

\* ImpactStage.PreventedStaysBlocked and CompletedIsObserved: a passed DP4 keeps
\* the originals in place, and a completed run has all its sources evidenced.
ImpactOutcomeIsTrue ==
  stage = "impact" => PreventedStaysBlocked /\ CompletedIsObserved

-------------------------------------------------------------------------------
\* What the sources say and the code does not keep.  identity_slice.py:822, "Evaluate
\* DP2, record it, and execute exactly one branch": in a run whose DP2 has a result,
\* not both of its branches have been executed.
OneBranchOfDp2 ==
  stage = "identity" /\ result # "none" =>
    \E i \in {"ACT-04A", "ACT-04B"} : item[i] # "delivered"
===============================================================================
