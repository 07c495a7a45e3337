--------------------------------- MODULE MCDesk --------------------------------
(***************************************************************************)
(* The portal's workflows and pages, each explored by itself: the initial  *)
(* state chooses one, and the variables of the others stay as they are.    *)
(***************************************************************************)
EXTENDS Support, Review, SignIn, Learner, Evidence

VARIABLE desk             \* the workflow that is explored

supportOnly  == <<queueVars, pageVars>>
reviewOnly   == <<ledger, past, archives, reviewPages>>
signInOnly   == <<ssoState, ssoPage>>
learnerOnly  == <<learnerPage, executed>>
evidenceOnly == <<events, closed, viewer, evidencePage>>
deskVars     == <<desk, portalVars, supportOnly, reviewOnly, signInOnly, learnerOnly, evidenceOnly>>

DeskInit ==
  /\ desk \in {"support", "review", "sign in", "learner", "evidence"}
  /\ PortalInit /\ SupportInit /\ ReviewInit /\ SignInInit /\ LearnerInit /\ EvidenceInit
  \* one initial state of each workflow that is not explored
  /\ desk # "support" => limits = CHOOSE l \in Limits : TRUE
  /\ desk # "sign in" => policy = CHOOSE p \in Policies : TRUE
  /\ desk # "learner" => person = CHOOSE p \in People : TRUE
  /\ desk # "evidence" => viewer = CHOOSE v \in Viewers : TRUE

DeskNext ==
  /\ UNCHANGED desk
  /\ \/ /\ desk = "support" /\ SupportNext
        /\ UNCHANGED <<reviewOnly, signInOnly, learnerOnly, evidenceOnly>>
     \/ /\ desk = "review" /\ ReviewNext
        /\ UNCHANGED <<supportOnly, signInOnly, learnerOnly, evidenceOnly>>
     \/ /\ desk = "sign in" /\ SignInNext
        /\ UNCHANGED <<supportOnly, reviewOnly, learnerOnly, evidenceOnly>>
     \/ /\ desk = "learner" /\ LearnerNext
        /\ UNCHANGED <<supportOnly, reviewOnly, signInOnly, evidenceOnly>>
     \/ /\ desk = "evidence" /\ EvidenceNext
        /\ UNCHANGED <<supportOnly, reviewOnly, signInOnly, learnerOnly>>

DeskSpec == DeskInit /\ [][DeskNext]_deskVars

\* The shipped thresholds shortened (MFA at once), and a lockout at the first failure.
QuickAndStrict == {[failures |-> 0, lockout |-> 3], [failures |-> 1, lockout |-> 1]}

\* An event of the first account only, and one of everybody.
OwnAndShared == {{"a"}, {"a", "b"}}

\* Each limit reached by itself, and a second question before either is.
EachLimit == {[queue |-> 2, actor |-> 1], [queue |-> 1, actor |-> 2], [queue |-> 2, actor |-> 2]}

\* The evaluators' pages are treated alike, and so are the accounts that ask for help.
PagesAlike == Permutations(Evaluators) \union Permutations(Learners)

-------------------------------------------------------------------------------
\* The invariants of Support, SignIn and Learner are checked as they are: what is not
\* explored stays as it starts, and they hold of that.  Review and Evidence speak of the
\* run and its ledger too, which every workflow moves on, and need a guard.

\* Review.JudgmentsInformed: a judgment supersedes the one its author had seen
\* (dashboard/service.py judge_objective, static/evaluator-review.js).
JudgmentsAreInformed == desk = "review" => JudgmentsInformed

\* Review.ArchivesExact: no run is left without an exact archive of its judgments
\* (dashboard/service.py _capture_review, _reset_run).
ArchivesAreExact == desk = "review" => ArchivesExact

\* Evidence.EvidenceWhole: the evidence on the page has no hole
\* (static/evidence.js refresh, dashboard/service.py participant_evidence).
EvidenceHasNoHoles == desk = "evidence" => EvidenceWhole
===============================================================================
