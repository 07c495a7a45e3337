-------------------------------- MODULE SignIn ---------------------------------
(***************************************************************************)
(* The synthetic sign-in of a run (dashboard/sso.py), whose every step     *)
(* changes the workflow first and then writes the identity audit           *)
(* (dashboard/identity_audit.py), and one of the pages it is used from     *)
(* (static/sso.js).  A pending scheduled challenge makes these handlers do *)
(* nothing and is left to ScheduledMfa; "live" stands for running here.    *)
(***************************************************************************)
EXTENDS PortalRun

CONSTANTS Policies,       \* initial_failures_before_mfa and lockout_threshold
          Sources,        \* source_event_id of the capture service
          MaxChallenges,  \* bound: challenges of an exercise
          MaxClicks,      \* bound: buttons pressed on the page
          MaxTrail        \* bound: audited interactions of a run

ASSUME SignInAssumption ==
  /\ \A p \in Policies : p.failures \in Nat /\ p.lockout \in Nat \ {0}
  /\ MaxChallenges \in Nat /\ MaxClicks \in Nat /\ MaxTrail \in Nat

VARIABLES policy,         \* the scenario's configuration
          flow,           \* _SsoState: failed, locked, challenge (0 for None), signed
                          \* (signed_in); and the account's "enabled" flag
          session,        \* the session that a sign-in creates
          issued,         \* challenges so far
          trail,          \* the identity audit of the run
          captured,       \* what the capture service has recorded
          shown,          \* currentState of the page
          click,          \* the action the page waits for (busy)
          astray,         \* actions that may still arrive although the page gave up
          clicks          \* what click number k was meant for

ssoPage    == <<shown, click, astray, clicks>>
ssoState   == <<policy, flow, session, issued, trail, captured>>
signInVars == <<portalVars, ssoState, ssoPage>>

NewFlow == [failed |-> 0, locked |-> FALSE, challenge |-> 0, signed |-> FALSE, enabled |-> TRUE]

SignInInit ==
  /\ policy \in Policies
  /\ flow = NewFlow /\ session = FALSE /\ issued = 0 /\ trail = <<>> /\ captured = <<>>
  /\ shown = None /\ click = None /\ astray = {} /\ clicks = <<>>

-------------------------------------------------------------------------------
\* The workflow.

Entry(what, challenge, by) == [what |-> what, challenge |-> challenge, click |-> by]

\* append_identity_audit(): the event and its row are one transaction.
Rows(entries, at, outcome) ==
  trail' = trail \o SubSeq(entries, 1, IF Stored(outcome) THEN at ELSE at - 1)

\* The audit of a step: "at" is the entry that is not written properly, if any.
Audit(entries, at, outcome) ==
  /\ at \in DOMAIN entries /\ (outcome = "ok" => at = Len(entries))
  /\ Appending(outcome)
  /\ Rows(entries, at, outcome)
  /\ Len(trail') <= MaxTrail

\* sign_in() for an account that is disabled or locked out.
SignInBlocked(by, at, outcome) ==
  /\ ~flow.enabled \/ flow.locked
  /\ flow' = [flow EXCEPT !.locked = TRUE]
  /\ Audit(<<Entry("blocked", 0, by)>>, at, outcome)
  /\ UNCHANGED <<session, issued>>

MaySignIn == flow.enabled /\ ~flow.locked /\ ~flow.signed /\ flow.challenge = 0

SignInFails(by, at, outcome) ==
  LET locks == flow.failed + 1 >= policy.lockout
  IN /\ MaySignIn /\ flow.failed < policy.failures
     /\ flow' = [flow EXCEPT !.failed = @ + 1, !.locked = locks,
                             !.enabled = @ /\ ~locks]
     /\ Audit(<<Entry(IF locks THEN "blocked" ELSE "failure", 0, by)>>, at, outcome)
     /\ UNCHANGED <<session, issued>>

SignInChallenges(by, at, outcome) ==
  /\ MaySignIn /\ flow.failed >= policy.failures /\ issued < MaxChallenges
  /\ issued' = issued + 1
  /\ flow' = [flow EXCEPT !.challenge = issued + 1]
  /\ Audit(<<Entry("success", issued + 1, by), Entry("delivered", issued + 1, by)>>, at, outcome)
  /\ UNCHANGED session

\* Mutant: the challenge that is answered stays pending.
Answered_Bug(decision) == [flow EXCEPT !.signed = (decision = "approve")]

\* decide_mfa() takes the challenge away before anything else.
AnsweredFlow(decision) ==
  [flow EXCEPT !.challenge = 0,
               !.signed = IF decision \in {"approve", "deny"} THEN decision = "approve" ELSE @]

\* decide_mfa() of the pending challenge; a late answer is a denial, and one for an
\* account that was disabled meanwhile is none.  The session is created between the
\* two audit entries of an approval.
Decide(decision, by, at, outcome) ==
  LET challenge == flow.challenge
      verdict == IF flow.enabled THEN decision ELSE "cancelled"
  IN /\ flow' = AnsweredFlow(verdict)
     /\ IF verdict = "approve"
        THEN /\ Audit(<<Entry("approve", challenge, by), Entry("created", challenge, by)>>,
                      at, outcome)
             /\ session' = (session \/ at = 2)
        ELSE Audit(<<Entry(verdict, challenge, by)>>, at, outcome) /\ UNCHANGED session
     /\ UNCHANGED issued

ReviewSessions(by, at, outcome) ==
  /\ flow.signed
  /\ Audit(<<Entry("reviewed", 0, by)>>, at, outcome)
  /\ UNCHANGED <<flow, session, issued>>

\* An action that arrives, from this page (by: its click) or from another (0).  One
\* that is refused changes nothing.
Allowed(post) ==
  /\ post.run = run /\ play \in {"ready", "live"}
  /\ CASE post.act = "sign in" ->
            ~flow.enabled \/ flow.locked \/ (~flow.signed /\ flow.challenge = 0)
       [] post.act = "review"  -> flow.signed
       [] OTHER -> post.challenge # 0 /\ post.challenge = flow.challenge

HandleSso(post, at, outcome) ==
  IF ~Allowed(post)
  THEN at = 1 /\ outcome = "ok" /\ UNCHANGED <<portalVars, ssoState>>
  ELSE /\ \/ /\ post.act = "sign in"
             /\ \/ SignInBlocked(post.click, at, outcome)
                \/ SignInFails(post.click, at, outcome)
                \/ SignInChallenges(post.click, at, outcome)
          \/ post.act = "review" /\ ReviewSessions(post.click, at, outcome)
          \/ /\ post.act \in {"approve", "deny"}
             /\ \/ Decide(post.act, post.click, at, outcome)
                \/ Decide("expired", post.click, at, outcome)
       /\ UNCHANGED <<run, play, policy, captured>>

SsoActs == {"sign in", "approve", "deny", "review"}

\* What the handler does, whichever audit entry is refused.
Handle(post) == \E at \in {1, 2}, outcome \in Outcomes : HandleSso(post, at, outcome)

\* Another page, whose user may answer any challenge that was ever shown.
Elsewhere(act, challenge) ==
  LET post == [run |-> run, act |-> act, challenge |-> challenge, click |-> 0]
  IN /\ act \in {"sign in", "review"} => challenge = 0
     /\ Allowed(post) /\ Handle(post)
     /\ UNCHANGED ssoPage

\* A responder disables the account.
Disable ==
  /\ play = "live" /\ flow.enabled
  /\ flow' = [flow EXCEPT !.enabled = FALSE]
  /\ UNCHANGED <<portalVars, policy, session, issued, trail, captured, ssoPage>>

NewSource(source) == \A n \in DOMAIN captured : captured[n] # source

\* capture_identity_interaction(), which looks for an earlier report first.
CaptureInteraction(source, outcome) ==
  /\ NewSource(source)
  /\ Appending(outcome)
  /\ captured' = IF Stored(outcome)
                 THEN Append(captured, source) ELSE captured
  /\ UNCHANGED <<run, play, policy, flow, session, issued, trail, ssoPage>>

-------------------------------------------------------------------------------
\* The page.

ServedState == [run |-> run, active |-> play \in {"ready", "live"},
                challenge |-> flow.challenge, signed |-> flow.signed]

\* loadState() and render(): no read while an action is on its way, and what the page
\* does makes a read obsolete, so that one that is shown at all may be shown at once.
LoadState ==
  /\ click = None /\ shown' = ServedState
  /\ UNCHANGED <<portalVars, ssoState, click, astray, clicks>>

\* Another access token, or the page leaves: invalidate() keeps busy.
Invalidate ==
  /\ shown' = None
  /\ click' = IF click = None THEN None ELSE [click EXCEPT !.mine = FALSE]
  /\ UNCHANGED <<portalVars, ssoState, astray, clicks>>

\* mutate(): what is sent is what is on the screen, which is cleared.
Press(act) ==
  /\ click = None /\ shown # None /\ shown.active /\ Len(clicks) < MaxClicks
  /\ act \in {"approve", "deny"} => shown.challenge # 0
  /\ act = "review" => shown.signed
  /\ LET challenge == IF act \in {"approve", "deny"} THEN shown.challenge ELSE 0
     IN /\ clicks' = Append(clicks, [run |-> shown.run, challenge |-> challenge])
        /\ click' = [run |-> shown.run, act |-> act, challenge |-> challenge,
                     click |-> Len(clicks) + 1, mine |-> TRUE, arrived |-> FALSE]
  /\ shown' = None
  /\ UNCHANGED <<portalVars, ssoState, astray>>

ArriveClick ==
  /\ click # None /\ ~click.arrived
  /\ Handle(click)
  /\ click' = [click EXCEPT !.arrived = TRUE]
  /\ UNCHANGED <<shown, astray, clicks>>

\* The answer, or none: the page never sends the action again by itself; it shows the
\* state it was answered (LoadState stands for that too).
SettleClick ==
  /\ click # None
  /\ astray' = IF click.arrived THEN astray ELSE astray \union {click}
  /\ click' = None
  /\ UNCHANGED <<portalVars, ssoState, shown, clicks>>

ArriveAstray(post) ==
  /\ post \in astray /\ astray' = astray \ {post}
  /\ Handle(post)
  /\ UNCHANGED <<shown, click, clicks>>

\* reset() of the workflow and the deletion of the run's audit.
SignInReset ==
  /\ NextRun
  /\ flow' = NewFlow /\ session' = FALSE /\ trail' = <<>> /\ captured' = <<>>
  /\ UNCHANGED <<policy, issued, ssoPage>>

SignInNext ==
  \/ ArriveClick
  \/ \E post \in astray : ArriveAstray(post)
  \/ \E act \in SsoActs, challenge \in 0..MaxChallenges : Elsewhere(act, challenge)
  \/ \E source \in Sources, outcome \in Outcomes :
       CaptureInteraction(source, outcome)
  \/ Disable
  \/ LoadState \/ Invalidate \/ SettleClick
  \/ \E act \in SsoActs : Press(act)
  \/ (StartPlay \/ EndPlay) /\ UNCHANGED <<ssoState, ssoPage>>
  \/ SignInReset

SignInSpec == PortalInit /\ SignInInit /\ [][SignInNext]_signInVars

-------------------------------------------------------------------------------
Entries(what) == {n \in DOMAIN trail : trail[n].what \in what}

Verdicts == {"approve", "deny", "expired", "cancelled"}

\* A session is backed by an approval in the audit, whichever write failed; without a
\* failure the audit, the workflow and the session say the same.  A challenge is
\* decided once, never approved after the account was found blocked, and by the click
\* that showed it; a report of the capture service is recorded once.
SignInProven ==
  /\ session => Entries({"approve"}) # {}
  /\ mishaps = 0 =>
       /\ session = flow.signed /\ flow.signed = (Entries({"approve"}) # {})
       /\ session = (Entries({"created"}) # {})
  /\ \A n \in Entries(Verdicts) :
       /\ \A m \in Entries(Verdicts) \ {n} : trail[m].challenge # trail[n].challenge
       /\ trail[n].challenge # flow.challenge
       /\ trail[n].what = "approve" => \A m \in Entries({"blocked"}) : m > n
       /\ trail[n].click # 0 =>
            /\ clicks[trail[n].click].challenge = trail[n].challenge
            /\ clicks[trail[n].click].run = run
  /\ \A n \in DOMAIN captured : \A m \in DOMAIN captured \ {n} :
       captured[m] # captured[n]
===============================================================================
