-------------------------------- MODULE Learner --------------------------------
(***************************************************************************)
(* The participant's page (static/participant-session.js, participant.js): *)
(* which reads it applies and when it may act, while its account changes,  *)
(* the run is reset, answers are lost and actions arrive late.  The portal *)
(* compares the run that was inspected (dashboard/app.py scoped_control).  *)
(***************************************************************************)
EXTENDS PortalRun

CONSTANTS People,         \* accounts the page is used with
          MaxWrites       \* bound: actions taken on the page

\* What refresh() and read() show, and an action on its way.
Reading == [person : People, run : Nat \ {0}, after : Nat]
Writing == [number : Nat \ {0}, person : People, run : Nat \ {0}, mine : BOOLEAN,
            arrived : BOOLEAN]

ASSUME LearnerAssumption == People # {} /\ MaxWrites \in Nat /\ None \notin Writing

VARIABLES person,         \* credential
          context,        \* runId, 0 for null
          state,          \* the state on the page, which gives authority to write
          stateRead,      \* the state on its way
          panel,          \* an evidence panel of the page
          panelRead,      \* what is on its way to it
          pending,        \* pendingWrite
          stray,          \* actions that may arrive after the page gave up on them
          writes,         \* action number n: its run, account and what was seen
          settled,        \* how many actions have settled
          executed        \* the actions that the portal has taken, in order

learnerPage == <<person, context, state, stateRead, panel, panelRead, pending, stray,
                 writes, settled>>
learnerVars == <<portalVars, learnerPage, executed>>

LearnerInit ==
  /\ person \in People /\ context = 0
  /\ state = None /\ stateRead = None /\ panel = None /\ panelRead = None
  /\ pending = None /\ stray = {} /\ writes = <<>> /\ settled = 0
  /\ executed = <<>>

-------------------------------------------------------------------------------
\* What refresh() and read() are given: whose it is and when it was served.
ServedNow == [person |-> person, run |-> run, after |-> settled]

Unowned(write) == IF write = None THEN None ELSE [write EXCEPT !.mine = FALSE]

\* invalidate(): everything of this account and run goes, but for the pending write.
Invalidated ==
  /\ state' = None /\ stateRead' = None /\ panel' = None /\ panelRead' = None
  /\ pending' = Unowned(pending)

\* Another token or Connect again, and a read that is not authorized.
ChangeAccount(p) ==
  /\ person' = p /\ context' = 0
  /\ Invalidated
  /\ UNCHANGED <<portalVars, stray, writes, settled, executed>>

\* Reads that a later step makes obsolete (serial, epoch, activity, reads) are dropped
\* on arrival, and here at once; a later read of the same path replaces an earlier.
ReadState ==
  /\ stateRead' = ServedNow
  /\ UNCHANGED <<portalVars, person, context, state, panel, panelRead, pending, stray,
                 writes, settled, executed>>

ShowState ==
  /\ stateRead # None
  /\ context' = stateRead.run /\ state' = stateRead /\ stateRead' = None
  /\ IF context \notin {0, stateRead.run}
     THEN panel' = None /\ panelRead' = None /\ pending' = Unowned(pending)
     ELSE UNCHANGED <<panel, panelRead, pending>>
  /\ UNCHANGED <<portalVars, person, stray, writes, settled, executed>>

\* A state that cannot be read leaves the drafts and takes the authority.
StateFails ==
  /\ state # None /\ state' = None /\ stateRead' = None
  /\ UNCHANGED <<portalVars, person, context, panel, panelRead, pending, stray, writes,
                 settled, executed>>

ReadPanel ==
  /\ state # None
  /\ panelRead' = ServedNow
  /\ UNCHANGED <<portalVars, person, context, state, stateRead, panel, pending, stray,
                 writes, settled, executed>>

\* A panel of another run invalidates the page.
ShowPanel ==
  /\ panelRead # None
  /\ IF panelRead.run = context
     THEN /\ panel' = panelRead /\ panelRead' = None
          /\ UNCHANGED <<context, state, stateRead, pending>>
     ELSE context' = 0 /\ Invalidated
  /\ UNCHANGED <<portalVars, person, stray, writes, settled, executed>>

\* Mutant: the state that was read before an action still gives authority after it.
AuthorityAfter_Bug == UNCHANGED <<state, stateRead, panelRead>>

\* Both ends of a write take the authority and the reads on their way.
AuthorityAfter == state' = None /\ stateRead' = None /\ panelRead' = None

\* canWrite()
MayWrite == state # None /\ pending = None

Act ==
  /\ MayWrite /\ Len(writes) < MaxWrites
  /\ writes' = Append(writes, [person |-> person, run |-> context, seen |-> state])
  /\ pending' = [number |-> Len(writes) + 1, person |-> person, run |-> context,
                 mine |-> TRUE, arrived |-> FALSE]
  /\ stray' = IF pending = None THEN stray ELSE stray \union {pending}
  /\ AuthorityAfter
  /\ UNCHANGED <<portalVars, person, context, panel, settled, executed>>

\* scoped_control(); the operation may refuse for reasons of its own.
TakenUp(write) == write.run = run /\ play \in {"ready", "live"}

Execution(write) ==
  executed' = IF TakenUp(write)
              THEN Append(executed, [number |-> write.number, person |-> write.person, run |-> run])
              ELSE executed

ArriveWrite ==
  /\ pending # None /\ ~pending.arrived
  /\ Execution(pending)
  /\ pending' = [pending EXCEPT !.arrived = TRUE]
  /\ UNCHANGED <<portalVars, person, context, state, stateRead, panel, panelRead, stray,
                 writes, settled>>

\* The answer of the write, whatever it is, or none: it is never repeated.  The answer
\* of another run invalidates the page.
SettleWrite ==
  /\ pending # None
  /\ stray' = IF pending.arrived THEN stray ELSE stray \union {pending}
  /\ settled' = settled + 1
  /\ pending' = None
  /\ AuthorityAfter
  /\ UNCHANGED <<portalVars, person, context, panel, writes, executed>>

ArriveStray(write) ==
  /\ write \in stray /\ stray' = stray \ {write}
  /\ Execution(write)
  /\ UNCHANGED <<portalVars, person, context, state, stateRead, panel, panelRead, pending,
                 writes, settled>>

LearnerNext ==
  \/ \E p \in People : ChangeAccount(p)
  \/ ReadState \/ ShowState \/ StateFails \/ ReadPanel \/ ShowPanel
  \/ Act \/ ArriveWrite \/ SettleWrite
  \/ \E write \in stray : ArriveStray(write)
  \/ (StartPlay \/ EndPlay \/ NextRun) /\ UNCHANGED <<learnerPage, executed>>

LearnerSpec == PortalInit /\ LearnerInit /\ [][LearnerNext]_learnerVars

-------------------------------------------------------------------------------
\* An action is taken once, in the run and under the account that its author had on
\* the screen, and its author had seen a state that was served after the page's
\* previous action settled; a panel on the screen is the account's and the run's own.
WritesInformed ==
  /\ \A n \in DOMAIN executed :
       /\ executed[n].run = writes[executed[n].number].run
       /\ executed[n].person = writes[executed[n].number].person
       /\ \A m \in DOMAIN executed \ {n} : executed[m].number # executed[n].number
  /\ \A n \in DOMAIN writes :
       writes[n].seen = [person |-> writes[n].person, run |-> writes[n].run, after |-> n - 1]
  /\ panel # None => panel.person = person /\ panel.run = context
===============================================================================
