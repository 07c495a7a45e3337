------------------------------ MODULE DeskProofs ------------------------------
(***************************************************************************)
(* Proofs about three workflows of the portal and the pages they are used  *)
(* from: the learner's actions (Learner), the support queue (Support) and  *)
(* the synthetic sign-in (SignIn), for any accounts, runs, keys and bounds.*)
(***************************************************************************)
EXTENDS Learner, Support, SignIn, FiniteSetTheorems, SequenceTheorems, TLAPS

-------------------------------------------------------------------------------
(***************************************************************************)
(* The learner's page.                                                     *)
(***************************************************************************)


TypeInv ==
  /\ run \in Nat \ {0} /\ context \in Nat /\ settled \in Nat /\ person \in People
  /\ state \in Reading \union {None} /\ stateRead \in Reading \union {None}
  /\ panel \in Reading \union {None} /\ panelRead \in Reading \union {None}
  /\ pending \in Writing \union {None} /\ stray \subseteq Writing
  /\ writes \in Seq([person : People, run : Nat \ {0}, seen : Reading])
  /\ executed \in Seq([number : Nat \ {0}, person : People, run : Nat \ {0}])

\* What the page shows and waits for is its account's; a state on the page is of its
\* run and was served after the last action settled.
ReadsOwned ==
  /\ state # None =>
       state = [person |-> person, run |-> context, after |-> settled]
  /\ stateRead # None => stateRead.person = person /\ stateRead.after = settled
  /\ panel # None => panel.person = person /\ panel.run = context
  /\ panelRead # None => panelRead.person = person

\* An action carries the run and the account that it was taken with.
Authentic(write) ==
  /\ write.number \in DOMAIN writes
  /\ write.run = writes[write.number].run
  /\ write.person = writes[write.number].person

Fresh(write) == \A n \in DOMAIN executed : executed[n].number # write.number

\* Each action is on the page, astray, or done with; it settles before the next one.
WritesTracked ==
  /\ Len(writes) = settled + (IF pending = None THEN 0 ELSE 1)
  /\ pending # None =>
       /\ pending.number = Len(writes) /\ Authentic(pending)
       /\ ~pending.arrived => Fresh(pending)
       /\ \A write \in stray : write.number # pending.number
  /\ \A write \in stray : Authentic(write) /\ Fresh(write)
  /\ \A v, w \in stray : v.number = w.number => v = w

\* What the portal took is authentic, and nothing was taken twice.
TakenOnce ==
  \A n \in DOMAIN executed :
    /\ Authentic(executed[n])
    /\ \A m \in DOMAIN executed \ {n} : executed[m].number # executed[n].number

SeenBefore ==
  \A n \in DOMAIN writes :
    writes[n].seen = [person |-> writes[n].person, run |-> writes[n].run, after |-> n - 1]

PageInv == TypeInv /\ ReadsOwned /\ WritesTracked /\ TakenOnce /\ SeenBefore

-------------------------------------------------------------------------------
\* What the page may do without an action being taken, sent or settled.
Browse ==
  /\ UNCHANGED <<stray, writes, settled, executed>>
  /\ pending' \in {pending, Unowned(pending)}

\* Giving up the ownership of a pending action changes nothing else of it.
LEMMA UnownedKeeps ==
  ASSUME TypeInv
  PROVE  /\ Unowned(pending) \in Writing \union {None}
         /\ Unowned(pending) = None <=> pending = None
         /\ pending # None =>
              /\ Unowned(pending).number = pending.number
              /\ Unowned(pending).run = pending.run
              /\ Unowned(pending).person = pending.person
              /\ Unowned(pending).arrived = pending.arrived
<1>1. CASE pending = None
  BY <1>1 DEF Unowned
<1>2. CASE pending # None
  <2>1. pending \in Writing
    BY <1>2 DEF TypeInv
  <2>2. [pending EXCEPT !.mine = FALSE] \in Writing
    BY <2>1 DEF Writing
  <2>3. [pending EXCEPT !.mine = FALSE] # None
    BY <2>2, LearnerAssumption
  <2>4. QED
    BY <1>2, <2>1, <2>2, <2>3 DEF Unowned, Writing
<1>3. QED
  BY <1>1, <1>2

\* Browsing leaves what is known of the actions alone.
LEMMA BrowseKeeps ==
  ASSUME PageInv, Browse
  PROVE  WritesTracked' /\ TakenOnce' /\ SeenBefore' /\ pending' \in Writing \union {None}
<1> USE DEF PageInv
<1>1. /\ pending' = None <=> pending = None
      /\ pending' \in Writing \union {None}
      /\ pending # None =>
           /\ pending'.number = pending.number /\ pending'.run = pending.run
           /\ pending'.person = pending.person /\ pending'.arrived = pending.arrived
  BY UnownedKeeps DEF Browse, TypeInv
<1>2. WritesTracked'
  BY <1>1 DEF WritesTracked, Authentic, Fresh, Browse
<1>3. TakenOnce' /\ SeenBefore'
  BY DEF TakenOnce, SeenBefore, Authentic, Browse
<1>4. QED
  BY <1>1, <1>2, <1>3

\* Reading, showing, losing and changing the account.
LEMMA PageSteps ==
  ASSUME PageInv,
         \/ \E p \in People : ChangeAccount(p)
         \/ ReadState \/ ShowState \/ StateFails \/ ReadPanel \/ ShowPanel
  PROVE  PageInv'
<1>1. Browse
  BY DEF ChangeAccount, ReadState, ShowState, StateFails, ReadPanel, ShowPanel,
         Invalidated, Browse
<1>2. WritesTracked' /\ TakenOnce' /\ SeenBefore' /\ pending' \in Writing \union {None}
  BY <1>1, BrowseKeeps
<1>3. ServedNow \in Reading
  BY DEF PageInv, TypeInv, ServedNow, Reading
<1>4. UNCHANGED <<run, stray, writes, settled, executed>>
  BY DEF ChangeAccount, ReadState, ShowState, StateFails, ReadPanel, ShowPanel,
         portalVars
<1>5. ASSUME NEW p \in People, ChangeAccount(p) PROVE TypeInv' /\ ReadsOwned'
  BY <1>2, <1>4, <1>5 DEF PageInv, TypeInv, ReadsOwned, ChangeAccount, Invalidated
<1>6. CASE ReadState
  BY <1>2, <1>3, <1>4, <1>6 DEF PageInv, TypeInv, ReadsOwned, ReadState, ServedNow
<1>7. CASE ShowState
  <2>1. stateRead \in Reading /\ stateRead.person = person /\ stateRead.after = settled
    BY <1>7 DEF PageInv, TypeInv, ReadsOwned, ShowState
  <2>2. stateRead = [person |-> person, run |-> stateRead.run, after |-> settled]
    BY <2>1 DEF Reading
  <2>3. TypeInv'
    BY <1>2, <1>4, <1>7, <2>1 DEF PageInv, TypeInv, ShowState, Reading
  <2>4. panel # None => panel.run # 0
    BY DEF PageInv, TypeInv, Reading
  <2>5. ReadsOwned'
    BY <1>4, <1>7, <2>1, <2>2, <2>4 DEF PageInv, ReadsOwned, ShowState
  <2>6. QED
    BY <1>2, <2>3, <2>5 DEF PageInv
<1>8. CASE StateFails
  BY <1>2, <1>4, <1>8 DEF PageInv, TypeInv, ReadsOwned, StateFails
<1>9. CASE ReadPanel
  BY <1>2, <1>3, <1>4, <1>9 DEF PageInv, TypeInv, ReadsOwned, ReadPanel, ServedNow
<1>10. CASE ShowPanel
  BY <1>2, <1>4, <1>10 DEF PageInv, TypeInv, ReadsOwned, ShowPanel, Invalidated
<1>11. QED
  BY <1>2, <1>5, <1>6, <1>7, <1>8, <1>9, <1>10 DEF PageInv

\* An action is taken on a state that was served after the previous one settled.
LEMMA ActStep ==
  ASSUME PageInv, Act
  PROVE  PageInv'
<1> DEFINE new  == [person |-> person, run |-> context, seen |-> state]
           taken == [number |-> Len(writes) + 1, person |-> person, run |-> context,
                    mine |-> TRUE, arrived |-> FALSE]
<1>1. /\ pending = None /\ state # None /\ stray' = stray /\ pending' = taken
      /\ writes' = Append(writes, new)
      /\ state' = None /\ stateRead' = None /\ panelRead' = None
      /\ UNCHANGED <<run, person, context, panel, settled, executed>>
  BY DEF Act, MayWrite, AuthorityAfter, portalVars
<1>2. /\ state \in Reading
      /\ state = [person |-> person, run |-> context, after |-> settled]
  BY <1>1 DEF PageInv, TypeInv, ReadsOwned
<1>3. context \in Nat \ {0}
  BY <1>2 DEF Reading
<1>4. Len(writes) = settled /\ Len(writes) \in Nat
  BY <1>1 DEF PageInv, WritesTracked, TypeInv
<1>5. new \in [person : People, run : Nat \ {0}, seen : Reading]
  BY <1>2, <1>3 DEF PageInv, TypeInv
<1>6. /\ Len(writes') = Len(writes) + 1 /\ DOMAIN writes = 1..Len(writes)
      /\ DOMAIN writes' = 1..(Len(writes) + 1)
      /\ \A n \in DOMAIN writes : writes'[n] = writes[n]
      /\ writes'[Len(writes) + 1] = new
      /\ writes' \in Seq([person : People, run : Nat \ {0}, seen : Reading])
  BY <1>1, <1>5 DEF PageInv, TypeInv
<1>7. taken \in Writing
  BY <1>3, <1>4 DEF PageInv, TypeInv, Writing
<1>8. taken # None
  BY <1>7, LearnerAssumption
<1>9. TypeInv'
  BY <1>1, <1>6, <1>7 DEF PageInv, TypeInv
<1>10. ReadsOwned'
  BY <1>1 DEF PageInv, ReadsOwned
<1>11. SeenBefore'
  BY <1>2, <1>4, <1>6 DEF PageInv, SeenBefore
<1>12. TakenOnce'
  BY <1>1, <1>6 DEF PageInv, TakenOnce, Authentic
<1>13. \A write \in stray :
         (Authentic(write) /\ Fresh(write))' /\ write.number # taken.number
  BY <1>1, <1>4, <1>6 DEF PageInv, WritesTracked, Authentic, Fresh
<1>14. Authentic(pending)'
  BY <1>1, <1>4, <1>6 DEF Authentic
<1>15. Fresh(pending)'
  BY <1>1, <1>4, <1>6 DEF PageInv, TakenOnce, Authentic, Fresh
<1>16. WritesTracked'
  <2>1. pending' # None /\ pending'.number = Len(writes')
    BY <1>1, <1>6, <1>8
  <2>2. Len(writes') = settled' + 1
    BY <1>1, <1>4, <1>6
  <2>3. \A write \in stray' :
          (Authentic(write) /\ Fresh(write))' /\ write.number # pending'.number
    BY <1>1, <1>13
  <2>4. \A v, w \in stray' : v.number = w.number => v = w
    BY <1>1 DEF PageInv, WritesTracked
  <2>5. QED
    BY <1>14, <1>15, <2>1, <2>2, <2>3, <2>4 DEF WritesTracked
<1>17. QED
  BY <1>9, <1>10, <1>11, <1>12, <1>16 DEF PageInv

\* The portal takes an action in the run it was meant for.
LEMMA ExecutionKeeps ==
  ASSUME PageInv, NEW write \in Writing, Authentic(write), Fresh(write),
         Execution(write), UNCHANGED writes
  PROVE  /\ TakenOnce'
         /\ executed' \in Seq([number : Nat \ {0}, person : People, run : Nat \ {0}])
         /\ \A v \in Writing : v.number # write.number /\ Fresh(v) => Fresh(v)'
<1> DEFINE taken == [number |-> write.number, person |-> write.person, run |-> run]
<1>1. CASE ~TakenUp(write)
  BY <1>1 DEF Execution, PageInv, TypeInv, TakenOnce, Authentic, Fresh
<1>2. CASE TakenUp(write)
  <2>1. executed' = Append(executed, taken) /\ run = write.run
    BY <1>2 DEF Execution, TakenUp
  <2>2. taken \in [number : Nat \ {0}, person : People, run : Nat \ {0}]
    BY DEF PageInv, TypeInv, Writing
  <2>3. /\ executed' \in Seq([number : Nat \ {0}, person : People, run : Nat \ {0}])
        /\ DOMAIN executed = 1..Len(executed) /\ Len(executed) \in Nat
        /\ DOMAIN executed' = 1..(Len(executed) + 1)
        /\ \A n \in DOMAIN executed : executed'[n] = executed[n]
        /\ executed'[Len(executed) + 1] = taken
    BY <2>1, <2>2 DEF PageInv, TypeInv
  <2>4. Authentic(taken)
    BY <2>1 DEF Authentic
  <2>5. ASSUME NEW n \in DOMAIN executed'
        PROVE  Authentic(executed'[n])
    BY <2>3, <2>4 DEF PageInv, TakenOnce
  <2>6. ASSUME NEW n \in DOMAIN executed', NEW m \in DOMAIN executed' \ {n}
        PROVE  executed'[m].number # executed'[n].number
    <3>1. CASE n \in DOMAIN executed /\ m \in DOMAIN executed
      BY <2>3, <2>6, <3>1 DEF PageInv, TakenOnce
    <3>2. CASE n = Len(executed) + 1
      BY <2>3, <2>6, <3>2 DEF Fresh
    <3>3. CASE m = Len(executed) + 1
      BY <2>3, <2>6, <3>3 DEF Fresh
    <3>4. QED
      BY <2>3, <2>6, <3>1, <3>2, <3>3
  <2>7. TakenOnce'
    BY <2>5, <2>6 DEF TakenOnce, Authentic
  <2>8. \A v \in Writing : v.number # write.number /\ Fresh(v) => Fresh(v)'
    BY <2>3 DEF Fresh
  <2>9. QED
    BY <2>3, <2>7, <2>8
<1>3. QED
  BY <1>1, <1>2

\* The pending action arrives.
LEMMA ArriveStep ==
  ASSUME PageInv, ArriveWrite
  PROVE  PageInv'
<1>1. /\ pending # None /\ pending \in Writing /\ ~pending.arrived /\ Execution(pending)
      /\ pending' = [pending EXCEPT !.arrived = TRUE]
      /\ UNCHANGED <<run, person, context, state, stateRead, panel, panelRead, stray,
                     writes, settled>>
  BY DEF PageInv, TypeInv, ArriveWrite, portalVars
<1>2. Authentic(pending) /\ Fresh(pending)
  BY <1>1 DEF PageInv, WritesTracked
<1>3. /\ TakenOnce'
      /\ executed' \in Seq([number : Nat \ {0}, person : People, run : Nat \ {0}])
      /\ \A v \in Writing : v.number # pending.number /\ Fresh(v) => Fresh(v)'
  BY <1>1, <1>2, ExecutionKeeps
<1>4. /\ pending' \in Writing /\ pending'.arrived
      /\ pending'.number = pending.number /\ pending'.run = pending.run
      /\ pending'.person = pending.person
  BY <1>1 DEF Writing
<1>5. pending' # None
  BY <1>4, LearnerAssumption
<1>6. TypeInv'
  BY <1>1, <1>3, <1>4 DEF PageInv, TypeInv
<1>7. ReadsOwned' /\ SeenBefore'
  BY <1>1 DEF PageInv, ReadsOwned, SeenBefore
<1>8. \A write \in stray : (Authentic(write) /\ Fresh(write))'
  BY <1>1, <1>3 DEF PageInv, TypeInv, WritesTracked, Authentic
<1>9. WritesTracked'
  BY <1>1, <1>4, <1>5, <1>8 DEF PageInv, WritesTracked, Authentic
<1>10. QED
  BY <1>3, <1>6, <1>7, <1>9 DEF PageInv

\* The pending action settles, and may arrive later if it has not.
LEMMA SettleStep ==
  ASSUME PageInv, SettleWrite
  PROVE  PageInv'
<1>1. /\ pending # None /\ pending \in Writing /\ pending' = None
      /\ stray' = IF pending.arrived THEN stray ELSE stray \union {pending}
      /\ settled' = settled + 1
      /\ state' = None /\ stateRead' = None /\ panelRead' = None
      /\ UNCHANGED <<run, person, context, panel, writes, executed>>
  BY DEF PageInv, TypeInv, SettleWrite, AuthorityAfter, portalVars
<1>2. TypeInv' /\ ReadsOwned'
  BY <1>1 DEF PageInv, TypeInv, ReadsOwned
<1>3. SeenBefore' /\ TakenOnce'
  BY <1>1 DEF PageInv, SeenBefore, TakenOnce, Authentic
<1>4. \A write \in stray' : (Authentic(write) /\ Fresh(write))'
  BY <1>1 DEF PageInv, WritesTracked, Authentic, Fresh
<1>5. \A v, w \in stray' : v.number = w.number => v = w
  BY <1>1 DEF PageInv, WritesTracked
<1>6. Len(writes') = settled'
  BY <1>1 DEF PageInv, WritesTracked
<1>7. WritesTracked'
  BY <1>1, <1>4, <1>5, <1>6 DEF PageInv, TypeInv, WritesTracked
<1>8. QED
  BY <1>2, <1>3, <1>7 DEF PageInv

\* An action that the page gave up arrives.
LEMMA StrayStep ==
  ASSUME PageInv, NEW write \in stray, ArriveStray(write)
  PROVE  PageInv'
<1>1. /\ write \in Writing /\ stray' = stray \ {write} /\ Execution(write)
      /\ UNCHANGED <<run, person, context, state, stateRead, panel, panelRead, pending,
                     writes, settled>>
  BY DEF PageInv, TypeInv, ArriveStray, portalVars
<1>2. Authentic(write) /\ Fresh(write)
  BY DEF PageInv, WritesTracked
<1>3. /\ TakenOnce'
      /\ executed' \in Seq([number : Nat \ {0}, person : People, run : Nat \ {0}])
      /\ \A v \in Writing : v.number # write.number /\ Fresh(v) => Fresh(v)'
  BY <1>1, <1>2, ExecutionKeeps
<1>4. TypeInv'
  BY <1>1, <1>3 DEF PageInv, TypeInv
<1>5. ReadsOwned' /\ SeenBefore'
  BY <1>1 DEF PageInv, ReadsOwned, SeenBefore
<1>6. \A v \in stray' : v.number # write.number /\ v \in Writing
  BY <1>1 DEF PageInv, TypeInv, WritesTracked
<1>7. \A v \in stray' : (Authentic(v) /\ Fresh(v))'
  BY <1>1, <1>3, <1>6 DEF PageInv, WritesTracked, Authentic
<1>8. pending # None => /\ pending \in Writing /\ pending.number # write.number
  BY DEF PageInv, TypeInv, WritesTracked
<1>9. pending # None => Authentic(pending)' /\ (~pending.arrived => Fresh(pending)')
  BY <1>1, <1>3, <1>8 DEF PageInv, WritesTracked, Authentic
<1>10. WritesTracked'
  <2>1. \A v, w \in stray' : v.number = w.number => v = w
    BY <1>1 DEF PageInv, WritesTracked
  <2>2. pending # None => \A v \in stray' : v.number # pending.number
    BY <1>1 DEF PageInv, WritesTracked
  <2>3. Len(writes') = settled' + (IF pending' = None THEN 0 ELSE 1)
    BY <1>1 DEF PageInv, WritesTracked
  <2>4. pending # None => pending.number = Len(writes)
    BY DEF PageInv, WritesTracked
  <2>5. QED
    BY <1>1, <1>7, <1>9, <2>1, <2>2, <2>3, <2>4 DEF WritesTracked
<1>11. QED
  BY <1>3, <1>4, <1>5, <1>10 DEF PageInv

\* The run starts, ends or is replaced while the page is open.
LEMMA PortalStep ==
  ASSUME PageInv, StartPlay \/ EndPlay \/ NextRun, UNCHANGED <<learnerPage, executed>>
  PROVE  PageInv'
<1>1. run' \in Nat \ {0}
  BY DEF StartPlay, EndPlay, NextRun, PageInv, TypeInv
<1>2. QED
  BY <1>1 DEF learnerPage, PageInv, TypeInv, ReadsOwned, WritesTracked, TakenOnce,
              SeenBefore, Authentic, Fresh

-------------------------------------------------------------------------------
LEMMA PageInvInitially == PortalInit /\ LearnerInit => PageInv
<1> SUFFICES ASSUME PortalInit, LearnerInit PROVE PageInv
  OBVIOUS
<1>1. TypeInv
  BY DEF PortalInit, LearnerInit, TypeInv
<1>2. ReadsOwned /\ WritesTracked /\ TakenOnce /\ SeenBefore
  BY DEF LearnerInit, ReadsOwned, WritesTracked, TakenOnce, SeenBefore
<1>3. QED
  BY <1>1, <1>2 DEF PageInv

LEMMA PageInvIsInductive == PageInv /\ [LearnerNext]_learnerVars => PageInv'
<1> SUFFICES ASSUME PageInv, [LearnerNext]_learnerVars PROVE PageInv'
  OBVIOUS
<1>1. CASE UNCHANGED learnerVars
  BY <1>1 DEF learnerVars, portalVars, learnerPage, PageInv, TypeInv, ReadsOwned,
              WritesTracked, TakenOnce, SeenBefore, Authentic, Fresh
<1>2. CASE LearnerNext
  BY <1>2, PageSteps, ActStep, ArriveStep, SettleStep, StrayStep, PortalStep
     DEF LearnerNext
<1>3. QED
  BY <1>1, <1>2

\* participant-session.js and scoped_control(): however accounts and runs change and
\* answers are lost or late, each action is taken at most once, in the run and under
\* the account its author saw, and on a state served after the previous one settled.
THEOREM ActionsAreInformed == LearnerSpec => []WritesInformed
<1>1. PageInv => WritesInformed
  BY DEF PageInv, ReadsOwned, TakenOnce, SeenBefore, Authentic, WritesInformed
<1>2. QED
  BY <1>1, PageInvInitially, PageInvIsInductive, PTL DEF LearnerSpec

-------------------------------------------------------------------------------
(***************************************************************************)
(* The support queue and its page.                                         *)
(***************************************************************************)


\* What the queue holds.
Asking == [type : {"request"}, actor : Learners, key : Nat \ {0}]
Reply  == [type : {"reply"}, to : Nat, role : StaffRoles, key : ReplyKeys,
           kind : SupportKinds, play : {"live", "stopped"}]

QueueTypes ==
  /\ run \in Nat \ {0} /\ play \in {"ready", "live", "stopped"}
  /\ limits \in Limits /\ queue \in Seq(Asking \union Reply)

SupportPageTypes ==
  /\ account \in Learners /\ known \in Nat
  /\ screen \in View \union {None} /\ reading \in View \union {None}
  /\ operation \in Operation \union {None} /\ sent \in Sending \union {None}
  /\ \A post \in late : post.actor \in Learners /\ post.key \in Nat \ {0}
  /\ asked \in Seq([actor : Learners, run : Nat \ {0}])

\* Question number k is what an actor typed for a run.
TypedBy(k, actor, r) == k \in DOMAIN asked /\ asked[k] = [actor |-> actor, run |-> r]

\* Whatever carries a question carries it under the name and for the run it was
\* typed with; what earlier runs recorded was typed for them.
QuestionsAreAuthentic ==
  /\ sent # None => TypedBy(sent.key, sent.actor, sent.run)
  /\ \A post \in late : TypedBy(post.key, post.actor, post.run)
  /\ operation # None => TypedBy(operation.key, account, operation.run)
  /\ \A n \in Requests : TypedBy(queue[n].key, queue[n].actor, run)
  /\ \A k \in earlier : k \in DOMAIN asked /\ asked[k].run < run

\* No copy of question number k is on its way, other than the one the page waits for.
NoCopy(k) == \A post \in late : post.key # k

Recorded == earlier \union RecordedIn(queue)

\* A rejected question is not sent any more, and one whose rejection is on its way to
\* the page has not been recorded.
RejectionsAreFinal ==
  /\ \A k \in refused : /\ k \in DOMAIN asked /\ NoCopy(k)
                        /\ sent # None => sent.key # k
                        /\ operation # None => operation.key # k
  /\ sent # None /\ sent.answer = "rejected" => sent.key \notin Recorded /\ NoCopy(sent.key)

QueueInv   == QueueTypes /\ QueueAccepted
WordInv    == /\ QuestionsAreAuthentic /\ RejectionsAreFinal /\ PageIsTruthful
              /\ reading # None => reading.actor = account
SupportInv == QueueInv /\ SupportPageTypes /\ WordInv


-------------------------------------------------------------------------------
LEMMA QueueFacts ==
  ASSUME QueueTypes
  PROVE  /\ Len(queue) \in Nat /\ DOMAIN queue = 1..Len(queue)
         /\ limits.queue \in Nat \ {0} /\ limits.actor \in Nat \ {0}
         /\ Requests \subseteq 1..Len(queue) /\ IsFiniteSet(Requests)
         /\ Cardinality(Requests) \in Nat
         /\ \A actor : /\ RequestsOf(actor) \subseteq Requests
                       /\ IsFiniteSet(RequestsOf(actor))
                       /\ Cardinality(RequestsOf(actor)) \in Nat
<1>1. Len(queue) \in Nat /\ DOMAIN queue = 1..Len(queue)
  BY DEF QueueTypes
<1>2. limits.queue \in Nat \ {0} /\ limits.actor \in Nat \ {0}
  BY SupportAssumption DEF QueueTypes
<1>3. Requests \subseteq 1..Len(queue)
  BY <1>1 DEF Requests
<1>4. IsFiniteSet(1..Len(queue))
  BY <1>1, FS_Interval
<1>5. IsFiniteSet(Requests)
  BY <1>3, <1>4, FS_Subset
<1>6. ASSUME NEW actor
      PROVE  /\ RequestsOf(actor) \subseteq Requests /\ IsFiniteSet(RequestsOf(actor))
             /\ Cardinality(RequestsOf(actor)) \in Nat
  <2>1. RequestsOf(actor) \subseteq Requests
    BY DEF RequestsOf
  <2>2. IsFiniteSet(RequestsOf(actor))
    BY <1>5, <2>1, FS_Subset
  <2>3. QED
    BY <2>1, <2>2, FS_CardinalityType
<1>7. Cardinality(Requests) \in Nat
  BY <1>5, FS_CardinalityType
<1>8. QED
  BY <1>1, <1>2, <1>3, <1>5, <1>6, <1>7

\* The queue with one more event.
LEMMA Appended ==
  ASSUME QueueTypes, NEW event, queue' = Append(queue, event)
  PROVE  /\ Len(queue') = Len(queue) + 1 /\ DOMAIN queue' = 1..(Len(queue) + 1)
         /\ \A n \in DOMAIN queue : queue'[n] = queue[n]
         /\ queue'[Len(queue) + 1] = event
         /\ event \in Asking \union Reply => queue' \in Seq(Asking \union Reply)
BY DEF QueueTypes

LEMMA NotBoth ==
  ASSUME NEW event \in Asking \union Reply
  PROVE  /\ event \in Asking <=> event.type = "request"
         /\ event \in Reply <=> event.type = "reply"
         /\ event.type # "request" => event \in Reply
BY DEF Asking, Reply

\* A request that the checks of request() let through.
LEMMA RequestKeepsQueue ==
  ASSUME QueueInv, NEW event \in Asking, queue' = Append(queue, event), limits' = limits,
         \A n \in RequestsOf(event.actor) : queue[n].key # event.key,
         ~Waiting(event.actor), ~Full(event.actor)
  PROVE  QueueAccepted'
<1> DEFINE new == Len(queue) + 1
<1>1. QueueTypes /\ QueueAccepted
  BY DEF QueueInv
<1>2. /\ Len(queue) \in Nat /\ DOMAIN queue = 1..Len(queue)
      /\ DOMAIN queue' = 1..new /\ new \notin 1..Len(queue)
      /\ \A n \in DOMAIN queue : queue'[n] = queue[n]
      /\ queue'[new] = event /\ event.type = "request"
  BY <1>1, QueueFacts, Appended DEF Asking
<1>3. Requests' = Requests \union {new} /\ new \notin Requests
  BY <1>2 DEF Requests
<1>4. ASSUME NEW actor
      PROVE  RequestsOf(actor)' = IF actor = event.actor THEN RequestsOf(actor) \union {new}
                                  ELSE RequestsOf(actor)
  BY <1>2, <1>3 DEF RequestsOf, Requests
<1>5. Cardinality(Requests') <= limits'.queue
  <2>1. Cardinality(Requests') = Cardinality(Requests) + 1
    BY <1>1, <1>3, QueueFacts, FS_AddElement
  <2>2. QED
    BY <1>1, <2>1, QueueFacts DEF Full
<1>6. ASSUME NEW actor \in Learners
      PROVE  Cardinality(RequestsOf(actor)') <= limits'.actor
  <2>1. CASE actor = event.actor
    <3>1. new \notin RequestsOf(actor)
      BY <1>3 DEF RequestsOf
    <3>2. RequestsOf(actor)' = RequestsOf(actor) \union {new}
      BY <1>4, <2>1
    <3>3. Cardinality(RequestsOf(actor)') = Cardinality(RequestsOf(actor)) + 1
      BY <1>1, <3>1, <3>2, QueueFacts, FS_AddElement
    <3>4. QED
      BY <1>1, <2>1, <3>3, QueueFacts DEF Full
  <2>2. CASE actor # event.actor
    BY <1>1, <1>4, <2>2 DEF QueueAccepted, WithinLimits
  <2>3. QED
    BY <2>1, <2>2
<1>7. ASSUME NEW n \in Requests', NEW m \in Requests', m < n,
             queue'[m].actor = queue'[n].actor
      PROVE  /\ queue'[m].key # queue'[n].key
             /\ \E a \in m + 1 .. n - 1 : queue'[a].type = "reply" /\ queue'[a].to = m
  <2>1. m \in Requests /\ m \in 1..Len(queue)
    BY <1>2, <1>3, <1>7 DEF Requests
  <2>2. CASE n = new
    <3>1. m \in RequestsOf(event.actor)
      BY <1>2, <1>7, <2>1, <2>2 DEF RequestsOf
    <3>2. PICK a \in DOMAIN queue : queue[a].type = "reply" /\ queue[a].to = m
      BY <3>1 DEF Waiting, Answered
    <3>3. a \in Replies
      BY <3>2 DEF Requests, Replies
    <3>4. m < a
      BY <1>1, <3>2, <3>3 DEF QueueAccepted, RepliesFit, Replies
    <3>5. a \in m + 1 .. n - 1
      BY <1>2, <2>1, <2>2, <3>2, <3>4
    <3>6. queue'[m].key # queue'[n].key
      BY <1>2, <2>1, <2>2, <3>1
    <3>7. queue'[a].type = "reply" /\ queue'[a].to = m
      BY <1>2, <3>2
    <3>8. QED
      BY <3>5, <3>6, <3>7
  <2>3. CASE n # new
    <3>1. n \in Requests /\ n \in 1..Len(queue)
      BY <1>2, <1>3, <1>7, <2>3 DEF Requests
    <3>2. queue[m].actor = queue[n].actor
      BY <1>2, <1>7, <2>1, <3>1
    <3>3. /\ queue[m].key # queue[n].key
          /\ \E a \in m + 1 .. n - 1 : queue[a].type = "reply" /\ queue[a].to = m
      BY <1>1, <1>7, <2>1, <3>1, <3>2 DEF QueueAccepted, QuestionsTakeTurns
    <3>4. m + 1 .. n - 1 \subseteq DOMAIN queue
      BY <1>2, <2>1, <3>1
    <3>5. QED
      BY <1>2, <2>1, <3>1, <3>3, <3>4
  <2>4. QED
    BY <2>2, <2>3
<1>8. Replies' = Replies
  BY <1>2, <1>3 DEF Requests, Replies
<1>9. \A n \in Replies' :
        /\ queue'[n].to \in Requests' /\ queue'[n].to < n
        /\ queue'[n].play = "live" \/ queue'[n].kind = "platform_issue"
  BY <1>1, <1>2, <1>3, <1>8 DEF QueueAccepted, RepliesFit, Replies
<1>10. \A n, m \in Replies' : m # n =>
         /\ queue'[m].to # queue'[n].to
         /\ <<queue'[m].role, queue'[m].key>> # <<queue'[n].role, queue'[n].key>>
  BY <1>1, <1>2, <1>8 DEF QueueAccepted, RepliesDiffer, Replies
<1>11. QED
  <2>1. WithinLimits'
    BY <1>5, <1>6 DEF WithinLimits
  <2>2. QuestionsTakeTurns'
    BY <1>7 DEF QuestionsTakeTurns
  <2>3. RepliesFit'
    BY <1>9 DEF RepliesFit
  <2>4. RepliesDiffer'
    BY <1>10 DEF RepliesDiffer
  <2>5. QED
    BY <2>1, <2>2, <2>3, <2>4 DEF QueueAccepted

\* A reply that the checks of respond() let through.
LEMMA ReplyKeepsQueue ==
  ASSUME QueueInv, NEW event \in Reply, queue' = Append(queue, event), limits' = limits,
         event.to \in Requests, ~Answered(event.to),
         event.play = "live" \/ event.kind = "platform_issue",
         \A m \in Replies : queue[m].role # event.role \/ queue[m].key # event.key
  PROVE  QueueAccepted'
<1> DEFINE new == Len(queue) + 1
<1>1. QueueTypes /\ QueueAccepted
  BY DEF QueueInv
<1>2. /\ Len(queue) \in Nat /\ DOMAIN queue = 1..Len(queue)
      /\ DOMAIN queue' = 1..new /\ new \notin 1..Len(queue)
      /\ \A n \in DOMAIN queue : queue'[n] = queue[n]
      /\ queue'[new] = event /\ event.type = "reply"
  BY <1>1, QueueFacts, Appended DEF Reply
<1>3. Requests' = Requests /\ new \notin Requests
  BY <1>2 DEF Requests
<1>4. ASSUME NEW actor PROVE RequestsOf(actor)' = RequestsOf(actor)
  BY <1>2, <1>3 DEF RequestsOf, Requests
<1>5. Cardinality(Requests') <= limits'.queue
  BY <1>1, <1>3 DEF QueueAccepted, WithinLimits
<1>6. \A actor \in Learners : Cardinality(RequestsOf(actor)') <= limits'.actor
  BY <1>1, <1>4 DEF QueueAccepted, WithinLimits
<1>7. ASSUME NEW n \in Requests', NEW m \in Requests', m < n,
             queue'[m].actor = queue'[n].actor
      PROVE  /\ queue'[m].key # queue'[n].key
             /\ \E a \in m + 1 .. n - 1 : queue'[a].type = "reply" /\ queue'[a].to = m
  <2>1. n \in Requests /\ n \in 1..Len(queue) /\ m \in Requests /\ m \in 1..Len(queue)
    BY <1>2, <1>3, <1>7 DEF Requests
  <2>2. queue[m].actor = queue[n].actor
    BY <1>2, <1>7, <2>1
  <2>3. /\ queue[m].key # queue[n].key
        /\ \E a \in m + 1 .. n - 1 : queue[a].type = "reply" /\ queue[a].to = m
    BY <1>1, <1>7, <2>1, <2>2 DEF QueueAccepted, QuestionsTakeTurns
  <2>4. m + 1 .. n - 1 \subseteq DOMAIN queue
    BY <1>2, <2>1
  <2>5. QED
    BY <1>2, <2>1, <2>3, <2>4
<1>8. Replies' = Replies \union {new}
  BY <1>2, <1>3 DEF Requests, Replies
<1>9. ASSUME NEW n \in Replies'
      PROVE  /\ queue'[n].to \in Requests' /\ queue'[n].to < n
             /\ queue'[n].play = "live" \/ queue'[n].kind = "platform_issue"
  <2>1. CASE n = new
    <3>1. event.to \in 1..Len(queue)
      BY <1>1, QueueFacts
    <3>2. event.to < new
      BY <1>2, <3>1
    <3>3. QED
      BY <1>2, <1>3, <2>1, <3>2
  <2>2. CASE n # new
    BY <1>1, <1>2, <1>3, <1>8, <1>9, <2>2 DEF QueueAccepted, RepliesFit, Replies
  <2>3. QED
    BY <2>1, <2>2
<1>10. \A m \in Replies : queue[m].to # event.to
  <2>1. ASSUME NEW m \in Replies PROVE queue[m].type = "reply"
    BY <1>1, <2>1, NotBoth DEF QueueTypes, Requests, Replies, Reply
  <2>2. QED
    BY <2>1 DEF Answered, Replies
<1>11. ASSUME NEW n \in Replies', NEW m \in Replies',
              m # n
       PROVE  /\ queue'[m].to # queue'[n].to
              /\ <<queue'[m].role, queue'[m].key>> # <<queue'[n].role, queue'[n].key>>
  <2> Replies \subseteq DOMAIN queue
    BY DEF Replies
  <2>1. CASE n = new
    <3>1. m \in Replies /\ queue'[m] = queue[m]
      BY <1>2, <1>8, <1>11, <2>1
    <3>2. QED
      BY <1>2, <1>10, <2>1, <3>1
  <2>2. CASE m = new
    <3>1. n \in Replies /\ queue'[n] = queue[n]
      BY <1>2, <1>8, <1>11, <2>2
    <3>2. QED
      BY <1>2, <1>10, <2>2, <3>1
  <2>3. CASE n # new /\ m # new
    BY <1>1, <1>2, <1>8, <1>11, <2>3 DEF QueueAccepted, RepliesDiffer, Replies
  <2>4. QED
    BY <2>1, <2>2, <2>3
<1>12. QED
  <2>1. WithinLimits'
    BY <1>5, <1>6 DEF WithinLimits
  <2>2. QuestionsTakeTurns'
    <3>1. \A m, n \in Requests' : m < n /\ queue'[m].actor = queue'[n].actor =>
             /\ queue'[m].key # queue'[n].key
             /\ \E a \in m + 1 .. n - 1 : queue'[a].type = "reply" /\ queue'[a].to = m
      BY <1>7
    <3>2. QED
      BY <3>1 DEF QuestionsTakeTurns
  <2>3. RepliesFit'
    BY <1>9 DEF RepliesFit
  <2>4. RepliesDiffer'
    BY <1>11 DEF RepliesDiffer
  <2>5. QED
    BY <2>1, <2>2, <2>3, <2>4 DEF QueueAccepted


\* request(): what is stored is the question that arrived, which the queue did not hold.
LEMMA RequestHandled ==
  ASSUME QueueInv, NEW post, NEW outcome \in Outcomes, UNCHANGED limits,
         post.actor \in Learners, post.key \in Nat \ {0}, HandleRequest(post, outcome)
  PROVE  /\ QueueInv' /\ run' = run
         /\ \/ queue' = queue
            \/ /\ ~RequestRefused(post) /\ ~Repeat(post)
               /\ queue' = Append(queue, [type |-> "request", actor |-> post.actor,
                                          key |-> post.key])
         /\ outcome = "ok" /\ ~RequestRefused(post) =>
              \E n \in Requests' : queue'[n].actor = post.actor /\ queue'[n].key = post.key
<1> DEFINE event == [type |-> "request", actor |-> post.actor, key |-> post.key]
<1>1. QueueTypes /\ QueueAccepted
  BY DEF QueueInv
<1>2. run' = run /\ play' \in {"ready", "live", "stopped"} /\ limits' \in Limits
  BY <1>1 DEF HandleRequest, QueueTypes, portalVars
<1>3. \/ queue' = queue
      \/ ~RequestRefused(post) /\ ~Repeat(post) /\ queue' = Append(queue, event)
  BY DEF HandleRequest
<1>4. CASE queue' = queue
  <2>1. QueueInv'
    BY <1>1, <1>2, <1>4
       DEF QueueInv, QueueTypes, QueueAccepted, WithinLimits, QuestionsTakeTurns, RepliesFit,
           RepliesDiffer, Replies, RequestsOf, Requests
  <2>2. ASSUME outcome = "ok", ~RequestRefused(post) PROVE Repeat(post)
    <3>1. SUFFICES ASSUME ~Repeat(post) PROVE FALSE
      OBVIOUS
    <3>2. queue' = Append(queue, event)
      BY <2>2, <3>1 DEF HandleRequest, Stored
    <3>3. QED
      BY <1>1, <1>4, <3>2, QueueFacts, Appended
  <2>3. QED
    BY <1>2, <1>4, <2>1, <2>2 DEF Repeat, RequestsOf, Requests
<1>5. CASE ~RequestRefused(post) /\ ~Repeat(post) /\ queue' = Append(queue, event)
  <2>1. event \in Asking /\ event.actor = post.actor /\ event.key = post.key
    BY DEF Asking
  <2>2. /\ \A n \in RequestsOf(event.actor) : queue[n].key # event.key
        /\ ~Waiting(event.actor) /\ ~Full(event.actor)
    BY <1>5 DEF Repeat, RequestRefused
  <2>3. QueueAccepted'
    BY <1>5, <2>1, <2>2, RequestKeepsQueue
  <2>4. QueueTypes'
    BY <1>1, <1>2, <1>5, <2>1, Appended DEF QueueTypes
  <2>5. Len(queue) + 1 \in Requests' /\ queue'[Len(queue) + 1] = event
    BY <1>1, <1>5, Appended, QueueFacts DEF Requests
  <2>6. QED
    BY <1>2, <1>5, <2>1, <2>3, <2>4, <2>5 DEF QueueInv
<1>6. QED
  BY <1>3, <1>4, <1>5

\* respond(): a reply to an unanswered request, or nothing.
LEMMA ReplyHandled ==
  ASSUME QueueInv, NEW role \in StaffRoles, NEW key \in ReplyKeys, NEW n \in DOMAIN queue,
         NEW kind \in SupportKinds, Respond(role, key, n, kind)
  PROVE  /\ QueueInv' /\ Requests' = Requests
         /\ \A m \in Requests : queue'[m] = queue[m]
         /\ UNCHANGED <<run, limits, earlier, pageVars>>
<1>1. QueueTypes /\ QueueAccepted
  BY DEF QueueInv
<1>2. PICK outcome \in Outcomes :
        /\ queue' = IF Stored(outcome)
                    THEN Append(queue, [type |-> "reply", to |-> n, role |-> role,
                                        key |-> key, kind |-> kind, play |-> play])
                    ELSE queue
        /\ play' = IF outcome = "ok" THEN play ELSE "stopped"
  BY DEF Respond
<1> DEFINE event == [type |-> "reply", to |-> n, role |-> role, key |-> key,
                     kind |-> kind, play |-> play]
<1>3. /\ n \in Requests /\ ~Answered(n)
      /\ play = "live" \/ (play = "stopped" /\ kind = "platform_issue")
      /\ ~\E m \in DOMAIN queue :
            queue[m].type = "reply" /\ queue[m].role = role /\ queue[m].key = key
      /\ UNCHANGED <<run, limits, earlier, pageVars>>
  BY DEF Respond
<1>4. run' = run /\ play' \in {"ready", "live", "stopped"} /\ limits' = limits
  BY <1>1, <1>2, <1>3 DEF QueueTypes
<1>5. CASE ~Stored(outcome)
  <2>1. queue' = queue
    BY <1>2, <1>5
  <2>2. QED
    BY <1>1, <1>3, <1>4, <2>1
       DEF QueueInv, QueueTypes, QueueAccepted, WithinLimits, QuestionsTakeTurns, RepliesFit,
           RepliesDiffer, Replies, RequestsOf, Requests
<1>6. CASE Stored(outcome)
  <2>1. queue' = Append(queue, event)
    BY <1>2, <1>6
  <2>2. event \in Reply
    BY <1>1, <1>3, QueueFacts DEF Reply
  <2>3. /\ event.to = n /\ event.role = role /\ event.key = key
        /\ event.play = "live" \/ event.kind = "platform_issue"
    BY <1>3
  <2>4. ASSUME NEW m \in Replies
        PROVE  queue[m].role # event.role \/ queue[m].key # event.key
    <3>1. m \in DOMAIN queue /\ queue[m].type # "request"
      BY <2>4 DEF Replies, Requests
    <3>2. queue[m].type = "reply"
      BY <1>1, <3>1, NotBoth DEF QueueTypes
    <3>3. QED
      BY <1>3, <2>3, <3>1, <3>2
  <2>5. QueueAccepted'
    BY <1>3, <1>4, <2>1, <2>2, <2>3, <2>4, ReplyKeepsQueue
  <2>6. QueueTypes'
    BY <1>1, <1>4, <2>1, <2>2, Appended DEF QueueTypes
  <2>7. Requests' = Requests /\ \A m \in Requests : queue'[m] = queue[m]
    <3>1. event.type # "request"
      OBVIOUS
    <3>2. QED
      BY <1>1, <2>1, <3>1, Appended, QueueFacts DEF Requests
  <2>8. QED
    BY <1>3, <2>5, <2>6, <2>7 DEF QueueInv
<1>7. QED
  BY <1>5, <1>6


-------------------------------------------------------------------------------
\* A question arrives, from the page that waits or after it gave up.
LEMMA QuestionArrives ==
  ASSUME SupportInv, NEW post, NEW outcome \in Outcomes,
         post.actor \in Learners, post.key \in Nat \ {0},
         TypedBy(post.key, post.actor, post.run), post.key \notin refused,
         HandleRequest(post, outcome), UNCHANGED <<limits, earlier, asked, refused>>
  PROVE  /\ QueueInv' /\ run' = run
         /\ Recorded \subseteq Recorded' /\ Recorded' \subseteq Recorded \union {post.key}
         /\ refused \intersect Recorded' = {} /\ RecordedIn(queue)' \intersect earlier = {}
         /\ \A n \in Requests' : TypedBy(queue'[n].key, queue'[n].actor, run)
         /\ outcome = "ok" /\ ~RequestRefused(post) => post.key \in Recorded'
         /\ RequestRefused(post) /\ post.run = run => post.key \notin Recorded'
<1> DEFINE event == [type |-> "request", actor |-> post.actor, key |-> post.key]
<1>1. /\ QueueInv' /\ run' = run
      /\ \/ queue' = queue
         \/ ~RequestRefused(post) /\ ~Repeat(post) /\ queue' = Append(queue, event)
      /\ outcome = "ok" /\ ~RequestRefused(post) =>
           \E n \in Requests' : queue'[n].actor = post.actor /\ queue'[n].key = post.key
  BY RequestHandled DEF SupportInv
<1>2. QueueTypes /\ QueueTypes' /\ QuestionsAreAuthentic /\ PageIsTruthful
  BY <1>1 DEF SupportInv, QueueInv, WordInv
<1>3. ASSUME ~Repeat(post), post.run = run PROVE post.key \notin Recorded
  <2>1. post.key \notin earlier
    BY <1>2, <1>3 DEF QuestionsAreAuthentic, TypedBy, QueueTypes
  <2>2. ASSUME NEW n \in Requests, queue[n].key = post.key PROVE FALSE
    <3>1. [actor |-> queue[n].actor, run |-> run] = [actor |-> post.actor, run |-> post.run]
      BY <1>2, <2>2 DEF QuestionsAreAuthentic, TypedBy
    <3>2. queue[n].actor = post.actor
      BY <3>1
    <3>3. QED
      BY <1>3, <2>2, <3>2 DEF Repeat, RequestsOf
  <2>3. QED
    BY <2>1, <2>2 DEF Recorded, RecordedIn, Requests
<1>4. CASE queue' = queue
  <2>1. Recorded' = Recorded /\ RecordedIn(queue)' = RecordedIn(queue) /\ Requests' = Requests
    BY <1>4 DEF Recorded, RecordedIn, Requests
  <2>2. RequestRefused(post) /\ post.run = run => ~Repeat(post)
    BY DEF RequestRefused
  <2>3. QED
    BY <1>1, <1>2, <1>3, <1>4, <2>1, <2>2
       DEF Recorded, RecordedIn, Requests, QuestionsAreAuthentic, PageIsTruthful
<1>5. CASE ~RequestRefused(post) /\ ~Repeat(post) /\ queue' = Append(queue, event)
  <2>1. post.run = run /\ post.key \notin Recorded
    BY <1>3, <1>5 DEF RequestRefused
  <2>2. /\ Len(queue) \in Nat /\ DOMAIN queue = 1..Len(queue)
        /\ DOMAIN queue' = 1..(Len(queue) + 1)
        /\ \A n \in DOMAIN queue : queue'[n] = queue[n]
        /\ queue'[Len(queue) + 1] = event
    BY <1>2, <1>5, Appended, QueueFacts
  <2>3. Requests' = Requests \union {Len(queue) + 1} /\ Requests \subseteq DOMAIN queue
    BY <2>2 DEF Requests
  <2>4. RecordedIn(queue)' = RecordedIn(queue) \union {post.key}
    <3>1. RecordedIn(queue)' = {queue'[n].key : n \in Requests'}
      BY DEF RecordedIn, Requests
    <3>2. RecordedIn(queue) = {queue[n].key : n \in Requests}
      BY DEF RecordedIn, Requests
    <3>3. QED
      BY <2>2, <2>3, <3>1, <3>2
  <2>5. Recorded' = Recorded \union {post.key}
    BY <2>4 DEF Recorded
  <2>6. ASSUME NEW n \in Requests' PROVE TypedBy(queue'[n].key, queue'[n].actor, run)
    <3>1. CASE n \in Requests
      BY <1>2, <2>2, <2>3, <3>1 DEF QuestionsAreAuthentic
    <3>2. CASE n = Len(queue) + 1
      BY <2>1, <2>2, <3>2
    <3>3. QED
      BY <2>3, <3>1, <3>2
  <2>7. refused \intersect Recorded = {} /\ RecordedIn(queue) \intersect earlier = {}
    BY <1>2 DEF PageIsTruthful, Recorded
  <2>8. QED
    BY <1>1, <1>5, <2>1, <2>4, <2>5, <2>6, <2>7 DEF Recorded
<1>6. QED
  BY <1>1, <1>4, <1>5

\* The page is told "rejected" only when no other copy is on its way.
LEMMA AnswersSaid ==
  ASSUME NEW post, NEW outcome
  PROVE  /\ AnswerTo(post, outcome) \in Answers
         /\ AnswerTo(post, outcome) = "recorded" => outcome = "ok" /\ ~RequestRefused(post)
         /\ AnswerTo(post, outcome) = "rejected" =>
              RequestRefused(post) /\ post.run = run /\ ~Astray(post)
BY DEF AnswerTo, Answers, RequestRefused

LEMMA ArriveKeeps ==
  ASSUME SupportInv, NEW outcome \in Outcomes, Arrive(outcome)
  PROVE  SupportInv'
<1>1. /\ sent # None /\ sent.answer = None /\ HandleRequest(sent, outcome)
      /\ sent' = [sent EXCEPT !.answer = AnswerTo(sent, outcome)]
      /\ UNCHANGED <<earlier, limits, account, known, screen, operation, reading, late,
                     asked, refused>>
  BY DEF Arrive
<1>2. /\ QueueInv /\ QueueTypes /\ SupportPageTypes /\ QuestionsAreAuthentic
      /\ RejectionsAreFinal /\ PageIsTruthful /\ (reading # None => reading.actor = account)
  BY DEF SupportInv, QueueInv, WordInv
<1>3. /\ sent \in Sending /\ TypedBy(sent.key, sent.actor, sent.run) /\ sent.key \notin refused
  BY <1>1, <1>2 DEF SupportPageTypes, QuestionsAreAuthentic, RejectionsAreFinal
<1>4. sent.actor \in Learners /\ sent.key \in Nat \ {0}
  BY <1>3 DEF Sending
<1>5. /\ QueueInv' /\ run' = run
      /\ Recorded \subseteq Recorded' /\ Recorded' \subseteq Recorded \union {sent.key}
      /\ refused \intersect Recorded' = {} /\ RecordedIn(queue)' \intersect earlier = {}
      /\ \A n \in Requests' : TypedBy(queue'[n].key, queue'[n].actor, run)
      /\ outcome = "ok" /\ ~RequestRefused(sent) => sent.key \in Recorded'
      /\ RequestRefused(sent) /\ sent.run = run => sent.key \notin Recorded'
  BY <1>1, <1>3, <1>4, QuestionArrives
<1>6. AnswerTo(sent, outcome) \in Answers
  BY AnswersSaid
<1>7. /\ sent' \in Sending /\ sent'.key = sent.key /\ sent'.actor = sent.actor
      /\ sent'.run = sent.run /\ sent'.answer = AnswerTo(sent, outcome)
  BY <1>1, <1>3, <1>6 DEF Sending
<1>8. /\ AnswerTo(sent, outcome) = "recorded" => outcome = "ok" /\ ~RequestRefused(sent)
      /\ AnswerTo(sent, outcome) = "rejected" =>
           RequestRefused(sent) /\ sent.run = run /\ ~Astray(sent)
  BY AnswersSaid
<1>9. SupportPageTypes'
  BY <1>1, <1>2, <1>7 DEF SupportPageTypes
<1>10. QuestionsAreAuthentic'
  BY <1>1, <1>2, <1>3, <1>5, <1>7 DEF QuestionsAreAuthentic, TypedBy
<1>11. RejectionsAreFinal'
  BY <1>1, <1>2, <1>3, <1>5, <1>7, <1>8 DEF RejectionsAreFinal, NoCopy, Astray
<1>12. PageIsTruthful'
  <2>1. refused' \intersect Recorded' = {} /\ RecordedIn(queue)' \intersect earlier' = {}
    BY <1>1, <1>5
  <2>2. sent'.answer = "recorded" => sent'.key \in Recorded'
    BY <1>5, <1>7, <1>8
  <2>3. \A n \in Requests' : asked'[queue'[n].key] = [actor |-> queue'[n].actor, run |-> run']
    BY <1>1, <1>5 DEF TypedBy
  <2>4. screen' # None => screen'.actor = account'
    BY <1>1, <1>2 DEF PageIsTruthful
  <2>5. QED
    BY <2>1, <2>2, <2>3, <2>4 DEF PageIsTruthful, Recorded
<1>13. QED
  BY <1>1, <1>2, <1>5, <1>9, <1>10, <1>11, <1>12 DEF SupportInv, WordInv


LEMMA ArriveLateKeeps ==
  ASSUME SupportInv, NEW post \in late, NEW outcome \in Outcomes, ArriveLate(post, outcome)
  PROVE  SupportInv'
<1>1. /\ late' = late \ {post} /\ HandleRequest(post, outcome)
      /\ UNCHANGED <<earlier, limits, account, known, screen, operation, sent, reading,
                     asked, refused>>
  BY DEF ArriveLate
<1>2. /\ QueueInv /\ QueueTypes /\ SupportPageTypes /\ QuestionsAreAuthentic
      /\ RejectionsAreFinal /\ PageIsTruthful /\ (reading # None => reading.actor = account)
  BY DEF SupportInv, QueueInv, WordInv
<1>3. /\ post.actor \in Learners /\ post.key \in Nat \ {0}
      /\ TypedBy(post.key, post.actor, post.run) /\ post.key \notin refused
  BY <1>2 DEF SupportPageTypes, QuestionsAreAuthentic, RejectionsAreFinal, NoCopy
<1>4. /\ QueueInv' /\ run' = run
      /\ Recorded \subseteq Recorded' /\ Recorded' \subseteq Recorded \union {post.key}
      /\ refused \intersect Recorded' = {} /\ RecordedIn(queue)' \intersect earlier = {}
      /\ \A n \in Requests' : TypedBy(queue'[n].key, queue'[n].actor, run)
  BY <1>1, <1>3, QuestionArrives
<1>5. SupportPageTypes'
  BY <1>1, <1>2 DEF SupportPageTypes
<1>6. QuestionsAreAuthentic'
  BY <1>1, <1>2, <1>4 DEF QuestionsAreAuthentic, TypedBy
<1>7. RejectionsAreFinal'
  BY <1>1, <1>2, <1>4 DEF RejectionsAreFinal, NoCopy
<1>8. PageIsTruthful'
  <2>1. refused' \intersect Recorded' = {} /\ RecordedIn(queue)' \intersect earlier' = {}
    BY <1>1, <1>4
  <2>2. sent' # None /\ sent'.answer = "recorded" => sent'.key \in Recorded'
    BY <1>1, <1>2, <1>4 DEF PageIsTruthful, Recorded
  <2>3. \A n \in Requests' : asked'[queue'[n].key] = [actor |-> queue'[n].actor, run |-> run']
    BY <1>1, <1>4 DEF TypedBy
  <2>4. screen' # None => screen'.actor = account'
    BY <1>1, <1>2 DEF PageIsTruthful
  <2>5. QED
    BY <2>1, <2>2, <2>3, <2>4 DEF PageIsTruthful, Recorded
<1>9. QED
  BY <1>1, <1>2, <1>4, <1>5, <1>6, <1>7, <1>8 DEF SupportInv, WordInv

LEMMA RespondKeeps ==
  ASSUME SupportInv, NEW role \in StaffRoles, NEW key \in ReplyKeys, NEW n \in DOMAIN queue,
         NEW kind \in SupportKinds, Respond(role, key, n, kind)
  PROVE  SupportInv'
<1>1. /\ QueueInv' /\ Requests' = Requests
      /\ \A m \in Requests : queue'[m] = queue[m]
      /\ UNCHANGED <<run, limits, earlier, pageVars>>
  BY ReplyHandled DEF SupportInv
<1>2. /\ SupportPageTypes /\ QuestionsAreAuthentic /\ RejectionsAreFinal /\ PageIsTruthful
      /\ (reading # None => reading.actor = account)
  BY DEF SupportInv, WordInv
<1>3. RecordedIn(queue)' = RecordedIn(queue)
  <2>1. RecordedIn(queue)' = {queue'[m].key : m \in Requests'}
    BY DEF RecordedIn, Requests
  <2>2. RecordedIn(queue) = {queue[m].key : m \in Requests}
    BY DEF RecordedIn, Requests
  <2>3. QED
    BY <1>1, <2>1, <2>2
<1>4. Recorded' = Recorded
  BY <1>1, <1>3 DEF Recorded
<1>5. SupportPageTypes'
  BY <1>1, <1>2 DEF SupportPageTypes, pageVars
<1>6. QuestionsAreAuthentic' /\ RejectionsAreFinal'
  BY <1>1, <1>2, <1>4 DEF QuestionsAreAuthentic, RejectionsAreFinal, TypedBy, NoCopy, pageVars
<1>7. PageIsTruthful'
  BY <1>1, <1>2, <1>3 DEF PageIsTruthful, pageVars
<1>8. QED
  BY <1>1, <1>2, <1>5, <1>6, <1>7 DEF SupportInv, WordInv, pageVars

-------------------------------------------------------------------------------
\* A step of the page alone leaves the queue as it is.
LEMMA QueueUntouched ==
  ASSUME QueueInv, UNCHANGED <<run, play, queueVars>>
  PROVE  /\ QueueInv' /\ Requests' = Requests /\ Recorded' = Recorded
         /\ RecordedIn(queue)' = RecordedIn(queue)
BY DEF queueVars, QueueInv, QueueTypes, QueueAccepted, WithinLimits, QuestionsTakeTurns,
       RepliesFit, RepliesDiffer, Replies, RequestsOf, Requests, Recorded, RecordedIn

LEMMA NoLongerKeeps ==
  ASSUME SupportPageTypes
  PROVE  /\ NoLonger(sent) \in Sending \union {None}
         /\ NoLonger(sent) = None <=> sent = None
         /\ sent # None => /\ NoLonger(sent).key = sent.key /\ NoLonger(sent).run = sent.run
                           /\ NoLonger(sent).actor = sent.actor
                           /\ NoLonger(sent).answer = sent.answer
<1>1. CASE sent = None
  BY <1>1 DEF NoLonger
<1>2. CASE sent # None
  <2>1. sent \in Sending
    BY <1>2 DEF SupportPageTypes
  <2>2. [sent EXCEPT !.mine = FALSE] \in Sending
    BY <2>1 DEF Sending
  <2>3. [sent EXCEPT !.mine = FALSE] # None
    BY <2>2, SupportAssumption
  <2>4. QED
    BY <1>2, <2>1, <2>2, <2>3 DEF NoLonger, Sending
<1>3. QED
  BY <1>1, <1>2

\* Connect, Read, Show and ReadFails: what is sent and typed stays, what is frozen stays
\* or goes.
Looks ==
  /\ UNCHANGED <<portalVars, queueVars, late, asked, refused>>
  /\ sent' \in {sent, NoLonger(sent)} /\ operation' \in {operation, None}

LEMMA LooksKeep ==
  ASSUME SupportInv, Looks, account' \in Learners, known' \in Nat,
         account' = account \/ operation' = None,
         screen' \in View \union {None}, screen' # None => screen'.actor = account',
         reading' \in View \union {None}, reading' # None => reading'.actor = account'
  PROVE  SupportInv'
<1>1. /\ QueueInv /\ SupportPageTypes /\ QuestionsAreAuthentic /\ RejectionsAreFinal
      /\ PageIsTruthful
  BY DEF SupportInv, WordInv
<1>2. /\ QueueInv' /\ Requests' = Requests /\ Recorded' = Recorded
      /\ RecordedIn(queue)' = RecordedIn(queue)
      /\ UNCHANGED <<run, queue, earlier, late, asked, refused>>
  BY <1>1, QueueUntouched DEF Looks, portalVars, queueVars
<1>3. /\ sent' \in Sending \union {None} /\ (sent' = None <=> sent = None)
      /\ sent # None => /\ sent'.key = sent.key /\ sent'.run = sent.run
                        /\ sent'.actor = sent.actor /\ sent'.answer = sent.answer
  BY <1>1, NoLongerKeeps DEF Looks, SupportPageTypes
<1>4. operation' = operation \/ operation' = None
  BY DEF Looks
<1>5. SupportPageTypes'
  BY <1>1, <1>2, <1>3, <1>4 DEF SupportPageTypes
<1>6. QuestionsAreAuthentic'
  BY <1>1, <1>2, <1>3, <1>4 DEF QuestionsAreAuthentic, TypedBy
<1>7. RejectionsAreFinal'
  BY <1>1, <1>2, <1>3, <1>4 DEF RejectionsAreFinal, NoCopy
<1>8. PageIsTruthful'
  BY <1>1, <1>2, <1>3 DEF PageIsTruthful
<1>9. QED
  BY <1>2, <1>5, <1>6, <1>7, <1>8 DEF SupportInv, WordInv


LEMMA PageLooks ==
  ASSUME SupportInv,
         \/ \E actor \in Learners : Connect(actor)
         \/ Read \/ Show \/ ReadFails
  PROVE  SupportInv'
<1>1. /\ SupportPageTypes /\ QueueTypes /\ (reading # None => reading.actor = account)
      /\ (screen # None => screen.actor = account)
  BY DEF SupportInv, QueueInv, WordInv, PageIsTruthful
<1>2. ASSUME NEW actor \in Learners, Connect(actor) PROVE SupportInv'
  <2>1. /\ Looks /\ account' = actor /\ known' = 0 /\ operation' = None
        /\ screen' = None /\ reading' = None
    BY <1>2 DEF Connect, Forget, Looks, queueVars
  <2>2. QED
    BY <2>1, LooksKeep
<1>3. CASE Read
  <2>1. /\ Looks /\ UNCHANGED <<account, known, screen, operation>>
        /\ reading' = [actor |-> account, run |-> run, asks |-> reading'.asks]
        /\ reading'.asks \in BOOLEAN
    BY <1>3 DEF Read, Looks, queueVars
  <2>2. reading' \in View /\ reading'.actor = account
    BY <1>1, <2>1 DEF View, SupportPageTypes, QueueTypes
  <2>3. QED
    BY <1>1, <2>1, <2>2, LooksKeep DEF SupportPageTypes
<1>4. CASE Show
  <2>1. /\ Looks /\ reading # None /\ screen' = reading /\ known' = reading.run
        /\ reading' = None /\ account' = account
    BY <1>4 DEF Show, Looks, queueVars
  <2>2. known' \in Nat
    BY <1>1, <2>1 DEF SupportPageTypes, View
  <2>3. QED
    BY <1>1, <2>1, <2>2, LooksKeep DEF SupportPageTypes
<1>5. CASE ReadFails
  <2>1. /\ Looks /\ screen' = None /\ reading' = None
        /\ UNCHANGED <<account, known, operation>>
    BY <1>5 DEF ReadFails, Looks, queueVars
  <2>2. QED
    BY <1>1, <2>1, LooksKeep DEF SupportPageTypes
<1>6. QED
  BY <1>2, <1>3, <1>4, <1>5

LEMMA SubmitKeeps ==
  ASSUME SupportInv, Submit
  PROVE  SupportInv'
<1>1. /\ QueueInv /\ QueueTypes /\ SupportPageTypes /\ QuestionsAreAuthentic
      /\ RejectionsAreFinal /\ PageIsTruthful
  BY DEF SupportInv, QueueInv, WordInv
<1>2. /\ sent = None /\ screen # None /\ screen' = None /\ reading' = None
      /\ sent' = [actor |-> account, key |-> operation'.key, run |-> operation'.run,
                  mine |-> TRUE, answer |-> None]
      /\ UNCHANGED <<portalVars, queueVars, account, known, late, refused>>
  BY DEF Submit
<1>3. /\ QueueInv' /\ Requests' = Requests /\ Recorded' = Recorded
      /\ RecordedIn(queue)' = RecordedIn(queue)
      /\ UNCHANGED <<run, queue, earlier>>
  BY <1>1, <1>2, QueueUntouched DEF portalVars, queueVars
<1>4. /\ operation' \in Operation
      /\ TypedBy(operation.key, account, operation.run)'
      /\ asked' \in Seq([actor : Learners, run : Nat \ {0}])
      /\ \A k \in DOMAIN asked : k \in DOMAIN asked' /\ asked'[k] = asked[k]
      /\ operation'.key \notin refused
  <2>1. CASE operation # None /\ UNCHANGED <<operation, asked>>
    <3>1. operation \in Operation /\ operation'.key \notin refused
      BY <1>1, <2>1 DEF SupportPageTypes, RejectionsAreFinal
    <3>2. TypedBy(operation.key, account, operation.run)
      BY <1>1, <2>1 DEF QuestionsAreAuthentic
    <3>3. TypedBy(operation.key, account, operation.run)'
      BY <1>2, <2>1, <3>2 DEF TypedBy
    <3>4. asked' \in Seq([actor : Learners, run : Nat \ {0}])
      BY <1>1, <2>1 DEF SupportPageTypes
    <3>5. QED
      BY <2>1, <3>1, <3>3, <3>4
  <2>2. CASE /\ operation' = [key |-> Len(asked) + 1, run |-> screen.run]
             /\ asked' = Append(asked, [actor |-> account, run |-> screen.run])
    <3>1. screen.run \in Nat \ {0} /\ account \in Learners
      BY <1>1, <1>2 DEF SupportPageTypes, View
    <3>2. [actor |-> account, run |-> screen.run] \in [actor : Learners, run : Nat \ {0}]
      BY <3>1
    <3>3. /\ Len(asked) \in Nat /\ DOMAIN asked = 1..Len(asked)
          /\ DOMAIN asked' = 1..(Len(asked) + 1)
          /\ \A k \in DOMAIN asked : asked'[k] = asked[k]
          /\ asked'[Len(asked) + 1] = [actor |-> account, run |-> screen.run]
          /\ asked' \in Seq([actor : Learners, run : Nat \ {0}])
      BY <1>1, <2>2, <3>2 DEF SupportPageTypes
    <3>4. refused \subseteq DOMAIN asked
      BY <1>1 DEF RejectionsAreFinal
    <3>5. /\ operation' \in Operation /\ operation'.key = Len(asked) + 1
          /\ operation'.run = screen.run
      BY <2>2, <3>1, <3>3 DEF Operation
    <3>6. TypedBy(operation.key, account, operation.run)'
      BY <1>2, <3>3, <3>5 DEF TypedBy
    <3>7. QED
      BY <3>3, <3>4, <3>5, <3>6
  <2>3. QED
    BY <2>1, <2>2 DEF Submit
<1>5. /\ sent' \in Sending /\ sent'.key = operation'.key /\ sent'.actor = account
      /\ sent'.run = operation'.run /\ sent'.answer = None
  BY <1>1, <1>2, <1>4 DEF Sending, Operation, SupportPageTypes
<1>6. SupportPageTypes'
  BY <1>1, <1>2, <1>4, <1>5 DEF SupportPageTypes
<1>7. QuestionsAreAuthentic'
  <2>1. sent' # None => TypedBy(sent.key, sent.actor, sent.run)'
    BY <1>2, <1>4, <1>5 DEF TypedBy
  <2>2. operation' # None => TypedBy(operation.key, account, operation.run)'
    BY <1>4
  <2>3. \A post \in late' : TypedBy(post.key, post.actor, post.run)'
    BY <1>1, <1>2, <1>4 DEF QuestionsAreAuthentic, TypedBy
  <2>4. \A n \in Requests' : TypedBy(queue[n].key, queue[n].actor, run)'
    BY <1>1, <1>3, <1>4 DEF QuestionsAreAuthentic, TypedBy
  <2>5. \A k \in earlier' : k \in DOMAIN asked' /\ asked'[k].run < run'
    BY <1>1, <1>3, <1>4 DEF QuestionsAreAuthentic
  <2>6. QED
    BY <2>1, <2>2, <2>3, <2>4, <2>5 DEF QuestionsAreAuthentic
<1>8. RejectionsAreFinal'
  <2>1. sent'.answer # "rejected" /\ sent'.answer # "recorded"
    BY <1>5, SupportAssumption DEF Answers
  <2>2. QED
    BY <1>1, <1>2, <1>4, <1>5, <2>1 DEF RejectionsAreFinal, NoCopy
<1>9. PageIsTruthful'
  <2>1. sent'.answer # "recorded"
    BY <1>5, SupportAssumption DEF Answers
  <2>2. \A n \in Requests' : asked'[queue'[n].key] = [actor |-> queue'[n].actor, run |-> run']
    BY <1>1, <1>3, <1>4 DEF QuestionsAreAuthentic, TypedBy
  <2>3. QED
    BY <1>1, <1>2, <1>3, <2>1, <2>2 DEF PageIsTruthful
<1>10. QED
  BY <1>2, <1>3, <1>6, <1>7, <1>8, <1>9 DEF SupportInv, WordInv

LEMMA SettleKeeps ==
  ASSUME SupportInv, NEW seen \in Answers, Settle(seen)
  PROVE  SupportInv'
<1>1. /\ QueueInv /\ QueueTypes /\ SupportPageTypes /\ QuestionsAreAuthentic
      /\ RejectionsAreFinal /\ PageIsTruthful
  BY DEF SupportInv, QueueInv, WordInv
<1>2. /\ sent # None /\ seen \in {sent.answer, "unsure"}
      /\ late' = IF sent.answer = None
                 THEN late \union {[actor |-> sent.actor, key |-> sent.key, run |-> sent.run]}
                 ELSE late
      /\ operation' = IF sent.mine /\ Dropped(seen) THEN None ELSE operation
      /\ refused' = IF sent.mine /\ seen = "rejected" THEN refused \union {sent.key}
                    ELSE refused
      /\ sent' = None /\ screen' = None /\ reading' = None
      /\ UNCHANGED <<portalVars, queueVars, account, known, asked>>
  BY DEF Settle
<1>3. /\ QueueInv' /\ Requests' = Requests /\ Recorded' = Recorded
      /\ RecordedIn(queue)' = RecordedIn(queue)
      /\ UNCHANGED <<run, queue, earlier>>
  BY <1>1, <1>2, QueueUntouched DEF portalVars, queueVars
<1>4. /\ sent.actor \in Learners /\ sent.key \in Nat \ {0} /\ sent.key \notin refused
      /\ TypedBy(sent.key, sent.actor, sent.run)
  BY <1>1, <1>2 DEF SupportPageTypes, Sending, QuestionsAreAuthentic, RejectionsAreFinal
<1>5. SupportPageTypes'
  BY <1>1, <1>2, <1>4 DEF SupportPageTypes
<1>6. QuestionsAreAuthentic'
  <2>1. \A post \in late' : TypedBy(post.key, post.actor, post.run)
    BY <1>1, <1>2, <1>4 DEF QuestionsAreAuthentic
  <2>2. QED
    BY <1>1, <1>2, <1>3, <2>1 DEF QuestionsAreAuthentic, TypedBy
<1>7. ASSUME sent.mine /\ seen = "rejected"
      PROVE  /\ sent.answer = "rejected" /\ late' = late /\ operation' = None
             /\ NoCopy(sent.key) /\ sent.key \notin Recorded /\ sent.key \in DOMAIN asked
  <2>1. sent.answer = "rejected" /\ sent.answer # None
    BY <1>2, <1>7, SupportAssumption DEF Answers
  <2>2. QED
    BY <1>1, <1>2, <1>4, <1>7, <2>1 DEF Dropped, RejectionsAreFinal, TypedBy
<1>8. RejectionsAreFinal'
  <2>1. ASSUME NEW k \in refused' PROVE k \in DOMAIN asked' /\ NoCopy(k)'
                                        /\ (operation' # None => operation'.key # k)
    <3>1. CASE k \in refused
      BY <1>1, <1>2, <1>4, <3>1 DEF RejectionsAreFinal, NoCopy
    <3>2. CASE k \notin refused
      BY <1>2, <1>7, <2>1, <3>2 DEF NoCopy
    <3>3. QED
      BY <3>1, <3>2
  <2>2. QED
    BY <1>2, <2>1 DEF RejectionsAreFinal
<1>9. PageIsTruthful'
  <2>1. refused' \intersect Recorded = {}
    BY <1>1, <1>2, <1>7 DEF PageIsTruthful, Recorded
  <2>2. QED
    BY <1>1, <1>2, <1>3, <2>1 DEF PageIsTruthful, Recorded
<1>10. QED
  BY <1>2, <1>3, <1>5, <1>6, <1>8, <1>9 DEF SupportInv, WordInv

-------------------------------------------------------------------------------
LEMMA InSeq ==
  ASSUME NEW S, NEW s \in Seq(S)
  PROVE  \A k \in DOMAIN s : s[k] \in S
OBVIOUS

LEMMA SupportResetKeeps ==
  ASSUME SupportInv, SupportReset
  PROVE  SupportInv'
<1>1. /\ QueueInv /\ QueueTypes /\ SupportPageTypes /\ QuestionsAreAuthentic
      /\ RejectionsAreFinal /\ PageIsTruthful /\ (reading # None => reading.actor = account)
  BY DEF SupportInv, QueueInv, WordInv
<1>2. /\ run' = run + 1 /\ run \in Nat \ {0} /\ play' = "ready" /\ queue' = <<>>
      /\ earlier' = earlier \union RecordedIn(queue)
      /\ UNCHANGED <<limits, pageVars>>
  BY <1>1 DEF SupportReset, NextRun, QueueTypes
<1>3. /\ Requests' = {} /\ Replies' = {} /\ RecordedIn(queue)' = {} /\ Recorded' = Recorded
      /\ \A actor : RequestsOf(actor)' = {}
  BY <1>2 DEF Requests, Replies, RecordedIn, Recorded, RequestsOf
<1>4. QueueTypes'
  BY <1>1, <1>2 DEF QueueTypes
<1>5. QueueAccepted'
  <2>1. Cardinality({}) = 0 /\ limits.queue \in Nat /\ limits.actor \in Nat
    BY <1>1, FS_EmptySet, QueueFacts
  <2>2. WithinLimits'
    <3>1. Cardinality(Requests') <= limits'.queue
      BY <1>2, <1>3, <2>1
    <3>2. ASSUME NEW actor \in Learners PROVE Cardinality(RequestsOf(actor)') <= limits'.actor
      <4>1. RequestsOf(actor)' = {}
        BY <1>3
      <4>2. Cardinality(RequestsOf(actor)') = 0
        BY <2>1, <4>1
      <4>3. QED
        BY <1>2, <2>1, <4>2
    <3>3. QED
      BY <3>1, <3>2 DEF WithinLimits
  <2>3. QuestionsTakeTurns' /\ RepliesFit' /\ RepliesDiffer'
    BY <1>3 DEF QuestionsTakeTurns, RepliesFit, RepliesDiffer
  <2>4. QED
    BY <2>2, <2>3 DEF QueueAccepted
<1>6. SupportPageTypes'
  BY <1>1, <1>2 DEF SupportPageTypes, pageVars
<1>7. QuestionsAreAuthentic'
  <2>1. \A k \in RecordedIn(queue) : k \in DOMAIN asked /\ asked[k].run = run
    <3>1. ASSUME NEW n \in Requests
          PROVE  queue[n].key \in DOMAIN asked /\ asked[queue[n].key].run = run
      <4>1. TypedBy(queue[n].key, queue[n].actor, run)
        BY <1>1 DEF QuestionsAreAuthentic
      <4>2. QED
        BY <4>1 DEF TypedBy
    <3>2. RecordedIn(queue) = {queue[n].key : n \in Requests}
      BY DEF RecordedIn, Requests
    <3>3. ASSUME NEW k \in RecordedIn(queue) PROVE k \in DOMAIN asked /\ asked[k].run = run
      BY <3>1, <3>2
    <3>4. QED
      BY <3>3
  <2>2. \A k \in earlier' : k \in DOMAIN asked /\ asked[k].run < run'
    <3>1. \A k \in earlier : k \in DOMAIN asked /\ asked[k].run < run
      BY <1>1 DEF QuestionsAreAuthentic
    <3>2. \A k \in DOMAIN asked : asked[k] \in [actor : Learners, run : Nat \ {0}]
      <4>1. asked \in Seq([actor : Learners, run : Nat \ {0}])
        BY <1>1 DEF SupportPageTypes
      <4>2. QED
        BY <4>1, InSeq
    <3>3. asked' = asked
      BY <1>2 DEF pageVars
    <3>4. ASSUME NEW k \in earlier, k \in DOMAIN asked PROVE asked[k].run < run'
      <4>1. asked[k].run \in Nat /\ asked[k].run < run
        BY <3>1, <3>2, <3>4
      <4>2. QED
        BY <1>2, <4>1
    <3>5. ASSUME NEW k \in RecordedIn(queue), k \in DOMAIN asked PROVE asked[k].run < run'
      BY <1>2, <2>1, <3>5
    <3>6. QED
      BY <1>2, <2>1, <3>1, <3>4, <3>5
  <2>3. QED
    BY <1>1, <1>2, <1>3, <2>2 DEF QuestionsAreAuthentic, TypedBy, pageVars
<1>8. RejectionsAreFinal'
  BY <1>1, <1>2, <1>3 DEF RejectionsAreFinal, NoCopy, pageVars
<1>9. PageIsTruthful'
  BY <1>1, <1>2, <1>3 DEF PageIsTruthful, Recorded, pageVars
<1>10. QED
  BY <1>1, <1>2, <1>4, <1>5, <1>6, <1>7, <1>8, <1>9
     DEF SupportInv, QueueInv, WordInv, pageVars

\* The run starts or ends, or nothing happens.
LEMMA SupportIdles ==
  ASSUME SupportInv, SupportControl \/ UNCHANGED supportVars
  PROVE  SupportInv'
<1>1. /\ QueueInv /\ QueueTypes /\ SupportPageTypes /\ QuestionsAreAuthentic
      /\ RejectionsAreFinal /\ PageIsTruthful /\ (reading # None => reading.actor = account)
  BY DEF SupportInv, QueueInv, WordInv
<1>2. /\ run' = run /\ play' \in {"ready", "live", "stopped"}
      /\ UNCHANGED <<queue, earlier, limits, pageVars>>
  BY <1>1 DEF SupportControl, StartPlay, EndPlay, supportVars, queueVars, portalVars, QueueTypes
<1>3. QueueInv'
  BY <1>1, <1>2 DEF QueueInv, QueueTypes, QueueAccepted, WithinLimits, QuestionsTakeTurns,
                    RepliesFit, RepliesDiffer, Replies, RequestsOf, Requests
<1>4. Requests' = Requests /\ Recorded' = Recorded /\ RecordedIn(queue)' = RecordedIn(queue)
  BY <1>2 DEF Requests, Recorded, RecordedIn
<1>5. SupportPageTypes' /\ QuestionsAreAuthentic' /\ RejectionsAreFinal'
  BY <1>1, <1>2, <1>4
     DEF SupportPageTypes, QuestionsAreAuthentic, RejectionsAreFinal, TypedBy, NoCopy, pageVars
<1>6. PageIsTruthful'
  BY <1>1, <1>2, <1>4 DEF PageIsTruthful, pageVars
<1>7. QED
  BY <1>1, <1>2, <1>3, <1>5, <1>6 DEF SupportInv, WordInv, pageVars

LEMMA SupportInitially == PortalInit /\ SupportInit => SupportInv
<1> SUFFICES ASSUME PortalInit, SupportInit PROVE SupportInv
  OBVIOUS
<1>1. QueueTypes /\ SupportPageTypes
  BY DEF PortalInit, SupportInit, QueueTypes, SupportPageTypes
<1>2. Requests = {} /\ Replies = {} /\ \A actor : RequestsOf(actor) = {}
  BY DEF SupportInit, Requests, Replies, RequestsOf
<1>3. QueueAccepted
  <2>1. Cardinality({}) = 0 /\ limits.queue \in Nat /\ limits.actor \in Nat
    BY <1>1, FS_EmptySet, QueueFacts
  <2>2. WithinLimits
    BY <1>2, <2>1 DEF WithinLimits
  <2>3. QED
    BY <1>2, <2>2 DEF QueueAccepted, QuestionsTakeTurns, RepliesFit, RepliesDiffer
<1>4. WordInv
  BY <1>2 DEF SupportInit, WordInv, QuestionsAreAuthentic, RejectionsAreFinal, PageIsTruthful,
              Requests, RecordedIn, Recorded
<1>5. QED
  BY <1>1, <1>3, <1>4 DEF SupportInv, QueueInv

LEMMA SupportIsInductive == SupportInv /\ [SupportNext]_supportVars => SupportInv'
BY PageLooks, SubmitKeeps, ArriveKeeps, SettleKeeps, ArriveLateKeeps, RespondKeeps,
   SupportResetKeeps, SupportIdles DEF SupportNext

\* support_index() after request(), respond() and the reset: whatever is retried, late,
\* lost or refused, the queue stays one that the portal reads, for any limits.
THEOREM QueueIsAlwaysAccepted == SupportSpec => []QueueAccepted
<1>1. SupportInv => QueueAccepted
  BY DEF SupportInv, QueueInv
<1>2. QED
  BY <1>1, SupportInitially, SupportIsInductive, PTL DEF SupportSpec

\* submit() of the page and request() of the portal: a question is recorded once, under
\* the name and in the run it was typed with, and what the page said of it stays true.
THEOREM PageIsAlwaysTruthful == SupportSpec => []PageIsTruthful
<1>1. SupportInv => PageIsTruthful
  BY DEF SupportInv, WordInv
<1>2. QED
  BY <1>1, SupportInitially, SupportIsInductive, PTL DEF SupportSpec

-------------------------------------------------------------------------------
(***************************************************************************)
(* The synthetic sign-in, its audit and its page.                          *)
(***************************************************************************)


Whats == Verdicts \union {"blocked", "failure", "success", "delivered", "created", "reviewed"}

Authored(post) ==
  /\ post.click \in Nat
  /\ post.click # 0 => /\ post.click \in DOMAIN clicks
                       /\ clicks[post.click] = [run |-> post.run, challenge |-> post.challenge]

Entered == [what : Whats, challenge : Nat, click : Nat]

Flows == [failed : Nat, locked : BOOLEAN, challenge : Nat, signed : BOOLEAN, enabled : BOOLEAN]

Clicking == [run : Nat, act : SsoActs, challenge : Nat, click : Nat \ {0}, mine : BOOLEAN,
             arrived : BOOLEAN]

SignInTypes ==
  /\ run \in Nat /\ mishaps \in Nat /\ issued \in Nat /\ session \in BOOLEAN
  /\ policy \in Policies /\ flow \in Flows
  /\ trail \in Seq(Entered)
  /\ captured \in Seq(Sources)
  /\ clicks \in Seq([run : Nat, challenge : Nat])
  /\ click \in Clicking \union {None} /\ astray \subseteq Clicking
  /\ shown # None => shown.run \in Nat /\ shown.challenge \in Nat

\* The account is locked once an attempt was found blocked, and then disabled; while a
\* challenge is pending nobody is signed in.
LockHolds ==
  /\ flow.locked => ~flow.enabled
  /\ Entries({"blocked"}) # {} => flow.locked
  /\ flow.challenge # 0 => ~flow.signed

VerdictsHold ==
  /\ flow.challenge <= issued
  /\ \A n \in Entries(Verdicts) :
       /\ trail[n].challenge \in 1..issued
       /\ trail[n].click # 0 => trail[n].click \in DOMAIN clicks

ClicksHold ==
  /\ click # None => Authored(click)
  /\ \A post \in astray : Authored(post)

\* What SignInProven says of a session, of the decisions and of the captured reports.
Backed ==
  /\ session => Entries({"approve"}) # {}
  /\ mishaps = 0 =>
       /\ session = flow.signed /\ flow.signed = (Entries({"approve"}) # {})
       /\ session = (Entries({"created"}) # {})

DecidedOnce ==
  \A n \in Entries(Verdicts) :
    /\ \A m \in Entries(Verdicts) \ {n} : trail[m].challenge # trail[n].challenge
    /\ trail[n].challenge # flow.challenge
    /\ trail[n].what = "approve" => \A m \in Entries({"blocked"}) : m > n
    /\ trail[n].click # 0 =>
         /\ clicks[trail[n].click].challenge = trail[n].challenge
         /\ clicks[trail[n].click].run = run

CapturedOnce ==
  \A n \in DOMAIN captured : \A m \in DOMAIN captured \ {n} : captured[m] # captured[n]

\* What the workflow, its session and its audit say of each other.
WorkHolds ==
  /\ flow \in Flows /\ issued \in Nat /\ session \in BOOLEAN /\ mishaps \in Nat
  /\ trail \in Seq(Entered)
  /\ LockHolds /\ VerdictsHold /\ Backed /\ DecidedOnce

\* The page, and what the capture service has reported.
PageTypes ==
  /\ run \in Nat /\ policy \in Policies /\ captured \in Seq(Sources)
  /\ clicks \in Seq([run : Nat, challenge : Nat])
  /\ click \in Clicking \union {None} /\ astray \subseteq Clicking
  /\ shown # None => shown.run \in Nat /\ shown.challenge \in Nat

SignInInv == WorkHolds /\ PageTypes /\ ClicksHold /\ CapturedOnce

-------------------------------------------------------------------------------
LEMMA FirstPart ==
  ASSUME NEW S, NEW s \in Seq(S), NEW m \in 0..Len(s)
  PROVE  /\ SubSeq(s, 1, m) \in Seq(S) /\ Len(SubSeq(s, 1, m)) = m
         /\ \A k \in 1..m : SubSeq(s, 1, m)[k] = s[k]
<1>1. m \in Int /\ \A k \in 1..m : s[k] \in S
  OBVIOUS
<1>2. /\ SubSeq(s, 1, m) \in Seq(S)
      /\ Len(SubSeq(s, 1, m)) = IF 1 <= m THEN m - 1 + 1 ELSE 0
      /\ \A k \in 1..(m - 1 + 1) : SubSeq(s, 1, m)[k] = s[1 + k - 1]
  BY <1>1, SubSeqProperties
<1>3. QED
  BY <1>2

LEMMA Extended ==
  ASSUME NEW S, NEW s \in Seq(S), NEW t \in Seq(S)
  PROVE  /\ s \o t \in Seq(S) /\ Len(s \o t) = Len(s) + Len(t)
         /\ \A n \in DOMAIN s : (s \o t)[n] = s[n]
         /\ \A k \in 1..Len(t) : (s \o t)[Len(s) + k] = t[k]
<1>1. Len(s) \in Nat /\ Len(t) \in Nat /\ DOMAIN s = 1..Len(s)
  OBVIOUS
<1>2. /\ s \o t \in Seq(S) /\ Len(s \o t) = Len(s) + Len(t)
      /\ \A i \in 1..(Len(s) + Len(t)) :
           (s \o t)[i] = IF i <= Len(s) THEN s[i] ELSE t[i - Len(s)]
  BY ConcatProperties
<1>3. QED
  BY <1>1, <1>2

\* The trail has "more" of the entries of a step.
Grown(entries, at, outcome, more) ==
  /\ Len(trail') = Len(trail) + more
  /\ \A n \in DOMAIN trail : trail'[n] = trail[n]
  /\ \A k \in 1..more : trail'[Len(trail) + k] = entries[k]
  /\ more \in {at - 1, at} /\ (outcome = "ok" => more = at)

\* An audited step appends a first part of its entries, and all of them when no append
\* raises.
LEMMA AuditGrows ==
  ASSUME SignInTypes, NEW entries, NEW at, NEW outcome \in Outcomes, Audit(entries, at, outcome),
         entries \in Seq(Entered), Len(entries) \in {1, 2}
  PROVE  /\ mishaps' \in Nat
         /\ mishaps' = 0 => mishaps = 0 /\ outcome = "ok" /\ at = Len(entries)
         /\ trail' \in Seq(Entered)
         /\ \E more \in 0..Len(entries) : Grown(entries, at, outcome, more)
<1> DEFINE more == IF Stored(outcome) THEN at ELSE at - 1
<1>1. /\ at \in DOMAIN entries /\ (outcome = "ok" => at = Len(entries))
      /\ mishaps' = mishaps + (IF outcome = "ok" THEN 0 ELSE 1)
      /\ trail' = trail \o SubSeq(entries, 1, more)
  BY DEF Audit, Appending, Rows
<1>2. /\ DOMAIN entries = 1..Len(entries) /\ at \in 1..Len(entries)
      /\ more \in 0..Len(entries)
  BY <1>1
<1>3. mishaps' \in Nat /\ (mishaps' = 0 => mishaps = 0 /\ outcome = "ok")
  BY <1>1 DEF SignInTypes
<1>4. SubSeq(entries, 1, more) \in Seq(Entered) /\ Len(SubSeq(entries, 1, more)) = more
      /\ \A k \in 1..more : SubSeq(entries, 1, more)[k] = entries[k]
  BY <1>2, FirstPart
<1> HIDE DEF more
<1>5. trail \in Seq(Entered)
  BY DEF SignInTypes
<1>6. /\ trail' \in Seq(Entered) /\ Len(trail') = Len(trail) + more
      /\ \A n \in DOMAIN trail : trail'[n] = trail[n]
      /\ \A k \in 1..more : trail'[Len(trail) + k] = entries[k]
  <2> DEFINE part == SubSeq(entries, 1, more)
  <2>1. part \in Seq(Entered) /\ Len(part) = more /\ \A k \in 1..more : part[k] = entries[k]
    BY <1>4
  <2>2. trail' = trail \o part
    BY <1>1
  <2> HIDE DEF part
  <2>3. /\ trail \o part \in Seq(Entered) /\ Len(trail \o part) = Len(trail) + Len(part)
        /\ \A n \in DOMAIN trail : (trail \o part)[n] = trail[n]
        /\ \A k \in 1..Len(part) : (trail \o part)[Len(trail) + k] = part[k]
    <3>1. \A s, u \in Seq(Entered) :
             /\ s \o u \in Seq(Entered) /\ Len(s \o u) = Len(s) + Len(u)
             /\ \A n \in DOMAIN s : (s \o u)[n] = s[n]
             /\ \A k \in 1..Len(u) : (s \o u)[Len(s) + k] = u[k]
      <4> TAKE s, u \in Seq(Entered)
      <4> QED
        BY Extended
    <3>2. QED
      BY <1>5, <2>1, <3>1, Zenon
  <2>4. QED
    BY <2>1, <2>2, <2>3
<1>7. more \in {at - 1, at} /\ (outcome = "ok" => more = at)
  BY DEF more, Stored
<1>8. Grown(entries, at, outcome, more)
  BY <1>6, <1>7 DEF Grown
<1>9. QED
  BY <1>1, <1>2, <1>3, <1>6, <1>8
-------------------------------------------------------------------------------
\* The trail keeps its entries and may have more.
Longer ==
  /\ trail \in Seq(Entered) /\ trail' \in Seq(Entered) /\ Len(trail) <= Len(trail')
  /\ \A n \in DOMAIN trail : trail'[n] = trail[n]

\* The entries of a kind are the earlier ones and the new ones.
LEMMA EntriesGrow ==
  ASSUME Longer, NEW W
  PROVE  /\ \A n \in Entries(W) : n \in Entries(W)' /\ n \in 1..Len(trail)
         /\ \A n \in Entries(W)' :
              \/ n \in Entries(W)
              \/ n \in (Len(trail) + 1)..Len(trail') /\ trail'[n].what \in W
         /\ \A n \in (Len(trail) + 1)..Len(trail') :
              trail'[n].what \in W => n \in Entries(W)'
<1>1. /\ DOMAIN trail = 1..Len(trail) /\ DOMAIN trail' = 1..Len(trail')
      /\ Len(trail) \in Nat /\ Len(trail') \in Nat
  BY DEF Longer
<1>2. Entries(W) = {n \in 1..Len(trail) : trail[n].what \in W}
  BY <1>1 DEF Entries
<1>3. Entries(W)' = {n \in 1..Len(trail') : trail'[n].what \in W}
  BY <1>1 DEF Entries
<1>4. \A n \in 1..Len(trail) : trail'[n] = trail[n]
  BY <1>1 DEF Longer
<1>5. Len(trail) <= Len(trail')
  BY DEF Longer
<1> HIDE DEF Longer
<1>6. QED
  BY <1>1, <1>2, <1>3, <1>4, <1>5

\* Without a new verdict the decisions stay what they were.
LEMMA DecisionsStay ==
  ASSUME SignInTypes, VerdictsHold, DecidedOnce, Longer,
         \A n \in (Len(trail) + 1)..Len(trail') : trail'[n].what \notin Verdicts,
         issued' \in Nat, issued <= issued', flow'.challenge \in Nat,
         flow'.challenge <= issued',
         flow'.challenge \in {0, flow.challenge} \/ flow'.challenge > issued,
         UNCHANGED <<run, clicks>>
  PROVE  VerdictsHold' /\ DecidedOnce'
<1>1. \A n \in Entries(Verdicts)' : n \in Entries(Verdicts) /\ n \in 1..Len(trail)
  BY EntriesGrow
<1>2. \A n \in 1..Len(trail) : trail'[n] = trail[n]
  BY DEF Longer
<1>3. \A n \in Entries(Verdicts)' : trail'[n] = trail[n]
  BY <1>1, <1>2
<1>4. \A n \in Entries(Verdicts) :
        /\ trail[n].challenge \in 1..issued
        /\ trail[n].click # 0 => trail[n].click \in DOMAIN clicks
  BY DEF VerdictsHold
<1>5. issued \in Nat
  BY DEF SignInTypes
<1>6. VerdictsHold'
  BY <1>1, <1>3, <1>4, <1>5 DEF VerdictsHold
<1>7. DecidedOnce'
  <2> SUFFICES ASSUME NEW n \in Entries(Verdicts)'
               PROVE  /\ \A m \in Entries(Verdicts)' \ {n} :
                           trail'[m].challenge # trail'[n].challenge
                      /\ trail'[n].challenge # flow'.challenge
                      /\ trail'[n].what = "approve" => \A m \in Entries({"blocked"})' : m > n
                      /\ trail'[n].click # 0 =>
                           /\ clicks'[trail'[n].click].challenge = trail'[n].challenge
                           /\ clicks'[trail'[n].click].run = run'
    BY Zenon DEF DecidedOnce
  <2>1. n \in Entries(Verdicts) /\ n \in 1..Len(trail) /\ trail'[n] = trail[n]
    BY <1>1, <1>3
  <2>2. \A m \in Entries(Verdicts)' \ {n} : trail'[m].challenge # trail'[n].challenge
    BY <1>1, <1>3, <2>1 DEF DecidedOnce
  <2>3. trail'[n].challenge # flow'.challenge
    BY <1>4, <1>5, <2>1 DEF DecidedOnce
  <2>4. trail'[n].what = "approve" => \A m \in Entries({"blocked"})' : m > n
    <3>1. \A m \in Entries({"blocked"})' :
            \/ m \in Entries({"blocked"})
            \/ m \in (Len(trail) + 1)..Len(trail')
      BY EntriesGrow
    <3>2. Len(trail) \in Nat
      BY DEF Longer
    <3>3. QED
      BY <2>1, <3>1, <3>2 DEF DecidedOnce
  <2>5. trail'[n].click # 0 =>
          /\ clicks'[trail'[n].click].challenge = trail'[n].challenge
          /\ clicks'[trail'[n].click].run = run'
    BY <2>1 DEF DecidedOnce
  <2>6. QED
    BY <2>2, <2>3, <2>4, <2>5
<1>8. QED
  BY <1>6, <1>7
\* A verdict on the pending challenge is the first: it is new, it is by the action that
\* names the challenge, and an approval finds no blocked attempt.
LEMMA DecisionAdded ==
  ASSUME SignInTypes, VerdictsHold, DecidedOnce, Longer, NEW verdict \in Verdicts,
         NEW by \in Nat, flow.challenge # 0, flow'.challenge = 0,
         Len(trail) < Len(trail'),
         trail'[Len(trail) + 1] = Entry(verdict, flow.challenge, by),
         \A n \in (Len(trail) + 2)..Len(trail') : trail'[n].what \notin Verdicts \union {"blocked"},
         verdict = "approve" => Entries({"blocked"}) = {},
         by # 0 => /\ by \in DOMAIN clicks
                   /\ clicks[by] = [run |-> run, challenge |-> flow.challenge],
         UNCHANGED <<run, clicks, issued>>
  PROVE  VerdictsHold' /\ DecidedOnce'
<1> DEFINE new == Len(trail) + 1
<1>1. /\ Len(trail) \in Nat /\ Len(trail') \in Nat
      /\ \A n \in 1..Len(trail) : trail'[n] = trail[n]
  BY DEF Longer
<1>2. /\ trail'[new].what = verdict /\ trail'[new].challenge = flow.challenge
      /\ trail'[new].click = by
  BY DEF Entry
<1>3. \A n \in Entries(Verdicts)' :
        (n \in Entries(Verdicts) /\ n \in 1..Len(trail) /\ trail'[n] = trail[n]) \/ n = new
  <2> SUFFICES ASSUME NEW n \in Entries(Verdicts)', n # new
               PROVE  n \in Entries(Verdicts) /\ n \in 1..Len(trail) /\ trail'[n] = trail[n]
    OBVIOUS
  <2>1. \/ n \in Entries(Verdicts)
        \/ n \in (Len(trail) + 1)..Len(trail') /\ trail'[n].what \in Verdicts
    BY EntriesGrow
  <2>2. n \in Entries(Verdicts)
    <3>1. CASE n \in (Len(trail) + 1)..Len(trail') /\ trail'[n].what \in Verdicts
      <4>1. n \in (Len(trail) + 2)..Len(trail')
        BY <1>1, <3>1
      <4>2. QED
        BY <3>1, <4>1
    <3>2. QED
      BY <2>1, <3>1
  <2>3. n \in 1..Len(trail)
    BY <2>2, EntriesGrow
  <2>4. QED
    BY <1>1, <2>2, <2>3
<1>4. \A m \in Entries({"blocked"})' : m \in Entries({"blocked"})
  <2> SUFFICES ASSUME NEW m \in Entries({"blocked"})'
               PROVE  m \in Entries({"blocked"})
    OBVIOUS
  <2>1. \/ m \in Entries({"blocked"})
        \/ m \in (Len(trail) + 1)..Len(trail') /\ trail'[m].what \in {"blocked"}
    BY EntriesGrow
  <2>2. CASE m \in (Len(trail) + 1)..Len(trail') /\ trail'[m].what \in {"blocked"}
    <3>1. m = new \/ m \in (Len(trail) + 2)..Len(trail')
      BY <1>1, <2>2
    <3>2. verdict # "blocked"
      BY DEF Verdicts
    <3>3. QED
      BY <1>2, <2>2, <3>1, <3>2
  <2>3. QED
    BY <2>1, <2>2
<1>5. /\ issued \in Nat /\ flow.challenge \in Nat /\ flow.challenge <= issued
      /\ \A n \in Entries(Verdicts) :
           /\ trail[n].challenge \in 1..issued
           /\ trail[n].click # 0 => trail[n].click \in DOMAIN clicks
  BY DEF SignInTypes, VerdictsHold, Flows
<1> HIDE DEF new
<1>6. VerdictsHold'
  <2>1. flow'.challenge <= issued'
    BY <1>5
  <2>2. ASSUME NEW n \in Entries(Verdicts)'
        PROVE  /\ trail'[n].challenge \in 1..issued'
               /\ trail'[n].click # 0 => trail'[n].click \in DOMAIN clicks'
    BY <1>2, <1>3, <1>5
  <2>3. QED
    BY <2>1, <2>2 DEF VerdictsHold
<1>7. DecidedOnce'
  <2> SUFFICES ASSUME NEW n \in Entries(Verdicts)'
               PROVE  /\ \A m \in Entries(Verdicts)' \ {n} :
                           trail'[m].challenge # trail'[n].challenge
                      /\ trail'[n].challenge # flow'.challenge
                      /\ trail'[n].what = "approve" => \A m \in Entries({"blocked"})' : m > n
                      /\ trail'[n].click # 0 =>
                           /\ clicks'[trail'[n].click].challenge = trail'[n].challenge
                           /\ clicks'[trail'[n].click].run = run'
    BY Zenon DEF DecidedOnce
  <2>1. \A m \in Entries(Verdicts)' \ {n} : trail'[m].challenge # trail'[n].challenge
    BY <1>2, <1>3 DEF DecidedOnce
  <2>2. trail'[n].challenge # flow'.challenge
    BY <1>2, <1>3, <1>5
  <2>3. trail'[n].what = "approve" => \A m \in Entries({"blocked"})' : m > n
    BY <1>2, <1>3, <1>4 DEF DecidedOnce
  <2>4. trail'[n].click # 0 =>
          /\ clicks'[trail'[n].click].challenge = trail'[n].challenge
          /\ clicks'[trail'[n].click].run = run'
    BY <1>2, <1>3 DEF DecidedOnce
  <2>5. QED
    BY <2>1, <2>2, <2>3, <2>4
<1>8. QED
  BY <1>6, <1>7

-------------------------------------------------------------------------------
\* The entries an audited step may write.
LEMMA Written ==
  ASSUME NEW w \in Whats, NEW v \in Whats, NEW c \in Nat, NEW by \in Nat
  PROVE  /\ <<Entry(w, c, by)>> \in Seq(Entered) /\ Len(<<Entry(w, c, by)>>) = 1
         /\ <<Entry(w, c, by)>>[1] = Entry(w, c, by)
         /\ <<Entry(w, c, by), Entry(v, c, by)>> \in Seq(Entered)
         /\ Len(<<Entry(w, c, by), Entry(v, c, by)>>) = 2
         /\ <<Entry(w, c, by), Entry(v, c, by)>>[1] = Entry(w, c, by)
         /\ <<Entry(w, c, by), Entry(v, c, by)>>[2] = Entry(v, c, by)
<1>1. Entry(w, c, by) \in Entered /\ Entry(v, c, by) \in Entered
  BY DEF Entry, Entered
<1>2. QED
  BY <1>1

\* A step with one entry, and one with two.
LEMMA AuditOne ==
  ASSUME SignInTypes, NEW w \in Whats, NEW c \in Nat, NEW by \in Nat, NEW at,
         NEW outcome \in Outcomes, Audit(<<Entry(w, c, by)>>, at, outcome)
  PROVE  /\ mishaps' \in Nat /\ (mishaps' = 0 => mishaps = 0) /\ Longer
         /\ \/ Len(trail') = Len(trail) /\ mishaps' # 0
            \/ /\ Len(trail') = Len(trail) + 1
               /\ trail'[Len(trail) + 1] = Entry(w, c, by)
<1> DEFINE entries == <<Entry(w, c, by)>>
<1>1. entries \in Seq(Entered) /\ Len(entries) = 1 /\ entries[1] = Entry(w, c, by)
  BY Written
<1>2. Audit(entries, at, outcome)
  OBVIOUS
<1> HIDE DEF entries
<1>3. PICK more \in 0..Len(entries) : Grown(entries, at, outcome, more)
  BY <1>1, <1>2, AuditGrows
<1>4. /\ Len(trail') = Len(trail) + more
      /\ \A n \in DOMAIN trail : trail'[n] = trail[n]
      /\ \A k \in 1..more : trail'[Len(trail) + k] = entries[k]
      /\ more \in {at - 1, at} /\ (outcome = "ok" => more = at)
  BY <1>3 DEF Grown
<1>5. /\ mishaps' \in Nat /\ trail' \in Seq(Entered)
      /\ mishaps' = 0 => mishaps = 0 /\ outcome = "ok" /\ at = Len(entries)
  BY <1>1, <1>2, AuditGrows
<1>6. trail \in Seq(Entered) /\ Len(trail) \in Nat
  BY DEF SignInTypes
<1>7. Longer
  BY <1>4, <1>5, <1>6 DEF Longer
<1>8. more \in {0, 1} /\ (mishaps' = 0 => more = 1)
  BY <1>1, <1>4, <1>5
<1>9. QED
  BY <1>1, <1>4, <1>5, <1>7, <1>8, <1>6

LEMMA AuditTwo ==
  ASSUME SignInTypes, NEW w \in Whats, NEW v \in Whats, NEW c \in Nat, NEW by \in Nat,
         NEW at, NEW outcome \in Outcomes,
         Audit(<<Entry(w, c, by), Entry(v, c, by)>>, at, outcome)
  PROVE  /\ mishaps' \in Nat /\ (mishaps' = 0 => mishaps = 0 /\ at = 2) /\ Longer
         /\ \/ Len(trail') = Len(trail) /\ mishaps' # 0 /\ at = 1
            \/ /\ Len(trail') = Len(trail) + 1 /\ mishaps' # 0
               /\ trail'[Len(trail) + 1] = Entry(w, c, by)
            \/ /\ Len(trail') = Len(trail) + 2
               /\ trail'[Len(trail) + 1] = Entry(w, c, by)
               /\ trail'[Len(trail) + 2] = Entry(v, c, by)
<1> DEFINE entries == <<Entry(w, c, by), Entry(v, c, by)>>
<1>1. /\ entries \in Seq(Entered) /\ Len(entries) = 2
      /\ entries[1] = Entry(w, c, by) /\ entries[2] = Entry(v, c, by)
  BY Written
<1>2. Audit(entries, at, outcome)
  OBVIOUS
<1>3. at \in DOMAIN entries
  BY <1>2 DEF Audit
<1> HIDE DEF entries
<1>4. PICK more \in 0..Len(entries) : Grown(entries, at, outcome, more)
  BY <1>1, <1>2, AuditGrows
<1>5. /\ Len(trail') = Len(trail) + more
      /\ \A n \in DOMAIN trail : trail'[n] = trail[n]
      /\ \A k \in 1..more : trail'[Len(trail) + k] = entries[k]
      /\ more \in {at - 1, at} /\ (outcome = "ok" => more = at)
  BY <1>4 DEF Grown
<1>6. /\ mishaps' \in Nat /\ trail' \in Seq(Entered)
      /\ mishaps' = 0 => mishaps = 0 /\ outcome = "ok" /\ at = Len(entries)
  BY <1>1, <1>2, AuditGrows
<1>7. trail \in Seq(Entered) /\ Len(trail) \in Nat
  BY DEF SignInTypes
<1>8. Longer
  BY <1>5, <1>6, <1>7 DEF Longer
<1>9. more \in {0, 1, 2} /\ at \in {1, 2} /\ (mishaps' = 0 => more = 2 /\ at = 2)
  BY <1>3, <1>1, <1>5, <1>6
<1>10. CASE more = 0
  BY <1>5, <1>6, <1>7, <1>8, <1>9, <1>10
<1>11. CASE more = 1
  BY <1>1, <1>5, <1>6, <1>7, <1>8, <1>9, <1>11
<1>12. CASE more = 2
  BY <1>1, <1>5, <1>6, <1>7, <1>8, <1>9, <1>12
<1>13. QED
  BY <1>9, <1>10, <1>11, <1>12

-------------------------------------------------------------------------------
LEMMA LocksStay ==
  ASSUME LockHolds, Longer, flow.locked => flow'.locked, flow'.locked => ~flow'.enabled,
         flow'.challenge # 0 => ~flow'.signed,
         \A n \in (Len(trail) + 1)..Len(trail') : trail'[n].what = "blocked" => flow'.locked
  PROVE  LockHolds'
<1>1. ASSUME NEW n \in Entries({"blocked"})' PROVE flow'.locked
  <2>1. \/ n \in Entries({"blocked"})
        \/ n \in (Len(trail) + 1)..Len(trail') /\ trail'[n].what \in {"blocked"}
    BY EntriesGrow
  <2>2. QED
    BY <2>1 DEF LockHolds
<1>2. Entries({"blocked"})' # {} => flow'.locked
  BY <1>1
<1>3. QED
  BY <1>2 DEF LockHolds

LEMMA BackedStays ==
  ASSUME Backed, Longer, session' = session, flow'.signed = flow.signed,
         mishaps' = 0 => mishaps = 0,
         \A n \in (Len(trail) + 1)..Len(trail') : trail'[n].what \notin {"approve", "created"}
  PROVE  Backed'
<1>1. Entries({"approve"})' = Entries({"approve"})
  <2>1. /\ \A n \in Entries({"approve"}) : n \in Entries({"approve"})'
        /\ \A n \in Entries({"approve"})' :
             \/ n \in Entries({"approve"})
             \/ n \in (Len(trail) + 1)..Len(trail') /\ trail'[n].what \in {"approve"}
    BY EntriesGrow
  <2>2. QED
    BY <2>1
<1>2. Entries({"created"})' = Entries({"created"})
  <2>1. /\ \A n \in Entries({"created"}) : n \in Entries({"created"})'
        /\ \A n \in Entries({"created"})' :
             \/ n \in Entries({"created"})
             \/ n \in (Len(trail) + 1)..Len(trail') /\ trail'[n].what \in {"created"}
    BY EntriesGrow
  <2>2. QED
    BY <2>1
<1>3. QED
  BY <1>1, <1>2 DEF Backed

\* A step with one entry that is no verdict: a blocked or failed sign-in, a review.
LEMMA QuietKeeps ==
  ASSUME SignInTypes, WorkHolds, NEW w \in {"blocked", "failure", "reviewed"}, NEW by \in Nat,
         NEW at, NEW outcome \in Outcomes, Audit(<<Entry(w, 0, by)>>, at, outcome),
         flow' \in Flows, flow'.signed = flow.signed, flow'.challenge = flow.challenge,
         w = "blocked" => flow'.locked, flow.locked => flow'.locked,
         flow'.locked => ~flow'.enabled,
         UNCHANGED <<run, clicks, session, issued>>
  PROVE  WorkHolds'
<1>1. w \in Whats /\ w \notin Verdicts \union {"approve", "created"}
  BY DEF Whats, Verdicts
<1>2. /\ mishaps' \in Nat /\ (mishaps' = 0 => mishaps = 0) /\ Longer
      /\ \/ Len(trail') = Len(trail) /\ mishaps' # 0
         \/ /\ Len(trail') = Len(trail) + 1
            /\ trail'[Len(trail) + 1] = Entry(w, 0, by)
  BY <1>1, AuditOne
<1>3. Len(trail) \in Nat /\ trail' \in Seq(Entered)
  BY <1>2 DEF Longer
<1>4. \A n \in (Len(trail) + 1)..Len(trail') : trail'[n].what = w
  BY <1>2, <1>3 DEF Entry
<1>5. LockHolds'
  <2>1. flow'.challenge # 0 => ~flow'.signed
    BY DEF WorkHolds, LockHolds
  <2>2. LockHolds
    BY DEF WorkHolds
  <2>3. QED
    BY <1>2, <1>4, <2>1, <2>2, LocksStay
<1>6. Backed'
  <2>1. Backed
    BY DEF WorkHolds
  <2>2. QED
    BY <1>1, <1>2, <1>4, <2>1, BackedStays
<1>7. VerdictsHold' /\ DecidedOnce'
  <2>1. VerdictsHold /\ DecidedOnce
    BY DEF WorkHolds
  <2>2. /\ issued' \in Nat /\ issued <= issued' /\ flow'.challenge \in Nat
        /\ flow'.challenge <= issued'
    BY <2>1 DEF SignInTypes, VerdictsHold, Flows
  <2>3. \A n \in (Len(trail) + 1)..Len(trail') : trail'[n].what \notin Verdicts
    BY <1>1, <1>4
  <2>4. QED
    BY <1>2, <2>1, <2>2, <2>3, DecisionsStay
<1>8. QED
  BY <1>2, <1>3, <1>5, <1>6, <1>7 DEF WorkHolds, SignInTypes
\* The step that delivers a challenge.
LEMMA ChallengesKeep ==
  ASSUME SignInTypes, WorkHolds, NEW by \in Nat, NEW at, NEW outcome \in Outcomes,
         SignInChallenges(by, at, outcome), UNCHANGED <<run, clicks>>
  PROVE  WorkHolds'
<1>1. /\ MaySignIn /\ issued' = issued + 1 /\ session' = session
      /\ flow' = [flow EXCEPT !.challenge = issued + 1]
      /\ Audit(<<Entry("success", issued + 1, by), Entry("delivered", issued + 1, by)>>,
               at, outcome)
  BY DEF SignInChallenges
<1>2. issued \in Nat /\ flow \in Flows /\ session \in BOOLEAN
  BY DEF SignInTypes
<1>3. /\ flow' \in Flows /\ flow'.challenge = issued + 1 /\ flow'.signed = flow.signed
      /\ flow'.locked = flow.locked /\ flow'.enabled = flow.enabled /\ ~flow.signed
  <2>1. ~flow.signed
    BY <1>1 DEF MaySignIn
  <2>2. flow' \in Flows
    BY <1>1, <1>2 DEF Flows
  <2>3. flow'.challenge = issued + 1 /\ flow'.signed = flow.signed
    BY <1>1, <1>2 DEF Flows
  <2>4. flow'.locked = flow.locked /\ flow'.enabled = flow.enabled
    BY <1>1, <1>2 DEF Flows
  <2>5. QED
    BY <2>1, <2>2, <2>3, <2>4
<1>4. PICK c \in Nat : c = issued + 1
  BY <1>2
<1>5. "success" \in Whats /\ "delivered" \in Whats
  BY DEF Whats
<1>6. Audit(<<Entry("success", c, by), Entry("delivered", c, by)>>, at, outcome)
  BY <1>1, <1>4
<1>7. /\ mishaps' \in Nat /\ (mishaps' = 0 => mishaps = 0 /\ at = 2) /\ Longer
      /\ \/ Len(trail') = Len(trail) /\ mishaps' # 0 /\ at = 1
         \/ /\ Len(trail') = Len(trail) + 1 /\ mishaps' # 0
            /\ trail'[Len(trail) + 1] = Entry("success", c, by)
         \/ /\ Len(trail') = Len(trail) + 2
            /\ trail'[Len(trail) + 1] = Entry("success", c, by)
            /\ trail'[Len(trail) + 2] = Entry("delivered", c, by)
  BY <1>5, <1>6, AuditTwo
<1>8. Len(trail) \in Nat /\ trail' \in Seq(Entered)
  BY <1>7 DEF Longer
<1>9. \A n \in (Len(trail) + 1)..Len(trail') : trail'[n].what \in {"success", "delivered"}
  BY <1>7, <1>8 DEF Entry
<1>10. LockHolds'
  <2>1. LockHolds
    BY DEF WorkHolds
  <2>2. flow'.locked => ~flow'.enabled
    BY <1>3, <2>1 DEF LockHolds
  <2>3. \A n \in (Len(trail) + 1)..Len(trail') : trail'[n].what # "blocked"
    BY <1>9
  <2>4. QED
    BY <1>3, <1>7, <2>1, <2>2, <2>3, LocksStay
<1>11. Backed'
  <2>1. Backed
    BY DEF WorkHolds
  <2>2. QED
    BY <1>1, <1>3, <1>7, <1>9, <2>1, BackedStays
<1>12. VerdictsHold' /\ DecidedOnce'
  <2>1. VerdictsHold /\ DecidedOnce
    BY DEF WorkHolds
  <2>2. \A n \in (Len(trail) + 1)..Len(trail') : trail'[n].what \notin Verdicts
    BY <1>9 DEF Verdicts
  <2>3. /\ issued' \in Nat /\ issued <= issued' /\ flow'.challenge \in Nat
        /\ flow'.challenge <= issued' /\ flow'.challenge > issued
    BY <1>1, <1>2, <1>3
  <2>4. QED
    BY <1>7, <2>1, <2>2, <2>3, DecisionsStay
<1>13. issued' \in Nat /\ session' \in BOOLEAN
  BY <1>1, <1>2
<1>14. QED
  BY <1>3, <1>7, <1>8, <1>10, <1>11, <1>12, <1>13 DEF WorkHolds

\* A verdict other than an approval.
LEMMA VerdictKeeps ==
  ASSUME SignInTypes, WorkHolds, NEW w \in Verdicts \ {"approve"}, NEW by \in Nat, NEW at,
         NEW outcome \in Outcomes, flow.challenge # 0,
         flow' = AnsweredFlow(w), Audit(<<Entry(w, flow.challenge, by)>>, at, outcome),
         by # 0 => /\ by \in DOMAIN clicks
                   /\ clicks[by] = [run |-> run, challenge |-> flow.challenge],
         UNCHANGED <<run, clicks, session, issued>>
  PROVE  WorkHolds'
<1>1. /\ issued \in Nat /\ flow \in Flows /\ session \in BOOLEAN
      /\ flow.challenge \in Nat /\ flow.signed \in BOOLEAN
  BY DEF SignInTypes, Flows
<1>2. /\ LockHolds /\ VerdictsHold /\ Backed /\ DecidedOnce
  BY DEF WorkHolds
<1>3. /\ flow' \in Flows /\ flow'.challenge = 0 /\ flow'.signed = flow.signed
      /\ flow'.locked = flow.locked /\ flow'.enabled = flow.enabled
  BY <1>1, <1>2 DEF Flows, AnsweredFlow, LockHolds
<1>4. PICK c \in Nat : c = flow.challenge
  BY <1>1
<1>5. w \in Whats /\ w \notin {"approve", "created", "blocked"}
  BY DEF Whats, Verdicts
<1>6. Audit(<<Entry(w, c, by)>>, at, outcome)
  BY <1>4
<1>7. /\ mishaps' \in Nat /\ (mishaps' = 0 => mishaps = 0) /\ Longer
      /\ \/ Len(trail') = Len(trail) /\ mishaps' # 0
         \/ /\ Len(trail') = Len(trail) + 1
            /\ trail'[Len(trail) + 1] = Entry(w, c, by)
  BY <1>5, <1>6, AuditOne
<1>8. Len(trail) \in Nat /\ trail' \in Seq(Entered)
  BY <1>7 DEF Longer
<1>9. \A n \in (Len(trail) + 1)..Len(trail') : trail'[n].what = w
  BY <1>7, <1>8 DEF Entry
<1>10. LockHolds'
  <2>1. flow'.locked => ~flow'.enabled
    BY <1>2, <1>3 DEF LockHolds
  <2>2. \A n \in (Len(trail) + 1)..Len(trail') : trail'[n].what # "blocked"
    BY <1>5, <1>9
  <2>3. QED
    BY <1>2, <1>3, <1>7, <2>1, <2>2, LocksStay
<1>11. Backed'
  <2>1. \A n \in (Len(trail) + 1)..Len(trail') : trail'[n].what \notin {"approve", "created"}
    BY <1>5, <1>9
  <2>2. QED
    BY <1>2, <1>3, <1>7, <2>1, BackedStays
<1>12. VerdictsHold' /\ DecidedOnce'
  <2>1. CASE Len(trail') = Len(trail)
    <3>1. \A n \in (Len(trail) + 1)..Len(trail') : trail'[n].what \notin Verdicts
      BY <1>8, <2>1
    <3>2. /\ issued' \in Nat /\ issued <= issued' /\ flow'.challenge \in Nat
          /\ flow'.challenge <= issued'
      BY <1>1, <1>3
    <3>3. QED
      BY <1>2, <1>3, <1>7, <3>1, <3>2, DecisionsStay
  <2>2. CASE /\ Len(trail') = Len(trail) + 1
             /\ trail'[Len(trail) + 1] = Entry(w, c, by)
    <3>1. trail'[Len(trail) + 1] = Entry(w, flow.challenge, by) /\ Len(trail) < Len(trail')
      BY <1>4, <1>8, <2>2
    <3>2. \A n \in (Len(trail) + 2)..Len(trail') :
            trail'[n].what \notin Verdicts \union {"blocked"}
      BY <1>8, <2>2
    <3>3. QED
      BY <1>2, <1>3, <1>7, <3>1, <3>2, DecisionAdded
  <2>3. QED
    BY <1>7, <2>1, <2>2
<1>13. QED
  BY <1>1, <1>3, <1>7, <1>8, <1>10, <1>11, <1>12 DEF WorkHolds

\* An approval: the session is created before the second entry is written.
LEMMA ApprovalKeeps ==
  ASSUME SignInTypes, WorkHolds, NEW by \in Nat, NEW at, NEW outcome \in Outcomes,
         flow.challenge # 0, flow.enabled, flow' = AnsweredFlow("approve"),
         Audit(<<Entry("approve", flow.challenge, by), Entry("created", flow.challenge, by)>>,
               at, outcome),
         session' = (session \/ at = 2),
         by # 0 => /\ by \in DOMAIN clicks
                   /\ clicks[by] = [run |-> run, challenge |-> flow.challenge],
         UNCHANGED <<run, clicks, issued>>
  PROVE  WorkHolds'
<1>1. /\ issued \in Nat /\ flow \in Flows /\ session \in BOOLEAN
      /\ flow.challenge \in Nat /\ flow.signed \in BOOLEAN
  BY DEF SignInTypes, Flows
<1>2. /\ LockHolds /\ VerdictsHold /\ Backed /\ DecidedOnce
  BY DEF WorkHolds
<1>3. /\ flow' \in Flows /\ flow'.challenge = 0 /\ flow'.signed = TRUE /\ ~flow.signed
      /\ flow'.locked = flow.locked /\ flow'.enabled = flow.enabled
      /\ ~flow.locked /\ Entries({"blocked"}) = {}
  BY <1>1, <1>2 DEF Flows, AnsweredFlow, LockHolds
<1>4. PICK c \in Nat : c = flow.challenge
  BY <1>1
<1>5. "approve" \in Whats /\ "created" \in Whats /\ "approve" \in Verdicts
  BY DEF Whats, Verdicts
<1>6. Audit(<<Entry("approve", c, by), Entry("created", c, by)>>, at, outcome)
  BY <1>4
<1>7. /\ mishaps' \in Nat /\ (mishaps' = 0 => mishaps = 0 /\ at = 2) /\ Longer
      /\ \/ Len(trail') = Len(trail) /\ mishaps' # 0 /\ at = 1
         \/ /\ Len(trail') = Len(trail) + 1 /\ mishaps' # 0
            /\ trail'[Len(trail) + 1] = Entry("approve", c, by)
         \/ /\ Len(trail') = Len(trail) + 2
            /\ trail'[Len(trail) + 1] = Entry("approve", c, by)
            /\ trail'[Len(trail) + 2] = Entry("created", c, by)
  BY <1>5, <1>6, AuditTwo
<1>8. Len(trail) \in Nat /\ trail' \in Seq(Entered)
  BY <1>7 DEF Longer
<1>9. \A n \in (Len(trail) + 1)..Len(trail') : trail'[n].what \in {"approve", "created"}
  BY <1>7, <1>8 DEF Entry
<1>10. LockHolds'
  <2>1. \A n \in (Len(trail) + 1)..Len(trail') : trail'[n].what # "blocked"
    BY <1>9
  <2>2. QED
    BY <1>2, <1>3, <1>7, <2>1, LocksStay
<1>11. VerdictsHold' /\ DecidedOnce'
  <2>1. CASE Len(trail') = Len(trail)
    <3>1. \A n \in (Len(trail) + 1)..Len(trail') : trail'[n].what \notin Verdicts
      BY <1>8, <2>1
    <3>2. /\ issued' \in Nat /\ issued <= issued' /\ flow'.challenge \in Nat
          /\ flow'.challenge <= issued'
      BY <1>1, <1>3
    <3>3. QED
      BY <1>2, <1>3, <1>7, <3>1, <3>2, DecisionsStay
  <2>2. CASE Len(trail') # Len(trail)
    <3>1. /\ trail'[Len(trail) + 1] = Entry("approve", flow.challenge, by)
          /\ Len(trail) < Len(trail')
      BY <1>4, <1>7, <1>8, <2>2
    <3>2. \A n \in (Len(trail) + 2)..Len(trail') :
            trail'[n].what \notin Verdicts \union {"blocked"}
      BY <1>7, <1>8, <2>2 DEF Verdicts, Entry
    <3>3. QED
      BY <1>2, <1>3, <1>5, <1>7, <3>1, <3>2, DecisionAdded
  <2>3. QED
    BY <2>1, <2>2
<1>12. session' => Entries({"approve"})' # {}
  <2>1. CASE at = 2
    <3>1. /\ Len(trail) + 1 \in (Len(trail) + 1)..Len(trail')
          /\ trail'[Len(trail) + 1].what \in {"approve"}
      BY <1>7, <1>8, <2>1 DEF Entry
    <3>2. QED
      BY <1>7, <3>1, EntriesGrow
  <2>2. CASE session
    <3>1. Entries({"approve"}) # {}
      BY <1>2, <2>2 DEF Backed
    <3>2. QED
      BY <1>7, <3>1, EntriesGrow
  <2>3. QED
    BY <1>1, <2>1, <2>2
<1>13. mishaps' = 0 => session' /\ Entries({"approve"})' # {} /\ Entries({"created"})' # {}
  <2> SUFFICES ASSUME mishaps' = 0
               PROVE  session' /\ Entries({"approve"})' # {} /\ Entries({"created"})' # {}
    OBVIOUS
  <2>1. session'
    BY <1>7
  <2>2. /\ Len(trail) + 2 \in (Len(trail) + 1)..Len(trail')
        /\ trail'[Len(trail) + 2].what \in {"created"}
    BY <1>7, <1>8 DEF Entry
  <2>3. Entries({"created"})' # {}
    BY <1>7, <2>2, EntriesGrow
  <2>4. QED
    BY <1>12, <2>1, <2>3
<1>14. session' \in BOOLEAN
  BY <1>1
<1>15. Backed'
  BY <1>3, <1>12, <1>13, <1>14 DEF Backed
<1>16. QED
  BY <1>1, <1>3, <1>7, <1>8, <1>10, <1>11, <1>14, <1>15 DEF WorkHolds

-------------------------------------------------------------------------------
\* The steps.
LEMMA InvTypes ==
  ASSUME SignInInv
  PROVE  SignInTypes
BY DEF SignInInv, SignInTypes, WorkHolds, PageTypes

\* The state in which the invariant is a consequence of its parts.
LEMMA InvProven ==
  ASSUME SignInInv
  PROVE  SignInProven
BY DEF SignInInv, WorkHolds, SignInProven, Backed, DecidedOnce, CapturedOnce

LEMMA WorkUntouched ==
  ASSUME WorkHolds, UNCHANGED <<run, mishaps, flow, session, issued, trail, clicks>>
  PROVE  WorkHolds'
BY DEF WorkHolds, LockHolds, VerdictsHold, Backed, DecidedOnce, Entries

LEMMA FlowChanged ==
  ASSUME NEW f \in Flows, NEW n \in Nat, NEW l \in BOOLEAN, NEW e \in BOOLEAN
  PROVE  [f EXCEPT !.failed = n, !.locked = l, !.enabled = e] \in Flows
BY DEF Flows

\* An action that arrives, whoever sent it.
LEMMA HandleKeeps ==
  ASSUME SignInInv, NEW post, Authored(post), Handle(post), clicks' = clicks
  PROVE  WorkHolds' /\ UNCHANGED <<run, policy, captured>>
<1>1. PICK at \in {1, 2}, outcome \in Outcomes : HandleSso(post, at, outcome)
  BY DEF Handle
<1>2. SignInTypes /\ WorkHolds /\ LockHolds
  BY InvTypes DEF SignInInv, WorkHolds
<1>3. /\ flow \in Flows /\ issued \in Nat /\ session \in BOOLEAN /\ flow.failed \in Nat
      /\ flow.locked \in BOOLEAN /\ flow.enabled \in BOOLEAN
  BY <1>2 DEF SignInTypes, Flows
<1>4. post.click \in Nat
  BY DEF Authored
<1>5. CASE ~Allowed(post)
  <2>1. UNCHANGED <<run, mishaps, flow, session, issued, trail, policy, captured>>
    BY <1>1, <1>5 DEF HandleSso, portalVars, ssoState
  <2>2. QED
    BY <1>2, <2>1, WorkUntouched
<1>6. CASE Allowed(post)
  <2>1. UNCHANGED <<run, policy, captured>>
    BY <1>1, <1>6 DEF HandleSso
  <2>2. CASE SignInBlocked(post.click, at, outcome)
    <3>1. PICK by \in Nat : by = post.click
      BY <1>4
    <3>2. /\ ~flow.enabled \/ flow.locked
          /\ flow' = [flow EXCEPT !.locked = TRUE]
          /\ Audit(<<Entry("blocked", 0, by)>>, at, outcome)
          /\ UNCHANGED <<session, issued>>
      BY <2>2, <3>1 DEF SignInBlocked
    <3>3. ~flow.enabled
      BY <1>2, <3>2 DEF LockHolds
    <3>4. /\ flow' \in Flows /\ flow'.signed = flow.signed
          /\ flow'.challenge = flow.challenge /\ flow'.locked /\ ~flow'.enabled
      BY <1>3, <3>2, <3>3 DEF Flows
    <3>5. QED
      BY <1>2, <2>1, <3>2, <3>4, QuietKeeps
  <2>3. CASE SignInFails(post.click, at, outcome)
    <3>1. PICK by \in Nat : by = post.click
      BY <1>4
    <3> DEFINE locks == flow.failed + 1 >= policy.lockout
    <3>2. /\ MaySignIn
          /\ flow' = [flow EXCEPT !.failed = @ + 1, !.locked = locks, !.enabled = @ /\ ~locks]
          /\ Audit(<<Entry(IF locks THEN "blocked" ELSE "failure", 0, by)>>, at, outcome)
          /\ UNCHANGED <<session, issued>>
      BY <2>3, <3>1 DEF SignInFails
    <3>3. ~flow.locked
      BY <3>2 DEF MaySignIn
    <3>4. locks \in BOOLEAN
      OBVIOUS
    <3> HIDE DEF locks
    <3>5. PICK w \in {"blocked", "failure", "reviewed"} :
            w = IF locks THEN "blocked" ELSE "failure"
      OBVIOUS
    <3>6. flow' \in Flows
      <4> DEFINE enabled == flow.enabled /\ ~locks
                 failed == flow.failed + 1
      <4>1. flow' = [flow EXCEPT !.failed = failed, !.locked = locks, !.enabled = enabled]
        BY <3>2
      <4>2. enabled \in BOOLEAN /\ failed \in Nat
        BY <1>3
      <4> HIDE DEF enabled, failed
      <4>3. QED
        BY <1>3, <3>4, <4>1, <4>2, FlowChanged
    <3>7. flow'.signed = flow.signed /\ flow'.challenge = flow.challenge
      BY <1>3, <3>2 DEF Flows
    <3>8. flow'.locked = locks /\ (locks => ~flow'.enabled)
      BY <1>3, <3>2, <3>4 DEF Flows
    <3>9. Audit(<<Entry(w, 0, by)>>, at, outcome)
      BY <3>2, <3>5
    <3>10. /\ w = "blocked" => flow'.locked
           /\ flow'.locked => ~flow'.enabled
      BY <3>4, <3>5, <3>8
    <3>11. QED
      BY <1>2, <2>1, <3>2, <3>3, <3>6, <3>7, <3>9, <3>10, QuietKeeps
  <2>4. CASE SignInChallenges(post.click, at, outcome)
    <3>1. PICK by \in Nat : by = post.click
      BY <1>4
    <3>2. SignInChallenges(by, at, outcome)
      BY <2>4, <3>1
    <3>3. QED
      BY <1>2, <2>1, <3>2, ChallengesKeep
  <2>5. CASE ReviewSessions(post.click, at, outcome)
    <3>1. PICK by \in Nat : by = post.click
      BY <1>4
    <3>2. /\ Audit(<<Entry("reviewed", 0, by)>>, at, outcome)
          /\ UNCHANGED <<flow, session, issued>>
      BY <2>5, <3>1 DEF ReviewSessions
    <3>3. flow'.locked => ~flow'.enabled
      BY <1>2, <3>2 DEF LockHolds
    <3>4. QED
      BY <1>2, <1>3, <2>1, <3>2, <3>3, QuietKeeps
  <2>6. ASSUME NEW decision \in {"approve", "deny", "expired"},
               Decide(decision, post.click, at, outcome), post.act \in {"approve", "deny"}
        PROVE  WorkHolds'
    <3>1. PICK by \in Nat : by = post.click
      BY <1>4
    <3>2. flow.challenge # 0 /\ post.challenge = flow.challenge /\ post.run = run
      BY <1>6, <2>6 DEF Allowed
    <3>3. by # 0 => /\ by \in DOMAIN clicks
                    /\ clicks[by] = [run |-> run, challenge |-> flow.challenge]
      BY <3>1, <3>2 DEF Authored
    <3> DEFINE verdict == IF flow.enabled THEN decision ELSE "cancelled"
    <3>4. /\ flow' = AnsweredFlow(verdict)
          /\ IF verdict = "approve"
             THEN /\ Audit(<<Entry("approve", flow.challenge, by),
                             Entry("created", flow.challenge, by)>>, at, outcome)
                  /\ session' = (session \/ at = 2)
             ELSE Audit(<<Entry(verdict, flow.challenge, by)>>, at, outcome) /\ session' = session
          /\ issued' = issued
      BY <2>6, <3>1 DEF Decide
    <3>5. CASE verdict = "approve"
      <4>1. flow.enabled
        BY <3>5
      <4> HIDE DEF verdict
      <4>2. QED
        BY <1>2, <2>1, <3>2, <3>3, <3>4, <3>5, <4>1, ApprovalKeeps
    <3>6. CASE verdict # "approve"
      <4>1. PICK w \in Verdicts \ {"approve"} : w = verdict
        BY <3>6 DEF Verdicts
      <4> HIDE DEF verdict
      <4>2. flow' = AnsweredFlow(w) /\ session' = session
            /\ Audit(<<Entry(w, flow.challenge, by)>>, at, outcome)
        BY <3>4, <3>6, <4>1
      <4>3. QED
        BY <1>2, <2>1, <3>2, <3>3, <3>4, <4>2, VerdictKeeps
    <3>7. QED
      BY <3>5, <3>6
  <2>7. \/ SignInBlocked(post.click, at, outcome)
        \/ SignInFails(post.click, at, outcome)
        \/ SignInChallenges(post.click, at, outcome)
        \/ ReviewSessions(post.click, at, outcome)
        \/ /\ post.act \in {"approve", "deny"}
           /\ \/ Decide(post.act, post.click, at, outcome)
              \/ Decide("expired", post.click, at, outcome)
    BY <1>1, <1>6 DEF HandleSso
  <2>8. CASE /\ post.act \in {"approve", "deny"}
             /\ \/ Decide(post.act, post.click, at, outcome)
                \/ Decide("expired", post.click, at, outcome)
    <3>1. PICK decision \in {"approve", "deny", "expired"} :
            Decide(decision, post.click, at, outcome)
      BY <2>8
    <3>2. post.act \in {"approve", "deny"}
      BY <2>8
    <3>3. QED
      BY <2>1, <2>6, <3>1, <3>2
  <2>9. QED
    BY <2>1, <2>2, <2>3, <2>4, <2>5, <2>7, <2>8
<1>7. QED
  BY <1>5, <1>6

\* An action of a page: what the page keeps.
LEMMA PageFrame ==
  ASSUME SignInInv, WorkHolds', UNCHANGED <<run, policy, captured>>, clicks' = clicks,
         \/ shown' = shown
         \/ shown' # None => shown'.run \in Nat /\ shown'.challenge \in Nat,
         click' \in Clicking \union {None}, click' # None => Authored(click'),
         astray' \subseteq Clicking, \A post \in astray' : Authored(post)
  PROVE  SignInInv'
<1>1. PageTypes'
  BY DEF SignInInv, PageTypes
<1>2. ClicksHold'
  BY DEF ClicksHold, Authored
<1>3. CapturedOnce'
  BY DEF SignInInv, CapturedOnce
<1>4. QED
  BY <1>1, <1>2, <1>3 DEF SignInInv

LEMMA ArriveClickKeeps == SignInInv /\ ArriveClick => SignInInv'
<1> SUFFICES ASSUME SignInInv, ArriveClick PROVE SignInInv'
  OBVIOUS
<1>1. /\ click # None /\ Handle(click) /\ click' = [click EXCEPT !.arrived = TRUE]
      /\ UNCHANGED <<shown, astray, clicks>>
  BY DEF ArriveClick
<1>2. /\ PageTypes /\ ClicksHold /\ Authored(click) /\ click \in Clicking
      /\ astray \subseteq Clicking
  BY <1>1 DEF SignInInv, PageTypes, ClicksHold
<1>3. PICK post \in Clicking : post = click
  BY <1>2
<1>4. Authored(post) /\ Handle(post)
  BY <1>1, <1>2, <1>3
<1>5. WorkHolds' /\ UNCHANGED <<run, policy, captured>>
  BY <1>1, <1>4, HandleKeeps
<1>6. click' \in Clicking /\ Authored(click')
  BY <1>1, <1>2 DEF Clicking, Authored
<1>7. \A p \in astray' : Authored(p)
  BY <1>1, <1>2 DEF ClicksHold
<1>8. QED
  BY <1>1, <1>2, <1>5, <1>6, <1>7, PageFrame

LEMMA ArriveAstrayKeeps ==
  ASSUME SignInInv, NEW post \in astray, ArriveAstray(post)
  PROVE  SignInInv'
<1>1. Handle(post) /\ astray' = astray \ {post} /\ UNCHANGED <<shown, click, clicks>>
  BY DEF ArriveAstray
<1>2. /\ click \in Clicking \union {None} /\ (click # None => Authored(click))
      /\ astray \subseteq Clicking /\ \A p \in astray : Authored(p)
  BY DEF SignInInv, PageTypes, ClicksHold
<1>3. WorkHolds' /\ UNCHANGED <<run, policy, captured>>
  BY <1>1, <1>2, HandleKeeps
<1>4. /\ click' \in Clicking \union {None} /\ (click' # None => Authored(click'))
      /\ astray' \subseteq Clicking /\ \A p \in astray' : Authored(p)
  BY <1>1, <1>2
<1>5. QED
  BY <1>1, <1>3, <1>4, PageFrame

LEMMA ElsewhereKeeps ==
  ASSUME SignInInv, NEW act, NEW challenge, Elsewhere(act, challenge)
  PROVE  SignInInv'
<1> DEFINE post == [run |-> run, act |-> act, challenge |-> challenge, click |-> 0]
<1>1. Handle(post) /\ UNCHANGED <<shown, click, astray, clicks>>
  BY DEF Elsewhere, ssoPage
<1>2. Authored(post)
  BY DEF Authored
<1> HIDE DEF post
<1>3. PICK p : p = post
  OBVIOUS
<1>4. Authored(p) /\ Handle(p)
  BY <1>1, <1>2, <1>3
<1>5. WorkHolds' /\ UNCHANGED <<run, policy, captured>>
  BY <1>1, <1>4, HandleKeeps
<1>6. /\ click' \in Clicking \union {None} /\ (click' # None => Authored(click'))
      /\ astray' \subseteq Clicking /\ \A q \in astray' : Authored(q)
  BY <1>1 DEF SignInInv, PageTypes, ClicksHold
<1>7. QED
  BY <1>1, <1>5, <1>6, PageFrame

LEMMA CaptureKeeps ==
  ASSUME SignInInv, NEW source \in Sources, NEW outcome \in Outcomes,
         CaptureInteraction(source, outcome)
  PROVE  SignInInv'
<1>1. /\ NewSource(source) /\ Appending(outcome)
      /\ captured' = IF Stored(outcome) THEN Append(captured, source) ELSE captured
      /\ UNCHANGED <<run, policy, flow, session, issued, trail, shown, click, astray, clicks>>
  BY DEF CaptureInteraction, ssoPage
<1>2. WorkHolds /\ PageTypes /\ ClicksHold /\ CapturedOnce
  BY DEF SignInInv
<1>3. mishaps' \in Nat /\ (mishaps' = 0 => mishaps = 0)
  BY <1>1, <1>2 DEF Appending, WorkHolds
<1>4. WorkHolds'
  BY <1>1, <1>2, <1>3
     DEF WorkHolds, LockHolds, VerdictsHold, Backed, DecidedOnce, Entries
<1>5. captured \in Seq(Sources) /\ Len(captured) \in Nat /\ DOMAIN captured = 1..Len(captured)
  BY <1>2 DEF PageTypes
<1>6. captured' \in Seq(Sources)
  BY <1>1, <1>5
<1>7. CapturedOnce'
  <2>1. CASE ~Stored(outcome)
    BY <1>1, <1>2, <2>1 DEF CapturedOnce
  <2>2. CASE Stored(outcome)
    <3>1. captured' = Append(captured, source)
      BY <1>1, <2>2
    <3>2. /\ Len(captured') = Len(captured) + 1 /\ captured'[Len(captured) + 1] = source
          /\ \A n \in 1..Len(captured) : captured'[n] = captured[n]
          /\ DOMAIN captured' = 1..(Len(captured) + 1)
      BY <1>5, <3>1
    <3>3. \A n \in 1..Len(captured) : captured[n] # source
      BY <1>1, <1>5 DEF NewSource
    <3>4. QED
      BY <1>2, <1>5, <3>2, <3>3 DEF CapturedOnce
  <2>3. QED
    BY <2>1, <2>2
<1>8. PageTypes'
  BY <1>1, <1>2, <1>6 DEF PageTypes
<1>9. ClicksHold'
  BY <1>1, <1>2 DEF ClicksHold, Authored
<1>10. QED
  BY <1>4, <1>7, <1>8, <1>9 DEF SignInInv

LEMMA DisableKeeps == SignInInv /\ Disable => SignInInv'
<1> SUFFICES ASSUME SignInInv, Disable PROVE SignInInv'
  OBVIOUS
<1>1. /\ flow' = [flow EXCEPT !.enabled = FALSE]
      /\ UNCHANGED <<run, mishaps, policy, session, issued, trail, captured, shown, click,
                     astray, clicks>>
  BY DEF Disable, portalVars, ssoPage
<1>2. WorkHolds /\ flow \in Flows
  BY DEF SignInInv, WorkHolds
<1>3. /\ flow' \in Flows /\ flow'.challenge = flow.challenge /\ flow'.signed = flow.signed
      /\ flow'.locked = flow.locked /\ ~flow'.enabled
  BY <1>1, <1>2 DEF Flows
<1>4. LockHolds'
  BY <1>1, <1>2, <1>3 DEF WorkHolds, LockHolds, Entries
<1>5. VerdictsHold' /\ DecidedOnce' /\ Backed'
  BY <1>1, <1>2, <1>3 DEF WorkHolds, VerdictsHold, DecidedOnce, Backed, Entries
<1>6. WorkHolds'
  BY <1>1, <1>2, <1>3, <1>4, <1>5 DEF WorkHolds
<1>7. /\ click' \in Clicking \union {None} /\ (click' # None => Authored(click'))
      /\ astray' \subseteq Clicking /\ \A q \in astray' : Authored(q)
  BY <1>1 DEF SignInInv, PageTypes, ClicksHold
<1>8. QED
  BY <1>1, <1>6, <1>7, PageFrame

\* A step of the page that presses nothing, or of the run.
LEMMA PageKeeps ==
  SignInInv /\ (LoadState \/ Invalidate \/ SettleClick
                \/ ((StartPlay \/ EndPlay) /\ UNCHANGED <<ssoState, ssoPage>>)
                \/ UNCHANGED signInVars) => SignInInv'
<1> SUFFICES ASSUME SignInInv,
                    \/ LoadState \/ Invalidate \/ SettleClick
                    \/ (StartPlay \/ EndPlay) /\ UNCHANGED <<ssoState, ssoPage>>
                    \/ UNCHANGED signInVars
             PROVE  SignInInv'
  OBVIOUS
<1>1. /\ UNCHANGED <<run, mishaps>> /\ UNCHANGED ssoState /\ clicks' = clicks
  BY DEF LoadState, Invalidate, SettleClick, StartPlay, EndPlay, signInVars, portalVars, ssoPage
<1>2. WorkHolds'
  BY <1>1, WorkUntouched DEF SignInInv, ssoState
<1>3. /\ run \in Nat /\ flow.challenge \in Nat
      /\ click \in Clicking \union {None} /\ astray \subseteq Clicking
      /\ click # None => Authored(click)
      /\ \A q \in astray : Authored(q)
  BY DEF SignInInv, WorkHolds, PageTypes, ClicksHold, Flows
<1>4. \/ shown' = shown
      \/ shown' # None => shown'.run \in Nat /\ shown'.challenge \in Nat
  BY <1>3 DEF LoadState, ServedState, Invalidate, SettleClick, signInVars, ssoPage
<1>5. /\ click' \in Clicking \union {None} /\ (click' # None => Authored(click'))
      /\ astray' \subseteq Clicking /\ \A q \in astray' : Authored(q)
  <2>1. CASE Invalidate
    <3>1. CASE click = None
      BY <1>3, <2>1, <3>1 DEF Invalidate
    <3>2. CASE click # None
      <4>1. click' = [click EXCEPT !.mine = FALSE] /\ astray' = astray /\ click \in Clicking
        BY <1>3, <2>1, <3>2 DEF Invalidate
      <4>2. click' \in Clicking /\ Authored(click')
        BY <1>3, <3>2, <4>1 DEF Clicking, Authored
      <4>3. QED
        BY <1>3, <4>1, <4>2
    <3>3. QED
      BY <3>1, <3>2
  <2>2. CASE SettleClick
    BY <1>3, <2>2 DEF SettleClick
  <2>3. CASE UNCHANGED <<click, astray>>
    BY <1>3, <2>3
  <2>4. QED
    BY <2>1, <2>2, <2>3 DEF LoadState, signInVars, ssoPage
<1>6. UNCHANGED <<policy, captured, run>>
  BY <1>1 DEF ssoState
<1>7. QED
  BY <1>1, <1>2, <1>4, <1>5, <1>6, PageFrame

LEMMA PressKeeps ==
  ASSUME SignInInv, NEW act \in SsoActs, Press(act)
  PROVE  SignInInv'
<1> DEFINE challenge == IF act \in {"approve", "deny"} THEN shown.challenge ELSE 0
           new == Len(clicks) + 1
           meant == [run |-> shown.run, challenge |-> challenge]
<1>1. /\ shown # None
      /\ clicks' = Append(clicks, meant)
      /\ click' = [run |-> shown.run, act |-> act, challenge |-> challenge, click |-> new,
                   mine |-> TRUE, arrived |-> FALSE]
      /\ shown' = None /\ astray' = astray
      /\ UNCHANGED <<run, mishaps, policy, flow, session, issued, trail, captured>>
  BY DEF Press, portalVars, ssoState
<1>2. WorkHolds /\ PageTypes /\ ClicksHold /\ CapturedOnce
  BY DEF SignInInv
<1>3. shown.run \in Nat /\ challenge \in Nat
  BY <1>1, <1>2 DEF PageTypes
<1>4. /\ clicks \in Seq([run : Nat, challenge : Nat]) /\ Len(clicks) \in Nat
      /\ DOMAIN clicks = 1..Len(clicks) /\ meant \in [run : Nat, challenge : Nat]
  BY <1>2, <1>3 DEF PageTypes
<1> HIDE DEF meant
<1>5. /\ clicks' \in Seq([run : Nat, challenge : Nat])
      /\ DOMAIN clicks' = 1..new /\ clicks'[new] = meant
      /\ \A k \in DOMAIN clicks : k \in DOMAIN clicks' /\ clicks'[k] = clicks[k]
  BY <1>1, <1>4
<1>6. VerdictsHold'
  BY <1>1, <1>2, <1>5 DEF WorkHolds, VerdictsHold, Entries
<1>7. DecidedOnce'
  <2>1. \A n \in Entries(Verdicts) : trail[n].click # 0 =>
           clicks'[trail[n].click] = clicks[trail[n].click]
    BY <1>2, <1>5 DEF WorkHolds, VerdictsHold
  <2>2. Entries(Verdicts)' = Entries(Verdicts) /\ Entries({"blocked"})' = Entries({"blocked"})
    BY <1>1 DEF Entries
  <2>3. DecidedOnce
    BY <1>2 DEF WorkHolds
  <2>4. trail' = trail /\ flow' = flow /\ run' = run
    BY <1>1
  <2>5. \A n \in Entries(Verdicts) : trail[n].click # 0 =>
          /\ clicks'[trail[n].click].challenge = trail[n].challenge
          /\ clicks'[trail[n].click].run = run
    BY <2>1, <2>3 DEF DecidedOnce
  <2>6. \A n \in Entries(Verdicts) :
          /\ \A m \in Entries(Verdicts) \ {n} : trail[m].challenge # trail[n].challenge
          /\ trail[n].challenge # flow.challenge
          /\ trail[n].what = "approve" => \A m \in Entries({"blocked"}) : m > n
    BY <2>3 DEF DecidedOnce
  <2>7. QED
    BY <2>2, <2>4, <2>5, <2>6 DEF DecidedOnce
<1>8. LockHolds' /\ Backed'
  BY <1>1, <1>2 DEF WorkHolds, LockHolds, Backed, Entries
<1>9. WorkHolds'
  BY <1>1, <1>2, <1>6, <1>7, <1>8 DEF WorkHolds
<1>10. click' \in Clicking
  BY <1>1, <1>3, <1>4 DEF Clicking
<1>11. PageTypes'
  BY <1>1, <1>2, <1>5, <1>10 DEF PageTypes
<1>12. ClicksHold'
  <2>1. Authored(click)'
    <3>1. /\ click'.click = new /\ click'.run = shown.run /\ click'.challenge = challenge
          /\ new \in DOMAIN clicks' /\ new \in Nat
      BY <1>1, <1>4, <1>5
    <3>2. clicks'[new] = [run |-> click'.run, challenge |-> click'.challenge]
      BY <1>5, <3>1 DEF meant
    <3>3. QED
      BY <3>1, <3>2 DEF Authored
  <2>2. ASSUME NEW post \in astray' PROVE Authored(post)'
    <3>1. Authored(post)
      BY <1>1, <1>2 DEF ClicksHold
    <3>2. QED
      BY <1>5, <3>1 DEF Authored
  <2>3. QED
    BY <2>1, <2>2 DEF ClicksHold
<1>13. CapturedOnce'
  BY <1>1, <1>2 DEF CapturedOnce
<1>14. QED
  BY <1>9, <1>11, <1>12, <1>13 DEF SignInInv

LEMMA SignInResetKeeps == SignInInv /\ SignInReset => SignInInv'
<1> SUFFICES ASSUME SignInInv, SignInReset PROVE SignInInv'
  OBVIOUS
<1>1. /\ run' = run + 1 /\ mishaps' = mishaps /\ flow' = NewFlow /\ session' = FALSE
      /\ trail' = <<>> /\ captured' = <<>>
      /\ UNCHANGED <<policy, issued, shown, click, astray, clicks>>
  BY DEF SignInReset, NextRun, ssoPage
<1>2. WorkHolds /\ PageTypes /\ ClicksHold
  BY DEF SignInInv
<1>3. /\ NewFlow \in Flows /\ NewFlow.challenge = 0 /\ ~NewFlow.locked /\ NewFlow.signed = FALSE
  BY DEF NewFlow, Flows
<1>4. \A W : Entries(W)' = {}
  BY <1>1 DEF Entries
<1>5. trail' \in Seq(Entered) /\ captured' \in Seq(Sources) /\ DOMAIN captured' = {}
  BY <1>1
<1>6. LockHolds' /\ VerdictsHold' /\ Backed' /\ DecidedOnce'
  <2>1. LockHolds' /\ Backed'
    BY <1>1, <1>3, <1>4 DEF LockHolds, Backed
  <2>2. VerdictsHold'
    BY <1>1, <1>2, <1>3, <1>4 DEF VerdictsHold, WorkHolds
  <2>3. DecidedOnce'
    BY <1>4 DEF DecidedOnce
  <2>4. QED
    BY <2>1, <2>2, <2>3
<1>7. WorkHolds'
  BY <1>1, <1>2, <1>3, <1>5, <1>6 DEF WorkHolds
<1>8. PageTypes'
  BY <1>1, <1>2, <1>5 DEF PageTypes
<1>9. ClicksHold'
  BY <1>1, <1>2 DEF ClicksHold, Authored
<1>10. CapturedOnce'
  BY <1>5 DEF CapturedOnce
<1>11. QED
  BY <1>7, <1>8, <1>9, <1>10 DEF SignInInv

LEMMA SignInStarts == PortalInit /\ SignInInit => SignInInv
<1> SUFFICES ASSUME PortalInit, SignInInit PROVE SignInInv
  OBVIOUS
<1>1. /\ run = 1 /\ mishaps = 0 /\ policy \in Policies /\ flow = NewFlow /\ session = FALSE
      /\ issued = 0 /\ trail = <<>> /\ captured = <<>> /\ shown = None /\ click = None
      /\ astray = {} /\ clicks = <<>>
  BY DEF PortalInit, SignInInit
<1>2. /\ NewFlow \in Flows /\ NewFlow.challenge = 0 /\ ~NewFlow.locked /\ NewFlow.signed = FALSE
  BY DEF NewFlow, Flows
<1>3. \A W : Entries(W) = {}
  BY <1>1 DEF Entries
<1>4. /\ trail \in Seq(Entered) /\ captured \in Seq(Sources) /\ DOMAIN captured = {}
      /\ clicks \in Seq([run : Nat, challenge : Nat])
  BY <1>1
<1>5. LockHolds /\ Backed
  BY <1>1, <1>2, <1>3 DEF LockHolds, Backed
<1>6. VerdictsHold /\ DecidedOnce
  BY <1>1, <1>2, <1>3 DEF VerdictsHold, DecidedOnce
<1>7. WorkHolds
  BY <1>1, <1>2, <1>4, <1>5, <1>6 DEF WorkHolds
<1>8. PageTypes /\ ClicksHold /\ CapturedOnce
  BY <1>1, <1>4 DEF PageTypes, ClicksHold, CapturedOnce
<1>9. QED
  BY <1>7, <1>8 DEF SignInInv

LEMMA SignInNextKeeps == SignInInv /\ [SignInNext]_signInVars => SignInInv'
<1> SUFFICES ASSUME SignInInv, [SignInNext]_signInVars PROVE SignInInv'
  OBVIOUS
<1>1. CASE ArriveClick
  BY <1>1, ArriveClickKeeps
<1>2. ASSUME NEW post \in astray, ArriveAstray(post) PROVE SignInInv'
  BY <1>2, ArriveAstrayKeeps
<1>3. ASSUME NEW act \in SsoActs, NEW challenge \in 0..MaxChallenges, Elsewhere(act, challenge)
      PROVE  SignInInv'
  BY <1>3, ElsewhereKeeps
<1>4. ASSUME NEW source \in Sources, NEW outcome \in Outcomes,
             CaptureInteraction(source, outcome)
      PROVE  SignInInv'
  BY <1>4, CaptureKeeps
<1>5. CASE Disable
  BY <1>5, DisableKeeps
<1>6. CASE \/ LoadState \/ Invalidate \/ SettleClick
           \/ (StartPlay \/ EndPlay) /\ UNCHANGED <<ssoState, ssoPage>>
           \/ UNCHANGED signInVars
  BY <1>6, PageKeeps
<1>7. ASSUME NEW act \in SsoActs, Press(act) PROVE SignInInv'
  BY <1>7, PressKeeps
<1>8. CASE SignInReset
  BY <1>8, SignInResetKeeps
<1>9. QED
  BY <1>1, <1>2, <1>3, <1>4, <1>5, <1>6, <1>7, <1>8 DEF SignInNext

\* SignInProven: whichever audit writes fail, a session is backed by an approval in the
\* audit; without a failure the audit, the workflow and the session agree; a challenge is
\* decided once, not approved after the account was found blocked, and by the click that
\* showed it; a report of the capture service is recorded once (dashboard/sso.py sign_in,
\* decide_mfa; dashboard/identity_audit.py; static/sso.js mutate).
THEOREM SignInIsAlwaysProven == SignInSpec => []SignInProven
<1>1. PortalInit /\ SignInInit => SignInInv
  BY SignInStarts
<1>2. SignInInv /\ [SignInNext]_signInVars => SignInInv'
  BY SignInNextKeeps
<1>3. SignInInv => SignInProven
  BY InvProven
<1>4. QED
  BY <1>1, <1>2, <1>3, PTL DEF SignInSpec
===============================================================================
