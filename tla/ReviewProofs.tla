------------------------------ MODULE ReviewProofs ------------------------------
(***************************************************************************)
(* Proofs about two more workflows of the portal, for any pages, accounts, *)
(* runs and bounds: the evaluators' judgments with the archives of a run   *)
(* (Review), and the participant's evidence page (Evidence).               *)
(***************************************************************************)
EXTENDS MCDesk, FiniteSetTheorems, SequenceTheorems, TLAPS

-------------------------------------------------------------------------------
(***************************************************************************)
(* Judgments and archives.                                                 *)
(***************************************************************************)

Judgments == [type : {"judgment"}, save : Nat, revision : Nat, supersedes : Nat]
Audits    == [type : {"archive"}, number : Nat]
Cleanups  == [type : {"cleanup"}]

ReviewEvents == Judgments \union Audits \union Cleanups

Reports == [run : Nat, terminal : BOOLEAN, revision : Nat, shown : Nat]
Awaited == [save : Nat, run : Nat, expected : Nat, mine : BOOLEAN,
            answer : {None, "failed", "recorded"}]
Posts   == [save : Nat, run : Nat, expected : Nat]
Screens == [run : Nat, shown : Nat]
Copies  == [number : Nat, run : Nat, events : Seq(ReviewEvents)]

ReviewTypes ==
  /\ run \in Nat \ {0}
  /\ ledger \in Seq(ReviewEvents)
  /\ past \in Seq(Seq(ReviewEvents)) /\ Len(past) = run - 1
  /\ archives \subseteq Copies /\ IsFiniteSet(archives)
  /\ report \in [Evaluators -> Reports \union {None}]
  /\ saving \in [Evaluators -> Awaited \union {None}]
  /\ abandoned \subseteq Posts
  /\ saves \in Seq(Screens)

\* What a page has seen of a run: an older revision than the current one, or the
\* judgment that stands now.
Seen(r, revision, save) ==
  /\ r <= run
  /\ r = run => revision <= Revision /\ (revision = Revision => save = CurrentSave)

\* A report that may be judged shows what stood when it was read.
ReportsTrue ==
  \A p \in Evaluators :
    report[p] # None /\ report[p].terminal =>
      Seen(report[p].run, report[p].revision, report[p].shown)

\* A judgment on its way carries what was on its page's screen, and is not in the
\* ledger of the run in play.
Sound(post) ==
  /\ post.save \in DOMAIN saves /\ saves[post.save].run = post.run
  /\ Seen(post.run, post.expected, saves[post.save].shown)
  /\ \A n \in Judged(ledger) : ledger[n].save # post.save

OnItsWay(p) == saving[p] # None /\ saving[p].answer = None

\* Every judgment on its way is sound, and is on its way once.
PostsSound ==
  /\ \A p \in Evaluators : OnItsWay(p) =>
       /\ Sound(saving[p])
       /\ \A q \in Evaluators \ {p} : OnItsWay(q) => saving[q].save # saving[p].save
       /\ \A post \in abandoned : post.save # saving[p].save
  /\ \A post \in abandoned : Sound(post)
  /\ \A v, w \in abandoned : v.save = w.save => v = w

\* JudgmentsInformed for the judgment at one position of one ledger.
Informed(log, r, n) ==
  /\ log[n].save \in DOMAIN saves
  /\ log[n].revision = Standing(log, n).revision + 1
  /\ log[n].supersedes = Standing(log, n).save
  /\ saves[log[n].save] = [run |-> r, shown |-> log[n].supersedes]
  /\ \A m \in Judged(log) \ {n} : log[m].save # log[n].save

AllInformed(log, r) == \A n \in Judged(log) : Informed(log, r, n)

LedgersInformed == \A r \in 1..run : AllInformed(LedgerOf(r), r)

\* ArchivesExact for one archive and the ledger of its run.
Exact(log, a) ==
  /\ IsStrictPrefix(a.events, log)
  /\ log[Len(a.events) + 1] = [type |-> "archive", number |-> a.number]

ArchivedRuns == \A a \in archives : a.run \in 1..run

ReviewInv ==
  ReviewTypes /\ ReportsTrue /\ PostsSound /\ LedgersInformed /\ ArchivedRuns /\ ArchivesExact

-------------------------------------------------------------------------------
\* A set of numbers that is not empty has a smallest one.
LEMMA SmallestNumber ==
  ASSUME NEW T \in SUBSET Nat, T # {}
  PROVE  \E k \in T : \A j \in T : k <= j
<1> DEFINE R == OpToRel(<, Nat)
<1>1. IsWellFoundedOn(R, Nat)
  BY NatLessThanWellFounded
<1>2. PICK k \in T : \A j \in T : ~(<<j, k>> \in R)
  <2> HIDE DEF R
  <2> QED
    BY <1>1, WFMin
<1>3. \A j \in T : j < k => <<j, k>> \in R
  BY DEF OpToRel
<1>4. \A j \in T : ~(j < k)
  BY <1>2, <1>3
<1> HIDE DEF R
<1>5. \A j \in T : k <= j
  <2>1. k \in Nat /\ \A j \in T : j \in Nat
    OBVIOUS
  <2> QED
    BY <1>4, <2>1
<1> QED
  BY <1>5

\* A set of positions that is not empty has a last one.
LEMMA LastPosition ==
  ASSUME NEW N \in Nat, NEW S \in SUBSET (1..N), S # {}
  PROVE  Max(S) \in S /\ \A m \in S : m <= Max(S)
<1> DEFINE T == {k \in Nat : \A m \in S : m <= k}
<1>1. N \in T /\ T \in SUBSET Nat
  OBVIOUS
<1>2. PICK k \in T : \A j \in T : k <= j
  <2> HIDE DEF T
  <2> QED
    BY <1>1, SmallestNumber
<1>3. k \in S
  <2> SUFFICES ASSUME k \notin S PROVE FALSE
    OBVIOUS
  <2>1. k \in Nat /\ k - 1 \in Nat
    <3>1. PICK m \in S : TRUE
      OBVIOUS
    <3> QED
      BY <3>1
  <2>2. k - 1 \in T
    <3>1. \A m \in S : m <= k /\ m # k /\ m \in Nat
      OBVIOUS
    <3> QED
      BY <2>1, <3>1
  <2> QED
    BY <1>2, <2>1, <2>2
<1>4. k \in S /\ \A m \in S : k >= m
  BY <1>3
<1>5. Max(S) \in S /\ \A m \in S : Max(S) >= m
  BY <1>4 DEF Max
<1>6. \A m \in S : m \in Int
  OBVIOUS
<1> QED
  BY <1>5, <1>6

\* The last position of a set is what is known to be one.
LEMMA LastIsUnique ==
  ASSUME NEW S \in SUBSET Int, NEW k \in S, \A m \in S : m <= k
  PROVE  Max(S) = k
<1>1. k \in S /\ \A m \in S : k >= m
  OBVIOUS
<1>2. Max(S) \in S /\ \A m \in S : Max(S) >= m
  BY <1>1 DEF Max
<1>3. Max(S) \in Int /\ k \in Int /\ Max(S) >= k /\ k >= Max(S)
  BY <1>1, <1>2
<1> QED
  BY <1>3

LEMMA JudgedPositions ==
  ASSUME NEW log \in Seq(ReviewEvents)
  PROVE  /\ Judged(log) \in SUBSET (1..Len(log)) /\ Len(log) \in Nat
         /\ \A n \in Judged(log) : log[n] \in Judgments
<1>1. DOMAIN log = 1..Len(log) /\ Len(log) \in Nat
  BY LenProperties
<1>2. \A n \in 1..Len(log) : log[n] \in ReviewEvents
  BY <1>1, ElementOfSeq
<1>3. \A e \in ReviewEvents : e.type = "judgment" => e \in Judgments
  BY DEF ReviewEvents, Judgments, Audits, Cleanups
<1> QED
  BY <1>1, <1>2, <1>3 DEF Judged

\* An event that is appended changes no position before it.
LEMMA JudgedAppend ==
  ASSUME NEW log \in Seq(ReviewEvents), NEW e \in ReviewEvents
  PROVE  /\ Judged(Append(log, e)) =
              Judged(log) \union (IF e.type = "judgment" THEN {Len(log) + 1} ELSE {})
         /\ \A n \in Judged(log) : Append(log, e)[n] = log[n]
         /\ Append(log, e)[Len(log) + 1] = e
<1> DEFINE longer == Append(log, e)
<1>1. /\ Len(longer) = Len(log) + 1 /\ longer \in Seq(ReviewEvents)
      /\ \A n \in 1..Len(log) : longer[n] = log[n]
      /\ longer[Len(log) + 1] = e
  BY AppendProperties
<1>2. DOMAIN longer = 1..Len(longer) /\ DOMAIN log = 1..Len(log) /\ Len(log) \in Nat
  BY <1>1, LenProperties
<1>3. 1..(Len(log) + 1) = (1..Len(log)) \union {Len(log) + 1}
  BY <1>2
<1>4. DOMAIN longer = DOMAIN log \union {Len(log) + 1}
  BY <1>1, <1>2, <1>3
<1> HIDE DEF longer
<1>5. Judged(longer) = Judged(log) \union (IF e.type = "judgment" THEN {Len(log) + 1} ELSE {})
  BY <1>1, <1>2, <1>4 DEF Judged
<1>6. \A n \in Judged(log) : longer[n] = log[n]
  BY <1>1, <1>2 DEF Judged
<1> QED
  BY <1>1, <1>5, <1>6 DEF longer

\* What stood at a position stands there still.
LEMMA StandingAppend ==
  ASSUME NEW log \in Seq(ReviewEvents), NEW e \in ReviewEvents, NEW n \in 1..Len(log) + 1
  PROVE  Standing(Append(log, e), n) = Standing(log, n)
<1> DEFINE before == {m \in Judged(log) : m < n}
<1>1. Judged(log) \in SUBSET (1..Len(log)) /\ Len(log) \in Nat
  BY JudgedPositions
<1>2. {m \in Judged(Append(log, e)) : m < n} = before
  BY <1>1, JudgedAppend
<1>3. before # {} => Append(log, e)[Max(before)] = log[Max(before)]
  <2>1. before \in SUBSET (1..Len(log)) /\ before \subseteq Judged(log)
    BY <1>1
  <2>2. before # {} => Max(before) \in Judged(log)
    <3> HIDE DEF before
    <3> QED
      BY <1>1, <2>1, LastPosition
  <2> QED
    BY <2>2, JudgedAppend
<1> QED
  BY <1>2, <1>3 DEF Standing

\* After the last event stands that judgment, or what stood before it.
LEMMA StandingAfter ==
  ASSUME NEW log \in Seq(ReviewEvents), NEW e \in ReviewEvents
  PROVE  Standing(Append(log, e), Len(Append(log, e)) + 1) =
           IF e.type = "judgment" THEN e ELSE Standing(log, Len(log) + 1)
<1> DEFINE longer == Append(log, e)
           before == {m \in Judged(longer) : m < Len(longer) + 1}
<1>1. Judged(log) \in SUBSET (1..Len(log)) /\ Len(log) \in Nat
  BY JudgedPositions
<1>2. Len(longer) = Len(log) + 1
  BY AppendProperties
<1>0. /\ Judged(longer) = Judged(log) \union (IF e.type = "judgment" THEN {Len(log) + 1} ELSE {})
      /\ \A n \in Judged(log) : longer[n] = log[n]
      /\ longer[Len(log) + 1] = e
  BY JudgedAppend
<1>3. before = Judged(longer)
  BY <1>0, <1>1, <1>2
<1>4. CASE e.type = "judgment"
  <2>1. Judged(longer) = Judged(log) \union {Len(log) + 1}
    BY <1>0, <1>4
  <2>2. Max(Judged(longer)) = Len(log) + 1
    <3>1. Judged(longer) \in SUBSET Int /\ Len(log) + 1 \in Judged(longer)
      BY <1>1, <2>1
    <3>2. \A m \in Judged(longer) : m <= Len(log) + 1
      BY <1>1, <2>1
    <3>3. \A S \in SUBSET Int : \A k \in S : (\A m \in S : m <= k) => Max(S) = k
      BY LastIsUnique
    <3> HIDE DEF longer
    <3> QED
      BY <3>1, <3>2, <3>3
  <2>3. before # {} /\ longer[Max(before)] = e
    <3> HIDE DEF longer, before
    <3> QED
      BY <1>0, <1>3, <2>1, <2>2
  <2> QED
    BY <1>4, <2>3 DEF Standing
<1>5. CASE e.type # "judgment"
  <2>1. Judged(longer) = Judged(log)
    BY <1>0, <1>5
  <2>2. before = {m \in Judged(log) : m < Len(log) + 1}
    BY <1>1, <1>3, <2>1
  <2>3. before # {} => longer[Max(before)] = log[Max(before)]
    <3>1. before \in SUBSET (1..Len(log)) /\ before \subseteq Judged(log)
      BY <1>1, <2>2
    <3>2. before # {} => Max(before) \in Judged(log)
      <4> HIDE DEF before
      <4> QED
        BY <1>1, <3>1, LastPosition
    <3> QED
      BY <1>0, <3>2
  <2> QED
    BY <1>5, <2>2, <2>3 DEF Standing
<1> QED
  BY <1>4, <1>5

-------------------------------------------------------------------------------
\* One judgment more, made in view of what stood.
LEMMA InformedAppend ==
  ASSUME NEW log \in Seq(ReviewEvents), NEW e \in ReviewEvents, NEW r, AllInformed(log, r),
         e.type = "judgment" =>
           /\ e.save \in DOMAIN saves
           /\ e.revision = Standing(log, Len(log) + 1).revision + 1
           /\ e.supersedes = Standing(log, Len(log) + 1).save
           /\ saves[e.save] = [run |-> r, shown |-> e.supersedes]
           /\ \A m \in Judged(log) : log[m].save # e.save
  PROVE  AllInformed(Append(log, e), r)
<1> DEFINE longer == Append(log, e)
<1>1. /\ Judged(longer) = Judged(log) \union (IF e.type = "judgment" THEN {Len(log) + 1} ELSE {})
      /\ \A n \in Judged(log) : longer[n] = log[n]
      /\ longer[Len(log) + 1] = e
  BY JudgedAppend
<1>2. Judged(log) \in SUBSET (1..Len(log)) /\ Len(log) \in Nat
  BY JudgedPositions
<1>3. \A n \in 1..Len(log) + 1 : Standing(longer, n) = Standing(log, n)
  BY StandingAppend
<1> HIDE DEF longer
<1>4. SUFFICES ASSUME NEW n \in Judged(longer) PROVE Informed(longer, r, n)
  BY DEF AllInformed, longer
<1>5. CASE n \in Judged(log)
  <2>1. Informed(log, r, n) /\ longer[n] = log[n] /\ Standing(longer, n) = Standing(log, n)
    BY <1>1, <1>2, <1>3, <1>5 DEF AllInformed
  <2>2. \A m \in Judged(longer) \ {n} : longer[m].save # longer[n].save
    BY <1>1, <1>5, <2>1 DEF Informed
  <2> QED
    BY <2>1, <2>2 DEF Informed
<1>6. CASE n \notin Judged(log)
  <2>1. e.type = "judgment" /\ n = Len(log) + 1 /\ longer[n] = e
    BY <1>1, <1>6
  <2>2. Standing(longer, n) = Standing(log, Len(log) + 1)
    BY <1>2, <1>3, <2>1
  <2>3. \A m \in Judged(longer) \ {n} : longer[m].save # longer[n].save
    BY <1>1, <2>1
  <2> QED
    BY <2>1, <2>2, <2>3 DEF Informed
<1> QED
  BY <1>5, <1>6

LEMMA StrictPrefix ==
  ASSUME NEW s \in Seq(ReviewEvents), NEW t \in Seq(ReviewEvents)
  PROVE  IsStrictPrefix(s, t) <=> Len(s) < Len(t) /\ \A i \in 1..Len(s) : s[i] = t[i]
<1>1. Len(s) \in Nat /\ Len(t) \in Nat /\ SubSeq(s, 1, Len(s)) = s
  BY LenProperties, SubSeqProperties
<1>2. ASSUME Len(s) <= Len(t)
      PROVE  /\ SubSeq(t, 1, Len(s)) \in Seq(ReviewEvents) /\ Len(SubSeq(t, 1, Len(s))) = Len(s)
             /\ \A i \in 1..Len(s) : SubSeq(t, 1, Len(s))[i] = t[i]
  BY <1>1, <1>2, SubSeqProperties
<1>3. \A u \in Seq(ReviewEvents) : u = s <=> Len(u) = Len(s) /\ \A i \in 1..Len(s) : u[i] = s[i]
  BY SeqEqual
<1>4. IsPrefix(s, t) <=> Len(s) <= Len(t) /\ \A i \in 1..Len(s) : s[i] = t[i]
  BY <1>1, <1>2, <1>3 DEF IsPrefix
<1>5. s # t <=> ~(Len(s) = Len(t) /\ \A i \in 1..Len(s) : s[i] = t[i])
  BY <1>3
<1> QED
  BY <1>1, <1>4, <1>5 DEF IsStrictPrefix

\* An exact archive stays exact while its ledger grows.
LEMMA ExactAppend ==
  ASSUME NEW log \in Seq(ReviewEvents), NEW e \in ReviewEvents, NEW a \in Copies, Exact(log, a)
  PROVE  Exact(Append(log, e), a)
<1>1. a.events \in Seq(ReviewEvents) /\ Len(a.events) \in Nat /\ Len(log) \in Nat
  BY LenProperties DEF Copies
<1>2. /\ Append(log, e) \in Seq(ReviewEvents) /\ Len(Append(log, e)) = Len(log) + 1
      /\ \A n \in 1..Len(log) : Append(log, e)[n] = log[n]
  BY AppendProperties
<1>3. Len(a.events) < Len(log) /\ \A i \in 1..Len(a.events) : a.events[i] = log[i]
  BY <1>1, StrictPrefix DEF Exact
<1>4. IsStrictPrefix(a.events, Append(log, e))
  <2> DEFINE longer == Append(log, e)
             copy == a.events
  <2>1. longer \in Seq(ReviewEvents) /\ copy \in Seq(ReviewEvents)
    BY <1>1, <1>2
  <2>2. Len(copy) < Len(longer) /\ \A i \in 1..Len(copy) : copy[i] = longer[i]
    BY <1>1, <1>2, <1>3
  <2> HIDE DEF longer, copy
  <2>3. IsStrictPrefix(copy, longer)
    BY <2>1, <2>2, StrictPrefix
  <2> QED
    BY <2>3 DEF longer, copy
<1>5. Append(log, e)[Len(a.events) + 1] = log[Len(a.events) + 1]
  BY <1>1, <1>2, <1>3
<1> QED
  BY <1>4, <1>5 DEF Exact

\* A snapshot is an exact archive of the ledger with its audit.
LEMMA ExactSnapshot ==
  ASSUME NEW log \in Seq(ReviewEvents), NEW k \in Nat, NEW r
  PROVE  Exact(Append(log, [type |-> "archive", number |-> k]),
               [number |-> k, run |-> r, events |-> log])
<1> DEFINE e == [type |-> "archive", number |-> k]
<1>1. e \in ReviewEvents
  BY DEF ReviewEvents, Audits
<1> HIDE DEF e
<1>2. /\ Append(log, e) \in Seq(ReviewEvents) /\ Len(Append(log, e)) = Len(log) + 1
      /\ \A n \in 1..Len(log) : Append(log, e)[n] = log[n]
      /\ Append(log, e)[Len(log) + 1] = e /\ Len(log) \in Nat
  BY <1>1, AppendProperties, LenProperties
<1>3. IsStrictPrefix(log, Append(log, e))
  <2> DEFINE longer == Append(log, e)
  <2>1. longer \in Seq(ReviewEvents)
    BY <1>2
  <2>2. Len(log) < Len(longer) /\ \A i \in 1..Len(log) : log[i] = longer[i]
    BY <1>2
  <2> HIDE DEF longer
  <2>3. IsStrictPrefix(log, longer)
    BY <2>1, <2>2, StrictPrefix
  <2> QED
    BY <2>3 DEF longer
<1> DEFINE a == [number |-> k, run |-> r, events |-> log]
<1>4. a.events = log /\ a.number = k
  OBVIOUS
<1>5. Append(log, e)[Len(log) + 1] = [type |-> "archive", number |-> k]
  BY <1>2 DEF e
<1> HIDE DEF a
<1>6. Exact(Append(log, e), a)
  BY <1>3, <1>4, <1>5 DEF Exact
<1> QED
  BY <1>6 DEF a, e

LEMMA StandingTypes ==
  ASSUME NEW log \in Seq(ReviewEvents)
  PROVE  Standing(log, Len(log) + 1).revision \in Nat /\ Standing(log, Len(log) + 1).save \in Nat
<1> DEFINE before == {m \in Judged(log) : m < Len(log) + 1}
<1>1. Judged(log) \in SUBSET (1..Len(log)) /\ Len(log) \in Nat
  BY JudgedPositions
<1>2. \A n \in Judged(log) : log[n].revision \in Nat /\ log[n].save \in Nat
  BY JudgedPositions DEF Judgments
<1>3. before \in SUBSET (1..Len(log)) /\ before \subseteq Judged(log)
  BY <1>1
<1>4. before # {} => Max(before) \in Judged(log)
  <2> HIDE DEF before
  <2> QED
    BY <1>1, <1>3, LastPosition
<1>5. before # {} => log[Max(before)].revision \in Nat /\ log[Max(before)].save \in Nat
  BY <1>2, <1>4
<1> QED
  BY <1>5 DEF Standing, NoJudgment

\* What an event that is no judgment leaves of a ledger.
Quiet(log, longer) ==
  /\ longer \in Seq(ReviewEvents)
  /\ Judged(longer) = Judged(log) /\ \A n \in Judged(log) : longer[n] = log[n]
  /\ Standing(longer, Len(longer) + 1) = Standing(log, Len(log) + 1)
  /\ \A r : AllInformed(log, r) => AllInformed(longer, r)
  /\ \A a \in Copies : Exact(log, a) => Exact(longer, a)

LEMMA QuietAppend ==
  ASSUME NEW log \in Seq(ReviewEvents), NEW e \in ReviewEvents, e.type # "judgment"
  PROVE  Quiet(log, Append(log, e))
<1>1. Append(log, e) \in Seq(ReviewEvents)
  BY AppendProperties
<1>2. /\ Judged(Append(log, e)) = Judged(log)
      /\ \A n \in Judged(log) : Append(log, e)[n] = log[n]
  <2>1. /\ Judged(Append(log, e)) =
              Judged(log) \union (IF e.type = "judgment" THEN {Len(log) + 1} ELSE {})
        /\ \A n \in Judged(log) : Append(log, e)[n] = log[n]
    BY JudgedAppend
  <2> QED
    BY <2>1
<1>3. Standing(Append(log, e), Len(Append(log, e)) + 1) = Standing(log, Len(log) + 1)
  BY StandingAfter
<1>4. \A r : AllInformed(log, r) => AllInformed(Append(log, e), r)
  BY InformedAppend
<1>5. \A a \in Copies : Exact(log, a) => Exact(Append(log, e), a)
  BY ExactAppend
<1> QED
  BY <1>1, <1>2, <1>3, <1>4, <1>5 DEF Quiet

LEMMA QuietTwice ==
  ASSUME NEW log \in Seq(ReviewEvents), NEW d \in ReviewEvents, NEW e \in ReviewEvents,
         d.type # "judgment", e.type # "judgment"
  PROVE  Quiet(log, Append(Append(log, d), e))
<1> DEFINE longer == Append(log, d)
<1>1. longer \in Seq(ReviewEvents) /\ Quiet(log, longer)
  BY QuietAppend DEF Quiet
<1> HIDE DEF longer
<1>2. Quiet(longer, Append(longer, e))
  BY <1>1, QuietAppend
<1>3. Quiet(log, Append(longer, e))
  BY <1>1, <1>2 DEF Quiet
<1> QED
  BY <1>3 DEF longer

-------------------------------------------------------------------------------
\* What a quiet step of the run's ledger leaves of the pages' knowledge.
LEMMA QuietSeen ==
  ASSUME ReviewTypes, Quiet(ledger, ledger'), run' = run, saves' = saves
  PROVE  /\ Revision' = Revision /\ CurrentSave' = CurrentSave
         /\ \A r, v, k : Seen(r, v, k) => Seen(r, v, k)'
         /\ \A post : Sound(post) => Sound(post)'
<1>1. Current' = Current
  BY DEF Current, Quiet
<1>2. Revision' = Revision /\ CurrentSave' = CurrentSave
  BY <1>1 DEF Revision, CurrentSave
<1>3. ASSUME NEW r, NEW v, NEW k, Seen(r, v, k)
      PROVE  Seen(r, v, k)'
  BY <1>2, <1>3 DEF Seen
<1>4. ASSUME NEW post, Sound(post)
      PROVE  Sound(post)'
  <2>1. \A k : k = saves[post.save].shown => Seen(post.run, post.expected, k)'
    BY <1>3, <1>4 DEF Sound
  <2>2. Judged(ledger') = Judged(ledger) /\ \A n \in Judged(ledger) : ledger'[n] = ledger[n]
    BY DEF Quiet
  <2>3. \A n \in Judged(ledger') : ledger'[n].save # post.save
    BY <1>4, <2>2 DEF Sound
  <2> QED
    BY <1>4, <2>1, <2>3 DEF Sound, Seen
<1> QED
  BY <1>2, <1>3, <1>4

\* The reports stay true and the posts sound when the pages do nothing.
LEMMA PagesIdle ==
  ASSUME ReviewTypes, ReportsTrue, PostsSound, UNCHANGED <<report, saving, abandoned>>,
         \A r \in Nat : \A v, k : Seen(r, v, k) => Seen(r, v, k)',
         \A post : post.run \in Nat /\ Sound(post) => Sound(post)'
  PROVE  ReportsTrue' /\ PostsSound'
<1>1. ReportsTrue'
  <2>1. \A p \in Evaluators : report[p] # None => report[p].run \in Nat
    BY DEF ReviewTypes, Reports
  <2> QED
    BY <2>1 DEF ReportsTrue
<1>2. \A p \in Evaluators : OnItsWay(p)' = OnItsWay(p)
  BY DEF OnItsWay
<1>3. /\ \A p \in Evaluators : OnItsWay(p) => saving[p].run \in Nat
      /\ \A post \in abandoned : post.run \in Nat
  BY DEF ReviewTypes, Awaited, Posts, OnItsWay
<1>4. PostsSound'
  BY <1>2, <1>3 DEF PostsSound
<1> QED
  BY <1>1, <1>4

LEMMA LedgersFollow ==
  ASSUME ReviewTypes, LedgersInformed, UNCHANGED <<run, past, saves>>,
         AllInformed(ledger, run) => AllInformed(ledger', run)
  PROVE  LedgersInformed'
<1>1. SUFFICES ASSUME NEW r \in 1..run PROVE AllInformed(LedgerOf(r), r)'
  BY DEF LedgersInformed
<1>2. AllInformed(LedgerOf(r), r)
  BY DEF LedgersInformed
<1>3. AllInformed(LedgerOf(r)', r)
  <2>1. CASE r = run
    BY <1>2, <2>1 DEF LedgerOf
  <2>2. CASE r # run
    BY <1>2, <2>2 DEF LedgerOf
  <2> QED
    BY <2>1, <2>2
<1> QED
  BY <1>3 DEF AllInformed, Informed

\* New archives are snapshots of the ledger that are exact in what becomes of it.
LEMMA ArchivesFollow ==
  ASSUME ReviewTypes, ArchivedRuns, ArchivesExact, run' \in {run, run + 1},
         NEW N \in SUBSET {Snapshot(ledger)}, archives' = archives \union N,
         \A r \in 1..run : \A a \in Copies :
           Exact(LedgerOf(r), a) => Exact(LedgerOf(r)', a),
         \A a \in N : Exact(LedgerOf(a.run)', a),
         \A r \in 1..run - 1 : past'[r] = past[r],
         run' = run + 1 => N # {} /\ Judged(past'[run]) = Judged(ledger)
  PROVE  ArchivedRuns' /\ ArchivesExact'
<1>1. run \in Nat \ {0}
  BY DEF ReviewTypes
<1>2. \A a \in N : a.run = run /\ a.events = ledger
  BY DEF Snapshot
<1>3. \A a \in archives : a \in Copies /\ a.run \in 1..run /\ Exact(LedgerOf(a.run), a)
  BY DEF ReviewTypes, ArchivedRuns, ArchivesExact, Exact
<1>4. ArchivedRuns'
  BY <1>1, <1>2, <1>3 DEF ArchivedRuns
<1>5. \A a \in archives' : Exact(LedgerOf(a.run)', a)
  BY <1>3
<1>6. \A a \in archives : a.run = run => a.events # ledger
  <2>1. \A a \in archives : a.run = run => IsStrictPrefix(a.events, ledger)
    BY <1>3 DEF Exact, LedgerOf
  <2> QED
    BY <2>1 DEF IsStrictPrefix
<1>7. \A a \in archives' : \A b \in archives' \ {a} : <<a.run, a.events>> # <<b.run, b.events>>
  <2>1. \A a \in archives : \A b \in archives \ {a} : <<a.run, a.events>> # <<b.run, b.events>>
    BY DEF ArchivesExact
  <2>2. \A a \in archives, b \in N : ~(a.run = b.run /\ a.events = b.events)
    BY <1>2, <1>6
  <2>3. \A a, b \in N : a = b
    OBVIOUS
  <2> QED
    BY <2>1, <2>2, <2>3
<1>8. ASSUME NEW r, r \in 1..run' - 1
      PROVE  \E a \in archives' : a.run = r /\ Judged(a.events) = Judged(past'[r])
  <2>1. CASE r \in 1..run - 1
    <3>1. PICK a \in archives : a.run = r /\ Judged(a.events) = Judged(past[r])
      BY <2>1 DEF ArchivesExact
    <3> QED
      BY <2>1, <3>1
  <2>2. CASE r \notin 1..run - 1
    <3>1. run' = run + 1 /\ r = run
      <4>0. run' \in Nat
        BY <1>1
      <4>1. r \in Int /\ r <= run' - 1 /\ r > run - 1
        <5>1. \A x, y \in Nat : \A z : z \in 1..y - 1 /\ z \notin 1..x - 1 =>
                z \in Int /\ z <= y - 1 /\ z > x - 1
          OBVIOUS
        <5> QED
          BY <1>1, <1>8, <2>2, <4>0, <5>1
      <4>2. CASE run' = run
        BY <1>1, <4>1, <4>2
      <4>3. CASE run' = run + 1
        BY <1>1, <4>1, <4>3
      <4> QED
        BY <4>2, <4>3
    <3>2. PICK a \in N : TRUE
      BY <3>1
    <3> QED
      BY <1>2, <3>1, <3>2
  <2> QED
    BY <2>1, <2>2
<1>9. ArchivesExact'
  BY <1>5, <1>7, <1>8 DEF ArchivesExact, Exact
<1> QED
  BY <1>4, <1>9

\* A step that adds no judgment to the ledger and at most a snapshot of it to the
\* archives, while the pages do nothing.
LEMMA QuietStep ==
  ASSUME ReviewInv, Quiet(ledger, ledger'),
         UNCHANGED <<run, past, report, saving, abandoned, saves>>,
         archives' = archives \/ (/\ archives' = archives \union {Snapshot(ledger)}
                                  /\ Exact(ledger', Snapshot(ledger)))
  PROVE  ReviewInv'
<1>1. /\ \A r, v, k : Seen(r, v, k) => Seen(r, v, k)'
      /\ \A post : Sound(post) => Sound(post)'
  BY QuietSeen DEF ReviewInv
<1>2. ReportsTrue' /\ PostsSound'
  BY <1>1, PagesIdle DEF ReviewInv
<1>3. LedgersInformed'
  BY LedgersFollow DEF ReviewInv, Quiet
<1>4. PICK N \in SUBSET {Snapshot(ledger)} :
        archives' = archives \union N /\ \A a \in N : Exact(ledger', a)
  <2>1. CASE archives' = archives
    <3> WITNESS {} \in SUBSET {Snapshot(ledger)}
    <3> QED
      BY <2>1
  <2>2. CASE archives' = archives \union {Snapshot(ledger)} /\ Exact(ledger', Snapshot(ledger))
    <3> WITNESS {Snapshot(ledger)} \in SUBSET {Snapshot(ledger)}
    <3> QED
      BY <2>2
  <2> QED
    BY <2>1, <2>2
<1>5. ArchivedRuns' /\ ArchivesExact'
  <2>1. \A r \in 1..run : \A a \in Copies : Exact(LedgerOf(r), a) => Exact(LedgerOf(r)', a)
    BY DEF LedgerOf, Quiet
  <2>2. \A a \in N : a.run = run
    BY DEF Snapshot
  <2>3. \A a \in N : Exact(LedgerOf(a.run)', a)
    BY <1>4, <2>2 DEF LedgerOf
  <2>4. run' = run /\ run' # run + 1
    BY DEF ReviewInv, ReviewTypes
  <2> QED
    BY <1>4, <2>1, <2>3, <2>4, ArchivesFollow DEF ReviewInv
<1>6. ReviewTypes'
  <2>1. ledger' \in Seq(ReviewEvents)
    BY DEF Quiet
  <2>2. N \subseteq Copies /\ IsFiniteSet(N)
    <3>1. Snapshot(ledger) \in Copies
      BY FS_CardinalityType DEF ReviewInv, ReviewTypes, Snapshot, NextNumber, Copies
    <3> QED
      BY <3>1, FS_Singleton, FS_Subset
  <2>3. IsFiniteSet(archives') /\ archives' \subseteq Copies
    BY <1>4, <2>2, FS_Union DEF ReviewInv, ReviewTypes
  <2> QED
    BY <2>1, <2>3 DEF ReviewInv, ReviewTypes
<1> QED
  BY <1>2, <1>3, <1>5, <1>6 DEF ReviewInv

\* A sound post that is not refused was made in view of the current judgment.
LEMMA PostInformed ==
  ASSUME ReviewInv, NEW post, Sound(post), ~JudgmentRefused(post)
  PROVE  saves[post.save] = [run |-> run, shown |-> CurrentSave] /\ post.expected = Revision
<1>1. post.run = run /\ post.expected = Revision
  BY DEF JudgmentRefused
<1>2. saves[post.save].run = run /\ saves[post.save].shown = CurrentSave
  BY <1>1 DEF Sound, Seen, ReviewInv, ReviewTypes
<1>3. saves[post.save] \in Screens
  BY ElementOfSeq, LenProperties DEF Sound, ReviewInv, ReviewTypes
<1> QED
  BY <1>1, <1>2, <1>3 DEF Screens

\* The judgment that the portal writes.
JudgmentOf(post) ==
  [type |-> "judgment", save |-> post.save, revision |-> post.expected + 1,
   supersedes |-> CurrentSave]

\* One judgment more: what the pages know is older, and every other post stays sound.
LEMMA JudgmentSeen ==
  ASSUME ReviewInv, NEW post, post.save \in Nat, Sound(post), ~JudgmentRefused(post),
         ledger' = Append(ledger, JudgmentOf(post)), UNCHANGED <<run, saves>>
  PROVE  /\ JudgmentOf(post) \in ReviewEvents
         /\ \A r, k : \A v \in Nat : Seen(r, v, k) => Seen(r, v, k)'
         /\ \A other : Sound(other) /\ other.save # post.save /\ other.expected \in Nat
              => Sound(other)'
<1>0. ledger \in Seq(ReviewEvents)
  BY DEF ReviewInv, ReviewTypes
<1>1. Revision \in Nat /\ CurrentSave \in Nat
  BY <1>0, StandingTypes DEF Revision, CurrentSave, Current
<1>2. JudgmentOf(post) \in ReviewEvents /\ JudgmentOf(post).type = "judgment"
  BY <1>1, PostInformed DEF JudgmentOf, ReviewEvents, Judgments
<1>3. Revision' = Revision + 1
  <2>1. Current' = JudgmentOf(post)
    BY <1>0, <1>2, StandingAfter DEF Current
  <2> QED
    BY <2>1, PostInformed DEF Revision, JudgmentOf
<1>4. ASSUME NEW r, NEW k, NEW v \in Nat, Seen(r, v, k)
      PROVE  Seen(r, v, k)'
  BY <1>1, <1>3, <1>4 DEF Seen
<1>5. ASSUME NEW other, Sound(other), other.save # post.save, other.expected \in Nat
      PROVE  Sound(other)'
  <2>1. \A k : k = saves[other.save].shown => Seen(other.run, other.expected, k)'
    BY <1>4, <1>5 DEF Sound
  <2>2. \A n \in Judged(ledger') : ledger'[n].save # other.save
    <3>1. /\ \A n \in Judged(ledger') : n \in Judged(ledger) \/ n = Len(ledger) + 1
          /\ \A n \in Judged(ledger) : ledger'[n] = ledger[n]
          /\ ledger'[Len(ledger) + 1] = JudgmentOf(post)
      <4>1. /\ Judged(ledger') = Judged(ledger) \union
                 (IF JudgmentOf(post).type = "judgment" THEN {Len(ledger) + 1} ELSE {})
            /\ \A n \in Judged(ledger) : ledger'[n] = ledger[n]
            /\ ledger'[Len(ledger) + 1] = JudgmentOf(post)
        BY <1>0, <1>2, JudgedAppend
      <4> QED
        BY <4>1, <1>2
    <3>2. JudgmentOf(post).save = post.save
      BY DEF JudgmentOf
    <3> QED
      BY <1>5, <3>1, <3>2 DEF Sound
  <2> QED
    BY <1>5, <2>1, <2>2 DEF Sound, Seen
<1> QED
  BY <1>2, <1>4, <1>5

\* One judgment more that its author was informed for.
LEMMA JudgmentKept ==
  ASSUME ReviewInv, NEW post, post.save \in Nat, Sound(post), ~JudgmentRefused(post),
         ledger' = Append(ledger, JudgmentOf(post)), UNCHANGED <<run, past, archives, saves>>
  PROVE  /\ ledger' \in Seq(ReviewEvents)
         /\ LedgersInformed' /\ ArchivedRuns' /\ ArchivesExact'
<1>0. ledger \in Seq(ReviewEvents)
  BY DEF ReviewInv, ReviewTypes
<1>1. JudgmentOf(post) \in ReviewEvents
  BY JudgmentSeen
<1>2. ledger' \in Seq(ReviewEvents)
  BY <1>0, <1>1, AppendProperties
<1>3. AllInformed(ledger, run) => AllInformed(ledger', run)
  <2>1. HAVE AllInformed(ledger, run)
  <2>2. /\ post.save \in DOMAIN saves
        /\ \A m \in Judged(ledger) : ledger[m].save # post.save
    BY DEF Sound
  <2>3. /\ JudgmentOf(post).save = post.save
        /\ JudgmentOf(post).revision = Revision + 1
        /\ JudgmentOf(post).supersedes = CurrentSave
        /\ saves[post.save] = [run |-> run, shown |-> CurrentSave]
    BY PostInformed DEF JudgmentOf
  <2>4. /\ JudgmentOf(post).save \in DOMAIN saves
        /\ JudgmentOf(post).revision = Standing(ledger, Len(ledger) + 1).revision + 1
        /\ JudgmentOf(post).supersedes = Standing(ledger, Len(ledger) + 1).save
        /\ saves[JudgmentOf(post).save] = [run |-> run, shown |-> JudgmentOf(post).supersedes]
        /\ \A m \in Judged(ledger) : ledger[m].save # JudgmentOf(post).save
    BY <2>2, <2>3 DEF Revision, CurrentSave, Current
  <2> QED
    BY <1>0, <1>1, <2>1, <2>4, InformedAppend
<1>4. LedgersInformed'
  BY <1>3, LedgersFollow DEF ReviewInv
<1>5. ArchivedRuns' /\ ArchivesExact'
  <2>1. \A a \in Copies : Exact(ledger, a) => Exact(ledger', a)
    BY <1>0, <1>1, ExactAppend
  <2>2. \A r \in 1..run : \A a \in Copies : Exact(LedgerOf(r), a) => Exact(LedgerOf(r)', a)
    BY <2>1 DEF LedgerOf
  <2>3. run' = run /\ run' # run + 1
    BY DEF ReviewInv, ReviewTypes
  <2>4. {} \in SUBSET {Snapshot(ledger)} /\ archives' = archives \union {}
    OBVIOUS
  <2> QED
    BY <2>2, <2>3, <2>4, ArchivesFollow DEF ReviewInv
<1> QED
  BY <1>2, <1>4, <1>5

\* The portal takes or refuses a sound post.
LEMMA PostHandled ==
  ASSUME ReviewInv, NEW post, post.save \in Nat, Sound(post), NEW outcome,
         HandleJudgment(post, outcome), UNCHANGED <<past, archives, saves>>
  PROVE  /\ run' = run /\ ledger' \in Seq(ReviewEvents)
         /\ LedgersInformed' /\ ArchivedRuns' /\ ArchivesExact'
         /\ \A r, k : \A v \in Nat : Seen(r, v, k) => Seen(r, v, k)'
         /\ \A other : Sound(other) /\ other.save # post.save /\ other.expected \in Nat
              => Sound(other)'
<1>1. CASE UNCHANGED <<run, ledger>>
  <2>1. ledger' \in Seq(ReviewEvents) /\ LedgersInformed'
    BY <1>1, LedgersFollow DEF ReviewInv, ReviewTypes
  <2>2. ArchivedRuns' /\ ArchivesExact'
    BY <1>1 DEF ReviewInv, ArchivedRuns, ArchivesExact, LedgerOf
  <2>3. Revision' = Revision /\ CurrentSave' = CurrentSave
    BY <1>1 DEF Revision, CurrentSave, Current
  <2>4. \A r, v, k : Seen(r, v, k) => Seen(r, v, k)'
    BY <1>1, <2>3 DEF Seen
  <2>5. \A other : Sound(other) => Sound(other)'
    BY <1>1, <2>3 DEF Sound, Seen
  <2> QED
    BY <1>1, <2>1, <2>2, <2>4, <2>5
<1>2. CASE ~JudgmentRefused(post) /\ ledger' = Append(ledger, JudgmentOf(post)) /\ run' = run
  BY <1>2, JudgmentSeen, JudgmentKept
<1> QED
  BY <1>1, <1>2 DEF HandleJudgment, JudgmentOf, portalVars

-------------------------------------------------------------------------------
\* The portal is idle while a page reads, gives up or saves.
LEMMA PortalIdle ==
  ASSUME ReviewInv, UNCHANGED <<run, ledger, past, archives, saves>>
  PROVE  /\ LedgersInformed' /\ ArchivedRuns' /\ ArchivesExact'
         /\ Revision' = Revision /\ CurrentSave' = CurrentSave
         /\ \A r, v, k : Seen(r, v, k) => Seen(r, v, k)'
         /\ \A post : Sound(post) => Sound(post)'
<1>1. LedgersInformed'
  BY LedgersFollow DEF ReviewInv
<1>2. ArchivedRuns' /\ ArchivesExact'
  BY DEF ReviewInv, ArchivedRuns, ArchivesExact, LedgerOf
<1>3. Revision' = Revision /\ CurrentSave' = CurrentSave
  BY DEF Revision, CurrentSave, Current
<1>4. \A r, v, k : Seen(r, v, k) => Seen(r, v, k)'
  BY <1>3 DEF Seen
<1>5. \A post : Sound(post) => Sound(post)'
  BY <1>3 DEF Sound, Seen
<1> QED
  BY <1>1, <1>2, <1>3, <1>4, <1>5

\* Pages that look, or forget what they wait for, send nothing.
LEMMA PageLooks ==
  ASSUME ReviewInv, UNCHANGED <<run, ledger, past, archives, saves, abandoned>>,
         report' \in [Evaluators -> Reports \union {None}], ReportsTrue',
         saving' \in [Evaluators -> Awaited \union {None}],
         \A p \in Evaluators : OnItsWay(p)' =>
           /\ OnItsWay(p) /\ saving'[p].save = saving[p].save
           /\ saving'[p].run = saving[p].run /\ saving'[p].expected = saving[p].expected
  PROVE  ReviewInv'
<1>1. ReviewTypes'
  BY DEF ReviewInv, ReviewTypes
<1>2. \A post : Sound(post) => Sound(post)'
  BY PortalIdle
<1>3. \A post \in abandoned' : Sound(post)'
  BY <1>2 DEF ReviewInv, PostsSound
<1>4. ASSUME NEW p \in Evaluators, OnItsWay(p)'
      PROVE  /\ Sound(saving[p])'
             /\ \A q \in Evaluators \ {p} : OnItsWay(q)' => saving'[q].save # saving'[p].save
             /\ \A post \in abandoned' : post.save # saving'[p].save
  <2>1. OnItsWay(p) /\ Sound(saving[p])
    BY <1>4 DEF ReviewInv, PostsSound
  <2>2. Sound(saving[p])'
    <3>1. \A k : k = saving[p] => Sound(k)'
      BY <1>2, <2>1
    <3> QED
      BY <1>4, <3>1 DEF Sound
  <2> QED
    BY <1>4, <2>1, <2>2 DEF ReviewInv, PostsSound
<1>5. PostsSound'
  BY <1>3, <1>4 DEF ReviewInv, PostsSound
<1> QED
  BY <1>1, <1>5, PortalIdle DEF ReviewInv

LEMMA ReadReportKeeps ==
  ASSUME ReviewInv, NEW p \in Evaluators, ReadReport(p)
  PROVE  ReviewInv'
<1> DEFINE read == [run |-> run, terminal |-> play = "stopped", revision |-> Revision,
                    shown |-> CurrentSave]
<1>1. UNCHANGED <<run, ledger, past, archives, saves, abandoned>>
  BY DEF ReadReport, portalVars
<1>2. Revision \in Nat /\ CurrentSave \in Nat /\ run \in Nat
  BY StandingTypes DEF ReviewInv, ReviewTypes, Revision, CurrentSave, Current
<1>3. report' = [report EXCEPT ![p] = read]
  BY DEF ReadReport
<1>4. read \in Reports /\ Seen(read.run, read.revision, read.shown)
  BY <1>2 DEF Reports, Seen
<1> HIDE DEF read
<1>5. report' \in [Evaluators -> Reports \union {None}]
  BY <1>3, <1>4 DEF ReviewInv, ReviewTypes
<1>6. ReportsTrue'
  <2>1. Revision' = Revision /\ CurrentSave' = CurrentSave
    BY <1>1, PortalIdle
  <2>2. ASSUME NEW q \in Evaluators, report'[q] # None, report'[q].terminal
        PROVE  Seen(report'[q].run, report'[q].revision, report'[q].shown)
    <3>1. CASE q = p
      BY <1>3, <1>4, <3>1 DEF ReviewInv, ReviewTypes
    <3>2. CASE q # p
      BY <1>3, <2>2, <3>2 DEF ReviewInv, ReviewTypes, ReportsTrue
    <3> QED
      BY <3>1, <3>2
  <2> QED
    BY <1>1, <2>1, <2>2 DEF ReportsTrue, Seen
<1>7. saving' \in [Evaluators -> Awaited \union {None}]
  BY DEF ReadReport, Disowned, ReviewInv, ReviewTypes, Awaited
<1>8. \A q \in Evaluators : OnItsWay(q)' =>
        /\ OnItsWay(q) /\ saving'[q].save = saving[q].save
        /\ saving'[q].run = saving[q].run /\ saving'[q].expected = saving[q].expected
  BY DEF ReadReport, Disowned, ReviewInv, ReviewTypes, Awaited, OnItsWay
<1> QED
  BY <1>1, <1>5, <1>6, <1>7, <1>8, PageLooks

LEMMA ReportFailsKeeps ==
  ASSUME ReviewInv, NEW p \in Evaluators, ReportFails(p)
  PROVE  ReviewInv'
<1>1. UNCHANGED <<run, ledger, past, archives, saves, abandoned, saving>>
  BY DEF ReportFails, portalVars
<1>2. report' \in [Evaluators -> Reports \union {None}]
  BY DEF ReportFails, ReviewInv, ReviewTypes, Reports
<1>3. \A q \in Evaluators : report'[q] # None /\ report'[q].terminal => report'[q] = report[q]
  BY DEF ReportFails, ReviewInv, ReviewTypes
<1>4. ReportsTrue'
  <2>1. Revision' = Revision /\ CurrentSave' = CurrentSave
    BY <1>1, PortalIdle
  <2> QED
    BY <1>1, <1>3, <2>1 DEF ReviewInv, ReportsTrue, Seen
<1>5. \A q \in Evaluators : OnItsWay(q)' => OnItsWay(q)
  BY <1>1 DEF OnItsWay
<1>6. saving' \in [Evaluators -> Awaited \union {None}]
  BY <1>1 DEF ReviewInv, ReviewTypes
<1> QED
  BY <1>1, <1>2, <1>4, <1>5, <1>6, PageLooks

LEMMA ReconnectKeeps ==
  ASSUME ReviewInv, NEW p \in Evaluators, Reconnect(p)
  PROVE  ReviewInv'
<1>1. UNCHANGED <<run, ledger, past, archives, saves, abandoned>>
  BY DEF Reconnect, portalVars
<1>2. report' \in [Evaluators -> Reports \union {None}]
  BY DEF Reconnect, ReviewInv, ReviewTypes
<1>3. \A q \in Evaluators : report'[q] # None => report'[q] = report[q]
  BY DEF Reconnect, ReviewInv, ReviewTypes
<1>4. ReportsTrue'
  <2>1. Revision' = Revision /\ CurrentSave' = CurrentSave
    BY <1>1, PortalIdle
  <2> QED
    BY <1>1, <1>3, <2>1 DEF ReviewInv, ReportsTrue, Seen
<1>5. saving' \in [Evaluators -> Awaited \union {None}]
  BY DEF Reconnect, Disowned, ReviewInv, ReviewTypes, Awaited
<1>6. \A q \in Evaluators : OnItsWay(q)' =>
        /\ OnItsWay(q) /\ saving'[q].save = saving[q].save
        /\ saving'[q].run = saving[q].run /\ saving'[q].expected = saving[q].expected
  BY DEF Reconnect, Disowned, ReviewInv, ReviewTypes, Awaited, OnItsWay
<1> QED
  BY <1>1, <1>2, <1>4, <1>5, <1>6, PageLooks

\* A save that is given up is on its way as it was.
LEMMA AbandonSound ==
  ASSUME ReviewInv, NEW p \in Evaluators,
         NEW given, given = abandoned \union Abandon(saving[p])
  PROVE  /\ given \subseteq Posts
         /\ \A post \in given : Sound(post)
         /\ \A v, w \in given : v.save = w.save => v = w
         /\ \A q \in Evaluators \ {p} : OnItsWay(q) =>
              \A post \in given : post.save # saving[q].save
<1>1. CASE ~OnItsWay(p)
  <2>1. Abandon(saving[p]) = {}
    BY <1>1 DEF OnItsWay, Abandon
  <2> QED
    BY <2>1 DEF ReviewInv, ReviewTypes, PostsSound
<1>2. CASE OnItsWay(p)
  <2> DEFINE post == [save |-> saving[p].save, run |-> saving[p].run,
                      expected |-> saving[p].expected]
  <2>1. given = abandoned \union {post}
    BY <1>2 DEF OnItsWay, Abandon
  <2>2. saving[p] \in Awaited
    BY <1>2 DEF ReviewInv, ReviewTypes, OnItsWay
  <2>3. post \in Posts
    BY <2>2 DEF Posts, Awaited
  <2>4. Sound(post)
    <3>1. Sound(saving[p])
      BY <1>2 DEF ReviewInv, PostsSound
    <3>2. post.save = saving[p].save /\ post.run = saving[p].run /\ post.expected = saving[p].expected
      OBVIOUS
    <3> HIDE DEF post
    <3> QED
      BY <3>1, <3>2 DEF Sound
  <2>5. post.save = saving[p].save
    OBVIOUS
  <2> HIDE DEF post
  <2>6. /\ \A other \in abandoned : other \in Posts /\ Sound(other) /\ other.save # post.save
        /\ \A v, w \in abandoned : v.save = w.save => v = w
        /\ \A q \in Evaluators \ {p} : OnItsWay(q) =>
             /\ post.save # saving[q].save
             /\ \A other \in abandoned : other.save # saving[q].save
    BY <1>2, <2>5 DEF ReviewInv, ReviewTypes, PostsSound
  <2> QED
    BY <2>1, <2>3, <2>4, <2>6
<1> QED
  BY <1>1, <1>2

LEMMA SettleSaveKeeps ==
  ASSUME ReviewInv, NEW p \in Evaluators, SettleSave(p)
  PROVE  ReviewInv'
<1>1. /\ UNCHANGED <<run, ledger, past, archives, saves, report>>
      /\ saving' = [saving EXCEPT ![p] = None]
      /\ abandoned' = abandoned \union Abandon(saving[p])
  BY DEF SettleSave, portalVars
<1>2. /\ abandoned' \subseteq Posts
      /\ \A post \in abandoned' : Sound(post)
      /\ \A v, w \in abandoned' : v.save = w.save => v = w
      /\ \A q \in Evaluators \ {p} : OnItsWay(q) =>
           \A post \in abandoned' : post.save # saving[q].save
  BY <1>1, AbandonSound
<1>3. /\ Revision' = Revision /\ CurrentSave' = CurrentSave
      /\ \A post : Sound(post) => Sound(post)'
  BY <1>1, PortalIdle
<1>4. ReviewTypes'
  BY <1>1, <1>2 DEF ReviewInv, ReviewTypes
<1>5. ReportsTrue'
  BY <1>1, <1>3 DEF ReviewInv, ReportsTrue, Seen
<1>6. \A q \in Evaluators : OnItsWay(q)' => q # p /\ OnItsWay(q) /\ saving'[q] = saving[q]
  BY <1>1 DEF OnItsWay, ReviewInv, ReviewTypes
<1>7. ASSUME NEW q \in Evaluators, OnItsWay(q)'
      PROVE  /\ Sound(saving[q])'
             /\ \A r \in Evaluators \ {q} : OnItsWay(r)' => saving'[r].save # saving'[q].save
             /\ \A post \in abandoned' : post.save # saving'[q].save
  <2>1. q # p /\ OnItsWay(q) /\ saving'[q] = saving[q] /\ Sound(saving[q])
    BY <1>6, <1>7 DEF ReviewInv, PostsSound
  <2>2. Sound(saving[q])'
    <3>1. \A k : k = saving[q] => Sound(k)'
      BY <1>3, <2>1
    <3> QED
      BY <2>1, <3>1 DEF Sound
  <2> QED
    BY <1>2, <1>6, <2>1, <2>2 DEF ReviewInv, PostsSound
<1>8. PostsSound'
  BY <1>2, <1>3, <1>7 DEF PostsSound
<1> QED
  BY <1>1, <1>4, <1>5, <1>8, PortalIdle DEF ReviewInv

\* One save more leaves what was saved before as it was.
LEMMA SavesGrow ==
  ASSUME ReviewInv, NEW look \in Screens, saves' = Append(saves, look),
         UNCHANGED <<run, ledger, past, archives>>
  PROVE  /\ saves' \in Seq(Screens) /\ Len(saves) + 1 \in DOMAIN saves'
         /\ saves'[Len(saves) + 1] = look
         /\ Revision' = Revision /\ CurrentSave' = CurrentSave
         /\ LedgersInformed'
         /\ \A post : Sound(post) => Sound(post)'
<1>1. /\ saves' \in Seq(Screens) /\ Len(saves') = Len(saves) + 1
      /\ \A k \in 1..Len(saves) : saves'[k] = saves[k]
      /\ saves'[Len(saves) + 1] = look
  BY AppendProperties DEF ReviewInv, ReviewTypes
<1>2. DOMAIN saves = 1..Len(saves) /\ DOMAIN saves' = 1..Len(saves') /\ Len(saves) \in Nat
  BY <1>1, LenProperties DEF ReviewInv, ReviewTypes
<1>3. Len(saves) + 1 \in DOMAIN saves'
  BY <1>1, <1>2
<1>4. \A k \in DOMAIN saves : k \in DOMAIN saves' /\ saves'[k] = saves[k]
  BY <1>1, <1>2
<1>5. Revision' = Revision /\ CurrentSave' = CurrentSave
  BY DEF Revision, CurrentSave, Current
<1>6. LedgersInformed'
  <2>1. SUFFICES ASSUME NEW r \in 1..run PROVE AllInformed(LedgerOf(r), r)'
    BY DEF LedgersInformed
  <2>2. AllInformed(LedgerOf(r), r) /\ LedgerOf(r)' = LedgerOf(r)
    BY DEF ReviewInv, LedgersInformed, LedgerOf
  <2>3. ASSUME NEW n \in Judged(LedgerOf(r)) PROVE Informed(LedgerOf(r), r, n)'
    <3>1. Informed(LedgerOf(r), r, n)
      BY <2>2 DEF AllInformed
    <3> QED
      BY <1>4, <2>2, <3>1 DEF Informed
  <2> QED
    BY <2>2, <2>3 DEF AllInformed
<1>7. \A post : Sound(post) => Sound(post)'
  BY <1>4, <1>5 DEF Sound, Seen
<1> QED
  BY <1>1, <1>3, <1>5, <1>6, <1>7

LEMMA SaveKeeps ==
  ASSUME ReviewInv, NEW p \in Evaluators, Save(p)
  PROVE  ReviewInv'
<1> DEFINE look  == [run |-> report[p].run, shown |-> report[p].shown]
           fresh == [save |-> Len(saves) + 1, run |-> report[p].run,
                     expected |-> report[p].revision, mine |-> TRUE, answer |-> None]
<1>1. /\ UNCHANGED <<run, ledger, past, archives, report>>
      /\ saving' = [saving EXCEPT ![p] = fresh]
      /\ saves' = Append(saves, look)
      /\ abandoned' = abandoned \union Abandon(saving[p])
  BY DEF Save, portalVars
<1>2. report[p] \in Reports /\ report[p] # None /\ report[p].terminal
  BY DEF Save, MaySave, ReviewInv, ReviewTypes
<1>3. look \in Screens /\ look.run = report[p].run /\ look.shown = report[p].shown
  BY <1>2 DEF Screens, Reports
<1>4. /\ fresh.save = Len(saves) + 1 /\ fresh.run = report[p].run
      /\ fresh.expected = report[p].revision
  OBVIOUS
<1>5. fresh \in Awaited
  BY <1>2, LenProperties DEF Awaited, Reports, ReviewInv, ReviewTypes
<1> HIDE DEF look, fresh
<1>6. /\ saves' \in Seq(Screens) /\ Len(saves) + 1 \in DOMAIN saves'
      /\ saves'[Len(saves) + 1] = look
      /\ Revision' = Revision /\ CurrentSave' = CurrentSave
      /\ LedgersInformed'
      /\ \A post : Sound(post) => Sound(post)'
  BY <1>1, <1>3, SavesGrow
<1>7. /\ abandoned' \subseteq Posts
      /\ \A post \in abandoned' : Sound(post)
      /\ \A v, w \in abandoned' : v.save = w.save => v = w
      /\ \A q \in Evaluators \ {p} : OnItsWay(q) =>
           \A post \in abandoned' : post.save # saving[q].save
  BY <1>1, AbandonSound
<1>8. \A k \in DOMAIN saves : k # Len(saves) + 1
  BY LenProperties DEF ReviewInv, ReviewTypes
<1>9. ReviewTypes'
  BY <1>1, <1>5, <1>6, <1>7 DEF ReviewInv, ReviewTypes
<1>10. Sound(saving[p])'
  <2>1. Seen(report[p].run, report[p].revision, report[p].shown)
    BY <1>2 DEF ReviewInv, ReportsTrue
  <2>2. \A n \in Judged(ledger) : ledger[n].save # Len(saves) + 1
    <3>1. AllInformed(ledger, run)
      BY DEF ReviewInv, ReviewTypes, LedgersInformed, LedgerOf
    <3> QED
      BY <1>8, <3>1 DEF AllInformed, Informed
  <2>3. saving'[p] = fresh
    BY <1>1 DEF ReviewInv, ReviewTypes
  <2> QED
    BY <1>1, <1>3, <1>4, <1>6, <2>1, <2>2, <2>3 DEF Sound, Seen
<1>11. ASSUME NEW q \in Evaluators \ {p}, OnItsWay(q)'
       PROVE  /\ OnItsWay(q) /\ saving'[q] = saving[q] /\ Sound(saving[q])'
              /\ saving[q].save # Len(saves) + 1
  <2>1. saving'[q] = saving[q]
    BY <1>1 DEF ReviewInv, ReviewTypes
  <2>2. OnItsWay(q)
    BY <1>11, <2>1 DEF OnItsWay
  <2>3. Sound(saving[q])
    BY <2>2 DEF ReviewInv, PostsSound
  <2>4. \A k : k = saving[q] => Sound(k)'
    BY <1>6, <2>3
  <2>5. Sound(saving[q])'
    BY <2>1, <2>4 DEF Sound
  <2> QED
    BY <1>8, <2>1, <2>2, <2>3, <2>5 DEF Sound
<1>12. saving'[p].save = Len(saves) + 1
  BY <1>1, <1>4 DEF ReviewInv, ReviewTypes
<1>13. \A post \in abandoned' : post.save # Len(saves) + 1 /\ Sound(post)'
  BY <1>6, <1>7, <1>8 DEF Sound
<1>14. ASSUME NEW q \in Evaluators, OnItsWay(q)'
       PROVE  /\ Sound(saving[q])'
              /\ \A r \in Evaluators \ {q} : OnItsWay(r)' => saving'[r].save # saving'[q].save
              /\ \A post \in abandoned' : post.save # saving'[q].save
  <2>1. CASE q = p
    BY <1>10, <1>11, <1>12, <1>13, <2>1
  <2>2. CASE q # p
    <3>1. /\ OnItsWay(q) /\ saving'[q] = saving[q] /\ Sound(saving[q])'
          /\ saving[q].save # Len(saves) + 1
      BY <1>11, <1>14, <2>2
    <3>2. ASSUME NEW r \in Evaluators \ {q}, OnItsWay(r)'
          PROVE  saving'[r].save # saving'[q].save
      <4>1. CASE r = p
        BY <1>12, <3>1, <4>1
      <4>2. CASE r # p
        <5>1. OnItsWay(r) /\ saving'[r] = saving[r]
          BY <1>11, <3>2, <4>2
        <5> QED
          BY <3>1, <3>2, <5>1 DEF ReviewInv, PostsSound
      <4> QED
        BY <4>1, <4>2
    <3> QED
      BY <1>7, <2>2, <3>1, <3>2
  <2> QED
    BY <2>1, <2>2
<1>15. PostsSound'
  BY <1>7, <1>13, <1>14 DEF PostsSound
<1>16. ReportsTrue'
  BY <1>1, <1>6 DEF ReviewInv, ReportsTrue, Seen
<1>17. ArchivedRuns' /\ ArchivesExact'
  BY <1>1 DEF ReviewInv, ArchivedRuns, ArchivesExact, LedgerOf
<1> QED
  BY <1>6, <1>9, <1>15, <1>16, <1>17 DEF ReviewInv

LEMMA ArriveSaveKeeps ==
  ASSUME ReviewInv, NEW p \in Evaluators, NEW outcome, ArriveSave(p, outcome)
  PROVE  ReviewInv'
<1>1. /\ OnItsWay(p) /\ HandleJudgment(saving[p], outcome)
      /\ UNCHANGED <<past, archives, report, abandoned, saves>>
      /\ saving' \in {[saving EXCEPT ![p].answer = "failed"], [saving EXCEPT ![p].answer = "recorded"]}
  BY DEF ArriveSave, OnItsWay
<1>2. /\ Sound(saving[p]) /\ saving[p] \in Awaited /\ saving[p].save \in Nat
  BY <1>1 DEF ReviewInv, ReviewTypes, PostsSound, OnItsWay, Awaited
<1>3. /\ run' = run /\ ledger' \in Seq(ReviewEvents)
      /\ LedgersInformed' /\ ArchivedRuns' /\ ArchivesExact'
      /\ \A r, k : \A v \in Nat : Seen(r, v, k) => Seen(r, v, k)'
      /\ \A other : Sound(other) /\ other.save # saving[p].save /\ other.expected \in Nat
           => Sound(other)'
  BY <1>1, <1>2, PostHandled
<1>4. saving' \in [Evaluators -> Awaited \union {None}]
  <2>1. \A a \in {"failed", "recorded"} : [saving[p] EXCEPT !.answer = a] \in Awaited
    BY <1>2 DEF Awaited
  <2>2. saving \in [Evaluators -> Awaited \union {None}]
    BY DEF ReviewInv, ReviewTypes
  <2> QED
    BY <1>1, <2>1, <2>2
<1>5. ReviewTypes'
  BY <1>1, <1>3, <1>4 DEF ReviewInv, ReviewTypes
<1>6. ReportsTrue'
  <2>1. \A q \in Evaluators : report[q] # None => report[q].revision \in Nat
    BY DEF ReviewInv, ReviewTypes, Reports
  <2> QED
    BY <1>1, <1>3, <2>1 DEF ReviewInv, ReportsTrue
<1>7. \A post \in abandoned : Sound(post)'
  <2>1. \A post \in abandoned : Sound(post) /\ post.save # saving[p].save /\ post.expected \in Nat
    BY <1>1 DEF ReviewInv, ReviewTypes, PostsSound, Posts
  <2> QED
    BY <1>3, <2>1
<1>8. ~OnItsWay(p)'
  BY <1>1, <1>2, ReviewAssumption DEF OnItsWay, ReviewInv, ReviewTypes, Awaited
<1>9. ASSUME NEW q \in Evaluators, OnItsWay(q)'
      PROVE  q # p /\ OnItsWay(q) /\ saving'[q] = saving[q] /\ Sound(saving[q])'
  <2>1. q # p /\ saving'[q] = saving[q]
    BY <1>1, <1>8, <1>9 DEF ReviewInv, ReviewTypes
  <2>2. OnItsWay(q)
    BY <1>9, <2>1 DEF OnItsWay
  <2>3. Sound(saving[q]) /\ saving[q].save # saving[p].save /\ saving[q].expected \in Nat
    BY <1>1, <2>1, <2>2 DEF ReviewInv, ReviewTypes, PostsSound, OnItsWay, Awaited
  <2>4. \A k : k = saving[q] => Sound(k)'
    BY <1>3, <2>3
  <2>5. Sound(saving[q])'
    BY <2>1, <2>4 DEF Sound
  <2> QED
    BY <2>1, <2>2, <2>5
<1>10. PostsSound'
  BY <1>1, <1>7, <1>9 DEF ReviewInv, PostsSound
<1> QED
  BY <1>3, <1>5, <1>6, <1>10 DEF ReviewInv

LEMMA ArriveAbandonedKeeps ==
  ASSUME ReviewInv, NEW post, NEW outcome, ArriveAbandoned(post, outcome)
  PROVE  ReviewInv'
<1>1. /\ post \in abandoned /\ abandoned' = abandoned \ {post}
      /\ HandleJudgment(post, outcome)
      /\ UNCHANGED <<past, archives, report, saving, saves>>
  BY DEF ArriveAbandoned
<1>2. Sound(post) /\ post.save \in Nat
  BY <1>1 DEF ReviewInv, ReviewTypes, PostsSound, Posts
<1>3. /\ run' = run /\ ledger' \in Seq(ReviewEvents)
      /\ LedgersInformed' /\ ArchivedRuns' /\ ArchivesExact'
      /\ \A r, k : \A v \in Nat : Seen(r, v, k) => Seen(r, v, k)'
      /\ \A other : Sound(other) /\ other.save # post.save /\ other.expected \in Nat
           => Sound(other)'
  BY <1>1, <1>2, PostHandled
<1>4. ReviewTypes'
  BY <1>1, <1>3 DEF ReviewInv, ReviewTypes
<1>5. ReportsTrue'
  <2>1. \A q \in Evaluators : report[q] # None => report[q].revision \in Nat
    BY DEF ReviewInv, ReviewTypes, Reports
  <2> QED
    BY <1>1, <1>3, <2>1 DEF ReviewInv, ReportsTrue
<1>6. \A other \in abandoned' : Sound(other)'
  <2>1. \A other \in abandoned' : Sound(other) /\ other.save # post.save /\ other.expected \in Nat
    BY <1>1 DEF ReviewInv, ReviewTypes, PostsSound, Posts
  <2> QED
    BY <1>3, <2>1
<1>7. ASSUME NEW q \in Evaluators, OnItsWay(q)'
      PROVE  OnItsWay(q) /\ Sound(saving[q])'
  <2>1. OnItsWay(q)
    BY <1>1, <1>7 DEF OnItsWay
  <2>2. Sound(saving[q]) /\ saving[q].save # post.save /\ saving[q].expected \in Nat
    BY <1>1, <2>1 DEF ReviewInv, ReviewTypes, PostsSound, OnItsWay, Awaited
  <2>3. \A k : k = saving[q] => Sound(k)'
    BY <1>3, <2>2
  <2>4. Sound(saving[q])'
    BY <1>1, <2>3 DEF Sound
  <2> QED
    BY <2>1, <2>4
<1>8. PostsSound'
  BY <1>1, <1>6, <1>7 DEF ReviewInv, PostsSound
<1> QED
  BY <1>3, <1>4, <1>5, <1>8 DEF ReviewInv

-------------------------------------------------------------------------------
\* The audit of a snapshot is an event, and no judgment.
LEMMA AuditedKeeps ==
  ASSUME ReviewInv
  PROVE  /\ NextNumber \in Nat /\ [type |-> "archive", number |-> NextNumber] \in ReviewEvents
         /\ Audited \in Seq(ReviewEvents)
         /\ Quiet(ledger, Audited) /\ Exact(Audited, Snapshot(ledger))
<1> DEFINE audit == [type |-> "archive", number |-> NextNumber]
<1>0. ledger \in Seq(ReviewEvents)
  BY DEF ReviewInv, ReviewTypes
<1>1. NextNumber \in Nat
  BY FS_CardinalityType DEF ReviewInv, ReviewTypes, NextNumber
<1>2. audit \in ReviewEvents /\ audit.type # "judgment"
  BY <1>1 DEF ReviewEvents, Audits
<1>3. Exact(Append(ledger, audit), [number |-> NextNumber, run |-> run, events |-> ledger])
  BY <1>0, <1>1, ExactSnapshot
<1> HIDE DEF audit
<1>4. Quiet(ledger, Append(ledger, audit))
  BY <1>0, <1>2, QuietAppend
<1>5. Append(ledger, audit) \in Seq(ReviewEvents)
  BY <1>4 DEF Quiet
<1> QED
  BY <1>1, <1>2, <1>3, <1>4, <1>5 DEF Audited, Snapshot, audit

LEMMA QuietNow == ReviewInv => Quiet(ledger, ledger)
  BY DEF ReviewInv, ReviewTypes, Quiet

\* A capture, and a reset whose archive fails.
LEMMA FreezeKeeps ==
  ASSUME ReviewInv, NEW outcome, Freeze(outcome, ledger),
         UNCHANGED <<run, past, report, saving, abandoned, saves>>
  PROVE  ReviewInv'
<1>1. CASE Stored(outcome)
  <2>1. ledger' = Audited /\ archives' = archives \union {Snapshot(ledger)}
    BY <1>1 DEF Freeze, ArchiveAppended
  <2>2. Quiet(ledger, ledger') /\ Exact(ledger', Snapshot(ledger))
    BY <2>1, AuditedKeeps
  <2> QED
    BY <2>1, <2>2, QuietStep
<1>2. CASE ~Stored(outcome)
  <2>1. ledger' = ledger /\ archives' = archives
    BY <1>2 DEF Freeze, ArchiveAppended
  <2>2. Quiet(ledger, ledger')
    BY <2>1, QuietNow
  <2> QED
    BY <2>1, <2>2, QuietStep
<1> QED
  BY <1>1, <1>2

LEMMA CaptureKeeps ==
  ASSUME ReviewInv, NEW bundle, NEW outcome, Capture(bundle, outcome)
  PROVE  ReviewInv'
<1>1. bundle = ledger /\ Freeze(outcome, bundle)
  BY DEF Capture, Stale
<1>2. UNCHANGED <<run, past, report, saving, abandoned, saves>>
  BY DEF Capture, reviewPages
<1> QED
  BY <1>1, <1>2, FreezeKeeps

LEMMA ResetUnarchivedKeeps ==
  ASSUME ReviewInv, NEW outcome, ResetUnarchived(outcome)
  PROVE  ReviewInv'
<1>1. Freeze(outcome, ledger) /\ UNCHANGED <<run, past, report, saving, abandoned, saves>>
  BY DEF ResetUnarchived, reviewPages
<1> QED
  BY <1>1, FreezeKeeps

LEMMA ResetAbortedKeeps ==
  ASSUME ReviewInv, NEW outcome, ResetAborted(outcome)
  PROVE  ReviewInv'
<1>1. /\ archives' = archives \union {Snapshot(ledger)}
      /\ UNCHANGED <<run, past, report, saving, abandoned, saves>>
  BY DEF ResetAborted, reviewPages
<1>2. Quiet(ledger, Audited) /\ Exact(Audited, Snapshot(ledger)) /\ Audited \in Seq(ReviewEvents)
  BY AuditedKeeps
<1>3. Snapshot(ledger) \in Copies
  BY AuditedKeeps DEF ReviewInv, ReviewTypes, Snapshot, Copies
<1>4. Quiet(ledger, ledger') /\ Exact(ledger', Snapshot(ledger))
  <2>1. CASE ledger' = Audited
    BY <1>2, <2>1
  <2>2. CASE ledger' = Append(Audited, [type |-> "cleanup"])
    <3>1. [type |-> "cleanup"] \in ReviewEvents /\ [type |-> "cleanup"].type # "judgment"
      BY DEF ReviewEvents, Cleanups
    <3>2. Quiet(Audited, ledger')
      BY <1>2, <2>2, <3>1, QuietAppend
    <3> QED
      BY <1>2, <1>3, <3>2 DEF Quiet
  <2> QED
    BY <2>1, <2>2 DEF ResetAborted
<1> QED
  BY <1>1, <1>4, QuietStep

\* The next run: its predecessor's ledger ends with the audit of its last archive.
LEMMA ResetReviewKeeps ==
  ASSUME ReviewInv, ResetReview
  PROVE  ReviewInv'
<1>1. /\ archives' = archives \union {Snapshot(ledger)} /\ past' = Append(past, Audited)
      /\ ledger' = <<>> /\ run' = run + 1
      /\ UNCHANGED <<report, saving, abandoned, saves>>
  BY DEF ResetReview, reviewPages
<1>2. /\ Quiet(ledger, Audited) /\ Exact(Audited, Snapshot(ledger))
      /\ Audited \in Seq(ReviewEvents) /\ NextNumber \in Nat
  BY AuditedKeeps
<1>3. /\ past' \in Seq(Seq(ReviewEvents)) /\ Len(past') = run
      /\ \A r \in 1..run - 1 : past'[r] = past[r]
      /\ past'[run] = Audited
  <2>1. past \in Seq(Seq(ReviewEvents)) /\ Len(past) = run - 1 /\ run \in Nat \ {0}
    BY DEF ReviewInv, ReviewTypes
  <2>2. /\ Append(past, Audited) \in Seq(Seq(ReviewEvents))
        /\ Len(Append(past, Audited)) = Len(past) + 1
        /\ \A r \in 1..Len(past) : Append(past, Audited)[r] = past[r]
        /\ Append(past, Audited)[Len(past) + 1] = Audited
    BY <1>2, <2>1, AppendProperties
  <2> QED
    BY <1>1, <2>1, <2>2
<1>4. Snapshot(ledger) \in Copies
  BY <1>2 DEF ReviewInv, ReviewTypes, Snapshot, Copies
<1>5. ledger' \in Seq(ReviewEvents) /\ Judged(ledger') = {}
  BY <1>1 DEF Judged
<1>6. ReviewTypes'
  <2>1. IsFiniteSet(archives') /\ archives' \subseteq Copies
    BY <1>1, <1>4, FS_AddElement DEF ReviewInv, ReviewTypes
  <2> QED
    BY <1>1, <1>3, <1>5, <2>1 DEF ReviewInv, ReviewTypes
<1>7. \A r \in Nat : \A v, k : Seen(r, v, k) => Seen(r, v, k)'
  BY <1>1 DEF Seen, ReviewInv, ReviewTypes
<1>8. \A post : post.run \in Nat /\ Sound(post) => Sound(post)'
  BY <1>1, <1>5 DEF Sound, Seen, ReviewInv, ReviewTypes
<1>9. ReportsTrue' /\ PostsSound'
  BY <1>1, <1>7, <1>8, PagesIdle DEF ReviewInv
<1>10. \A r \in 1..run : LedgerOf(r)' = IF r = run THEN Audited ELSE LedgerOf(r)
  BY <1>1, <1>3 DEF LedgerOf, ReviewInv, ReviewTypes
<1>11. LedgersInformed'
  <2>1. \A r \in 1..run' : AllInformed(LedgerOf(r)', r)
    <3>1. ASSUME NEW r, r \in 1..run', r \in 1..run
          PROVE  AllInformed(LedgerOf(r)', r)
      <4>1. AllInformed(LedgerOf(r), r)
        BY <3>1 DEF ReviewInv, LedgersInformed
      <4>2. CASE r = run
        BY <1>2, <1>10, <3>1, <4>1, <4>2 DEF Quiet, LedgerOf
      <4>3. CASE r # run
        BY <1>10, <3>1, <4>1, <4>3
      <4> QED
        BY <4>2, <4>3
    <3>2. ASSUME NEW r, r \in 1..run', r \notin 1..run
          PROVE  AllInformed(LedgerOf(r)', r)
      <4>1. run \in Nat /\ run' = run + 1
        BY <1>1 DEF ReviewInv, ReviewTypes
      <4>2. r = run + 1
        BY <3>2, <4>1
      <4>3. LedgerOf(r)' = ledger'
        BY <1>1, <4>2 DEF LedgerOf
      <4> QED
        BY <1>5, <4>3 DEF AllInformed
    <3> QED
      BY <3>1, <3>2
  <2>2. saves' = saves
    BY <1>1
  <2> QED
    BY <2>1, <2>2 DEF LedgersInformed, AllInformed, Informed
<1>12. ArchivedRuns' /\ ArchivesExact'
  <2>1. {Snapshot(ledger)} \in SUBSET {Snapshot(ledger)}
    OBVIOUS
  <2>2. \A r \in 1..run : \A a \in Copies : Exact(LedgerOf(r), a) => Exact(LedgerOf(r)', a)
    <3>1. ASSUME NEW r \in 1..run, NEW a \in Copies, Exact(LedgerOf(r), a)
          PROVE  Exact(LedgerOf(r)', a)
      <4>1. CASE r = run
        BY <1>2, <1>10, <3>1, <4>1 DEF Quiet, LedgerOf
      <4>2. CASE r # run
        BY <1>10, <3>1, <4>2
      <4> QED
        BY <4>1, <4>2
    <3> QED
      BY <3>1
  <2>3. \A a \in {Snapshot(ledger)} : Exact(LedgerOf(a.run)', a)
    <3>1. Snapshot(ledger).run = run /\ run \in 1..run
      BY DEF Snapshot, ReviewInv, ReviewTypes
    <3>2. \A r : r = run => LedgerOf(r)' = Audited
      BY <1>10, <3>1
    <3>3. \A a : a = Snapshot(ledger) => LedgerOf(a.run)' = Audited
      BY <3>1, <3>2
    <3> QED
      BY <1>2, <3>3
  <2>4. Judged(past'[run]) = Judged(ledger)
    BY <1>2, <1>3 DEF Quiet
  <2>5. run' \in {run, run + 1}
    BY <1>1
  <2> DEFINE N == {Snapshot(ledger)}
  <2>6. N \in SUBSET {Snapshot(ledger)} /\ archives' = archives \union N /\ N # {}
    BY <1>1
  <2> HIDE DEF N
  <2>7. \A a \in N : Exact(LedgerOf(a.run)', a)
    BY <2>3 DEF N
  <2> QED
    BY <1>3, <2>2, <2>4, <2>5, <2>6, <2>7, ArchivesFollow DEF ReviewInv
<1> QED
  BY <1>6, <1>9, <1>11, <1>12 DEF ReviewInv

-------------------------------------------------------------------------------
LEMMA ReviewInitially == PortalInit /\ ReviewInit => ReviewInv
<1> SUFFICES ASSUME PortalInit, ReviewInit PROVE ReviewInv
  OBVIOUS
<1>1. run = 1 /\ ledger = <<>> /\ past = <<>> /\ archives = {} /\ abandoned = {} /\ saves = <<>>
  BY DEF PortalInit, ReviewInit
<1>2. Judged(ledger) = {} /\ LedgerOf(1) = ledger
  BY <1>1 DEF Judged, LedgerOf
<1>3. ReviewTypes
  BY <1>1, FS_EmptySet DEF ReviewInit, ReviewTypes
<1>4. ReportsTrue /\ PostsSound
  BY <1>1 DEF ReviewInit, ReportsTrue, PostsSound, OnItsWay
<1>5. LedgersInformed
  BY <1>1, <1>2 DEF LedgersInformed, AllInformed
<1>6. ArchivedRuns /\ ArchivesExact
  BY <1>1 DEF ArchivedRuns, ArchivesExact
<1> QED
  BY <1>3, <1>4, <1>5, <1>6 DEF ReviewInv

\* ReviewInv speaks of no other variable than these.
LEMMA ReviewUntouched ==
  ASSUME ReviewInv, UNCHANGED <<run, ledger, past, archives, report, saving, abandoned, saves>>
  PROVE  ReviewInv'
  BY QuietNow, QuietStep

LEMMA ReviewIsInductive == ReviewInv /\ [ReviewNext]_reviewVars => ReviewInv'
<1> SUFFICES ASSUME ReviewInv, [ReviewNext]_reviewVars PROVE ReviewInv'
  OBVIOUS
<1>1. CASE ReviewPlay
  <2>1. UNCHANGED <<run, ledger, past, archives, report, saving, abandoned, saves>>
    BY <1>1 DEF ReviewPlay, StartPlay, EndPlay, reviewPages
  <2> QED
    BY <2>1, ReviewUntouched
<1>2. ASSUME NEW p \in Evaluators, ReadReport(p) PROVE ReviewInv'
  BY <1>2, ReadReportKeeps
<1>3. ASSUME NEW p \in Evaluators, ReportFails(p) PROVE ReviewInv'
  BY <1>3, ReportFailsKeeps
<1>4. ASSUME NEW p \in Evaluators, Reconnect(p) PROVE ReviewInv'
  BY <1>4, ReconnectKeeps
<1>5. ASSUME NEW p \in Evaluators, Save(p) PROVE ReviewInv'
  BY <1>5, SaveKeeps
<1>6. ASSUME NEW p \in Evaluators, SettleSave(p) PROVE ReviewInv'
  BY <1>6, SettleSaveKeeps
<1>7. ASSUME NEW p \in Evaluators, NEW outcome \in Outcomes, ArriveSave(p, outcome)
      PROVE  ReviewInv'
  BY <1>7, ArriveSaveKeeps
<1>8. ASSUME NEW post \in abandoned, NEW outcome \in Outcomes, ArriveAbandoned(post, outcome)
      PROVE  ReviewInv'
  BY <1>8, ArriveAbandonedKeeps
<1>9. ASSUME NEW outcome \in Outcomes, ResetUnarchived(outcome) PROVE ReviewInv'
  BY <1>9, ResetUnarchivedKeeps
<1>10. ASSUME NEW outcome \in Outcomes, NEW n \in 0..Len(ledger),
              Capture(SubSeq(ledger, 1, n), outcome)
       PROVE  ReviewInv'
  BY <1>10, CaptureKeeps
<1>11. ASSUME NEW outcome \in {"ok", "lost"}, ResetAborted(outcome) PROVE ReviewInv'
  BY <1>11, ResetAbortedKeeps
<1>12. CASE ResetReview
  BY <1>12, ResetReviewKeeps
<1>13. CASE UNCHANGED reviewVars
  <2>1. UNCHANGED <<run, ledger, past, archives, report, saving, abandoned, saves>>
    BY <1>13 DEF reviewVars, portalVars, reviewPages
  <2> QED
    BY <2>1, ReviewUntouched
<1> QED
  BY <1>1, <1>2, <1>3, <1>4, <1>5, <1>6, <1>7, <1>8, <1>9, <1>10, <1>11, <1>12, <1>13
  DEF ReviewNext

\* What the runs check follows from the invariant.
LEMMA ReviewInvSuffices == ReviewInv => JudgmentsInformed /\ ArchivesExact
<1> SUFFICES ASSUME ReviewInv PROVE JudgmentsInformed
  BY DEF ReviewInv
<1>1. \A r \in 1..run : \A n \in Judged(LedgerOf(r)) : Informed(LedgerOf(r), r, n)
  BY DEF ReviewInv, LedgersInformed, AllInformed
<1> QED
  BY <1>1 DEF JudgmentsInformed, Informed

\* One step of the desk is one of the workflow that is explored.
LEMMA DeskReviewSteps ==
  ASSUME desk = "review" => ReviewInv, [DeskNext]_deskVars
  PROVE  (desk = "review" => ReviewInv)'
<1>1. CASE desk = "review" /\ [ReviewNext]_reviewVars
  BY <1>1, ReviewIsInductive
<1>2. CASE desk # "review" /\ desk' = desk
  BY <1>2
<1>3. CASE desk = "review" /\ UNCHANGED deskVars
  BY <1>1, <1>3 DEF deskVars, reviewVars, reviewOnly
<1> QED
  BY <1>1, <1>2, <1>3 DEF DeskNext, deskVars

LEMMA DeskReviewInv == DeskSpec => [](desk = "review" => ReviewInv)
<1>1. DeskInit => (desk = "review" => ReviewInv)
  BY ReviewInitially DEF DeskInit
<1>2. (desk = "review" => ReviewInv) /\ [DeskNext]_deskVars => (desk = "review" => ReviewInv)'
  BY DeskReviewSteps
<1> QED
  BY <1>1, <1>2, PTL DEF DeskSpec

\* Every judgment that any run's ledger holds was made in view of the one that it
\* supersedes, and once (dashboard/service.py judge_objective, orchestrator/aar.py
\* validate_judgment, static/evaluator-review.js submit).
THEOREM JudgmentsAreAlwaysInformed == DeskSpec => []JudgmentsAreInformed
<1>1. (desk = "review" => ReviewInv) => JudgmentsAreInformed
  BY ReviewInvSuffices DEF JudgmentsAreInformed
<1> QED
  BY <1>1, DeskReviewInv, PTL

\* Every archive is its run's ledger up to its own audit, there is one of each, and no
\* run is left without one of all its judgments (dashboard/service.py _capture_review,
\* _reset_run, dashboard/store.py append_review_archive).
THEOREM ArchivesAreAlwaysExact == DeskSpec => []ArchivesAreExact
<1>1. (desk = "review" => ReviewInv) => ArchivesAreExact
  BY ReviewInvSuffices DEF ArchivesAreExact
<1> QED
  BY <1>1, DeskReviewInv, PTL

-------------------------------------------------------------------------------
(***************************************************************************)
(* The evidence page.                                                      *)
(***************************************************************************)

\* The ledger of a run as the portal keeps it.
EvidenceOf(r) == IF r = run THEN events ELSE closed[r]

VisibleTo(r, who) == VisibleIn(EvidenceOf(r), who)

\* ShowsLatest of any sequence.
Latest(seq, found) ==
  /\ Sorted(seq) /\ Range(seq) \subseteq found /\ Len(seq) <= Retained
  /\ \A n \in found \ Range(seq) : Len(seq) = Retained /\ \A m \in Range(seq) : n < m

PagesOfEvidence == [run : Nat, signals : Seq(Nat), more : BOOLEAN, next : Nat, length : Nat]

EvidenceTypes ==
  /\ run \in Nat \ {0}
  /\ events \in Seq(Audiences)
  /\ closed \in Seq(Seq(Audiences)) /\ Len(closed) = run - 1
  /\ runId \in 0..run /\ cursor \in Nat /\ horizon \in Nat /\ signals \in Seq(Nat)
  /\ backlog \in BOOLEAN
  /\ wire \in PagesOfEvidence \union {None}

\* What the page has read is in the ledger of its run.
ReadSoFar ==
  IF runId = 0 THEN signals = <<>> /\ cursor = 0
  ELSE cursor <= Len(EvidenceOf(runId)) /\ horizon <= Len(EvidenceOf(runId))

\* A page on its way that will be applied has all that its account may see of its run
\* from the cursor up to its own last signal; unless there is more, that is all there was.
Continues(page) ==
  LET visible == VisibleTo(page.run, actorToken)
  IN /\ cursor <= page.next /\ page.next <= page.length
     /\ Sorted(page.signals)
     /\ Range(page.signals) = {n \in visible : cursor < n /\ n <= page.next}
     /\ ~page.more => \A n \in visible : n <= page.length => n <= page.next

WireSound ==
  wire # None =>
    /\ wire.run \in 1..run /\ wire.length <= Len(EvidenceOf(wire.run))
    /\ runId \in {0, wire.run} => Continues(wire)

EvidenceInv == EvidenceTypes /\ ReadSoFar /\ WireSound /\ EvidenceWhole

-------------------------------------------------------------------------------
\* An ascending sequence of what is in a set of numbers up to a number.
Enumerates(seq, S, k) ==
  /\ seq \in Seq(Nat) /\ Sorted(seq) /\ Range(seq) = {n \in S : n <= k}

\* One number more.
LEMMA EnumerateNext ==
  ASSUME NEW S \in SUBSET Nat, NEW k \in Nat, NEW seq, Enumerates(seq, S, k)
  PROVE  \E longer : Enumerates(longer, S, k + 1)
<1>1. CASE k + 1 \notin S
  <2>1. {n \in S : n <= k + 1} = {n \in S : n <= k}
    <3>1. \A n \in Nat : n # k + 1 => (n <= k + 1 <=> n <= k)
      OBVIOUS
    <3>2. \A n \in S : n <= k + 1 <=> n <= k
      BY <1>1, <3>1
    <3> QED
      BY <3>2
  <2> QED
    BY <2>1 DEF Enumerates
<1>2. CASE k + 1 \in S
  <2> DEFINE longer == Append(seq, k + 1)
  <2>1. /\ longer \in Seq(Nat) /\ Len(longer) = Len(seq) + 1 /\ Len(seq) \in Nat
        /\ \A i \in 1..Len(seq) : longer[i] = seq[i]
        /\ longer[Len(seq) + 1] = k + 1
    BY AppendProperties, LenProperties DEF Enumerates
  <2>2. DOMAIN longer = 1..Len(seq) + 1 /\ DOMAIN seq = 1..Len(seq)
    BY <2>1, LenProperties DEF Enumerates
  <2> HIDE DEF longer
  <2>3. \A i \in 1..Len(seq) : seq[i] \in S /\ seq[i] \in Nat /\ seq[i] <= k
    BY <2>2 DEF Enumerates, Range
  <2>4. Sorted(longer)
    <3>1. \A i, j \in 1..Len(seq) : i < j => seq[i] < seq[j]
      BY <2>2 DEF Enumerates, Sorted
    <3>2. ASSUME NEW i \in 1..Len(seq) + 1, NEW j \in 1..Len(seq) + 1, i < j
          PROVE  longer[i] < longer[j]
      <4>1. CASE j = Len(seq) + 1
        <5>1. i \in 1..Len(seq)
          BY <2>1, <3>2, <4>1
        <5> QED
          BY <2>1, <2>3, <4>1, <5>1
      <4>2. CASE j # Len(seq) + 1
        <5>1. i \in 1..Len(seq) /\ j \in 1..Len(seq)
          BY <2>1, <3>2, <4>2
        <5>2. longer[i] = seq[i] /\ longer[j] = seq[j]
          BY <2>1, <5>1
        <5> QED
          BY <3>1, <3>2, <5>1, <5>2
      <4> QED
        BY <4>1, <4>2
    <3> QED
      BY <2>2, <3>2 DEF Sorted
  <2>5. Range(longer) = Range(seq) \union {k + 1}
    <3>1. \A i \in 1..Len(seq) + 1 : i \in 1..Len(seq) \/ i = Len(seq) + 1
      BY <2>1
    <3>2. \A i \in 1..Len(seq) : i \in 1..Len(seq) + 1
      BY <2>1
    <3>3. Len(seq) + 1 \in 1..Len(seq) + 1
      BY <2>1
    <3> QED
      BY <2>1, <2>2, <3>1, <3>2, <3>3 DEF Range
  <2>6. {n \in S : n <= k + 1} = {n \in S : n <= k} \union {k + 1}
    <3>1. \A n \in Nat : n <= k + 1 <=> n <= k \/ n = k + 1
      OBVIOUS
    <3>2. \A n \in S : n <= k + 1 <=> n <= k \/ n = k + 1
      BY <3>1
    <3> QED
      BY <1>2, <3>2
  <2>7. Enumerates(longer, S, k + 1)
    BY <2>1, <2>4, <2>5, <2>6 DEF Enumerates
  <2> QED
    BY <2>7
<1> QED
  BY <1>1, <1>2

\* Each set of numbers up to a number has an ascending sequence: the smallest number
\* up to which a set had none would follow one up to which it has.
LEMMA EnumerationExists ==
  ASSUME NEW S \in SUBSET (Nat \ {0})
  PROVE  \A k \in Nat : \E seq : Enumerates(seq, S, k)
<1> DEFINE T == {k \in Nat : ~\E seq : Enumerates(seq, S, k)}
<1>1. SUFFICES ASSUME T # {} PROVE FALSE
  OBVIOUS
<1>2. PICK k \in T : \A j \in T : k <= j
  <2>1. T \in SUBSET Nat
    OBVIOUS
  <2> HIDE DEF T
  <2> QED
    BY <1>1, <2>1, SmallestNumber
<1>3. k # 0
  <2>1. Enumerates(<<>>, S, 0)
    <3>1. <<>> \in Seq(Nat) /\ DOMAIN <<>> = {}
      OBVIOUS
    <3>2. \A n \in S : ~(n <= 0)
      OBVIOUS
    <3> QED
      BY <3>1, <3>2 DEF Enumerates, Sorted, Range
  <2> QED
    BY <1>2, <2>1
<1>4. k \in Nat /\ ~\E seq : Enumerates(seq, S, k)
  BY <1>2
<1>5. k - 1 \in Nat /\ ~(k <= k - 1) /\ (k - 1) + 1 = k
  BY <1>3, <1>4
<1>6. k - 1 \notin T
  <2> HIDE DEF T
  <2> QED
    BY <1>2, <1>5
<1>7. PICK seq : Enumerates(seq, S, k - 1)
  BY <1>5, <1>6
<1>8. \E longer : Enumerates(longer, S, (k - 1) + 1)
  <2>1. S \in SUBSET Nat
    OBVIOUS
  <2> QED
    BY <1>5, <1>7, <2>1, EnumerateNext
<1> QED
  BY <1>4, <1>5, <1>8

\* Ascending lists exactly the numbers of a set, in order.
LEMMA AscendingLists ==
  ASSUME NEW N \in Nat, NEW S \in SUBSET (1..N)
  PROVE  Ascending(S) \in Seq(Nat) /\ Sorted(Ascending(S)) /\ Range(Ascending(S)) = S
<1>1. IsFiniteSet(S)
  <2>1. IsFiniteSet(1..N)
    BY FS_Interval
  <2> QED
    BY <2>1, FS_Subset
<1>0. \A n \in S : n \in Nat /\ n \in Int /\ n <= N
  OBVIOUS
<1>2. \A f : \A m \in Nat : f \in [1..m -> S] /\ Sorted(f) => f \in Injection(1..m, S)
  <2>1. SUFFICES ASSUME NEW m \in Nat, NEW f \in [1..m -> S], Sorted(f),
                        NEW i \in 1..m, NEW j \in 1..m, f[i] = f[j], i # j
                 PROVE  FALSE
    BY DEF Injection, IsInjective
  <2>2. f[i] \in Int /\ f[j] \in Int /\ i \in Int /\ j \in Int
    <3>1. f[i] \in S /\ f[j] \in S
      OBVIOUS
    <3>2. i \in Int /\ j \in Int
      OBVIOUS
    <3> QED
      BY <1>0, <3>1, <3>2
  <2>3. i < j \/ j < i
    BY <2>1, <2>2
  <2>4. f[i] < f[j] \/ f[j] < f[i]
    BY <2>1, <2>3 DEF Sorted
  <2> QED
    BY <2>1, <2>2, <2>4
<1>3. PICK seq : Enumerates(seq, S, N)
  <2>1. S \in SUBSET (Nat \ {0})
    OBVIOUS
  <2> QED
    BY <2>1, EnumerationExists
<1>4. Range(seq) = S /\ seq \in Seq(Nat) /\ Sorted(seq)
  <2>1. {n \in S : n <= N} = S
    BY <1>0
  <2> QED
    BY <1>3, <2>1 DEF Enumerates
<1>5. Len(seq) \in Nat /\ DOMAIN seq = 1..Len(seq) /\ seq \in [1..Len(seq) -> S]
  <2>1. Len(seq) \in Nat /\ DOMAIN seq = 1..Len(seq) /\ seq \in [1..Len(seq) -> Nat]
    BY <1>4, LenProperties
  <2> QED
    BY <1>4, <2>1 DEF Range
<1>6. seq \in Bijection(1..Len(seq), S)
  <2>1. seq \in Injection(1..Len(seq), S)
    BY <1>2, <1>4, <1>5
  <2>2. seq \in Surjection(1..Len(seq), S)
    BY <1>4, <1>5 DEF Surjection, Range
  <2> QED
    BY <2>1, <2>2 DEF Bijection
<1>7. Cardinality(S) = Len(seq)
  BY <1>5, <1>6, FS_CountingElements DEF ExistsBijection
<1>8. Ascending(S) \in [1..Cardinality(S) -> S] /\ Sorted(Ascending(S))
  BY <1>4, <1>5, <1>7 DEF Ascending
<1>9. Cardinality(S) \in Nat
  BY <1>5, <1>7
<1>10. Range(Ascending(S)) = S
  <2>1. Ascending(S) \in Injection(1..Cardinality(S), S)
    BY <1>2, <1>8, <1>9
  <2>2. Cardinality(1..Cardinality(S)) = Cardinality(S)
    BY <1>9, FS_Interval
  <2>3. Ascending(S) \in Surjection(1..Cardinality(S), S)
    BY <1>1, <2>1, <2>2, FS_Injection
  <2> QED
    BY <1>8, <2>3 DEF Surjection, Range
<1>11. Ascending(S) \in Seq(Nat)
  <2>1. Ascending(S) \in [1..Cardinality(S) -> Nat]
    BY <1>0, <1>8
  <2> QED
    BY <1>9, <2>1, SeqDef
<1> QED
  BY <1>8, <1>10, <1>11

-------------------------------------------------------------------------------
\* What a part of an ascending sequence is.
LEMMA PartSorted ==
  ASSUME NEW seq \in Seq(Nat), Sorted(seq), NEW a \in Nat \ {0}, NEW b \in 0..Len(seq),
         NEW part, part = SubSeq(seq, a, b)
  PROVE  /\ part \in Seq(Nat) /\ Sorted(part)
         /\ Len(part) = (IF a <= b THEN b - a + 1 ELSE 0)
         /\ Range(part) = {seq[i] : i \in a..b}
<1>1. Len(seq) \in Nat /\ DOMAIN seq = 1..Len(seq) /\ \A i \in 1..Len(seq) : seq[i] \in Nat
  BY LenProperties, ElementOfSeq
<1>2. \A i \in a..b : i \in 1..Len(seq) /\ seq[i] \in Nat
  BY <1>1
<1>3. /\ part \in Seq(Nat) /\ Len(part) = (IF a <= b THEN b - a + 1 ELSE 0)
      /\ \A i \in 1..b - a + 1 : part[i] = seq[a + i - 1]
  BY <1>2, SubSeqProperties
<1>4. DOMAIN part = 1..Len(part) /\ 1..Len(part) = 1..b - a + 1
  <2>1. DOMAIN part = 1..Len(part)
    BY <1>3, LenProperties
  <2>2. a \in Int /\ b \in Int
    BY <1>1
  <2> QED
    BY <1>3, <2>1, <2>2
<1>5. Sorted(part)
  <2>1. SUFFICES ASSUME NEW i \in 1..b - a + 1, NEW j \in 1..b - a + 1, i < j
                 PROVE  part[i] < part[j]
    BY <1>4 DEF Sorted
  <2>2. /\ a + i - 1 \in 1..Len(seq) /\ a + j - 1 \in 1..Len(seq)
        /\ a + i - 1 < a + j - 1
    BY <1>1, <2>1
  <2>3. seq[a + i - 1] < seq[a + j - 1]
    BY <1>1, <2>2 DEF Sorted
  <2> QED
    BY <1>3, <2>3
<1>6. Range(part) = {seq[i] : i \in a..b}
  <2>1. ASSUME NEW i \in 1..b - a + 1 PROVE a + i - 1 \in a..b
    BY <1>1
  <2>2. ASSUME NEW k \in a..b PROVE k - a + 1 \in 1..b - a + 1 /\ a + (k - a + 1) - 1 = k
    BY <1>1
  <2>3. ASSUME NEW k \in a..b PROVE \E i \in 1..b - a + 1 : part[i] = seq[k]
    <3>1. part[k - a + 1] = seq[k] /\ k - a + 1 \in 1..b - a + 1
      BY <1>3, <2>2
    <3> QED
      BY <3>1
  <2>4. Range(part) = {part[i] : i \in 1..b - a + 1}
    BY <1>4 DEF Range
  <2>5. \A x \in Range(part) : \E i \in a..b : x = seq[i]
    BY <1>3, <2>1, <2>4
  <2>6. \A i \in a..b : seq[i] \in Range(part)
    BY <2>3, <2>4
  <2> QED
    BY <2>5, <2>6
<1> QED
  BY <1>3, <1>5, <1>6

\* The page that the portal serves from what an account may see after a number: it ends
\* with its last signal, and has all of them up to there.
LEMMA PageServed ==
  ASSUME NEW N \in Nat, NEW V \in SUBSET (1..N), NEW c \in Nat,
         NEW found, found = Ascending({n \in V : n > c}),
         NEW page, page = FirstOf(found, PageSize),
         NEW next, next = NextSequence(page, c)
  PROVE  /\ page \in Seq(Nat) /\ Sorted(page)
         /\ next \in Nat /\ c <= next /\ (next = c \/ next <= N)
         /\ Range(page) = {n \in V : c < n /\ n <= next}
         /\ ~(Len(found) > PageSize) => \A n \in V : n <= next
<1> DEFINE S == {n \in V : n > c}
           k == IF Len(found) < PageSize THEN Len(found) ELSE PageSize
<1>1. found \in Seq(Nat) /\ Sorted(found) /\ Range(found) = S
  <2>1. S \in SUBSET (1..N)
    OBVIOUS
  <2> HIDE DEF S
  <2>2. Ascending(S) \in Seq(Nat) /\ Sorted(Ascending(S)) /\ Range(Ascending(S)) = S
    BY <2>1, AscendingLists
  <2> QED
    BY <2>2 DEF S
<1>2. Len(found) \in Nat /\ DOMAIN found = 1..Len(found) /\ \A i \in 1..Len(found) : found[i] \in Nat
  BY <1>1, LenProperties, ElementOfSeq
<1>3. k \in 0..Len(found) /\ k \in Nat /\ PageSize \in Nat \ {0} /\ (k = 0 => Len(found) = 0)
  BY <1>2, EvidenceAssumption
<1>4. page = SubSeq(found, 1, k)
  BY DEF FirstOf
<1>5. ~(Len(found) > PageSize) => k = Len(found)
  <2>1. \A x, y \in Nat : ~(x > y) => (IF x < y THEN x ELSE y) = x
    OBVIOUS
  <2> QED
    BY <1>2, <1>3, <2>1
<1>6. \A n \in V : n \in Nat /\ n <= N
  OBVIOUS
<1> HIDE DEF k
<1>7. page \in Seq(Nat) /\ Sorted(page) /\ Len(page) = k /\ Range(page) = {found[i] : i \in 1..k}
  <2>1. 1 \in Nat \ {0} /\ (IF 1 <= k THEN k - 1 + 1 ELSE 0) = k
    BY <1>3
  <2> QED
    BY <1>1, <1>3, <1>4, <2>1, PartSorted
<1>8. \A i \in 1..Len(found) : found[i] \in V /\ found[i] > c
  BY <1>1, <1>2 DEF Range
<1>9. \A n \in V : n > c => \E i \in 1..Len(found) : found[i] = n
  BY <1>1, <1>2 DEF Range
<1>10. CASE k = 0
  <2>1. page = <<>>
    BY <1>7, <1>10
  <2>2. next = c
    BY <2>1 DEF NextSequence
  <2>3. \A n \in V : ~(n > c)
    BY <1>2, <1>3, <1>9, <1>10
  <2>4. Range(page) = {}
    BY <1>7, <1>10
  <2>5. \A n \in V : n <= next /\ ~(c < n)
    <3>1. \A n \in Nat : ~(n > c) => n <= c /\ ~(c < n)
      OBVIOUS
    <3> QED
      BY <1>6, <2>2, <2>3, <3>1
  <2>6. Range(page) = {n \in V : c < n /\ n <= next}
    BY <2>4, <2>5
  <2> QED
    BY <1>7, <2>2, <2>5, <2>6
<1>11. CASE k # 0
  <2>1. page # <<>> /\ k \in 1..k /\ k \in 1..Len(found)
    BY <1>2, <1>3, <1>7, <1>11
  <2>2. next = found[k]
    <3>1. page[k] = found[k]
      <4>1. \A i \in 1..k : found[i] \in Nat
        BY <1>2, <1>3
      <4>2. \A i \in 1..k - 1 + 1 : page[i] = found[1 + i - 1]
        BY <1>3, <1>4, <4>1, SubSeqProperties
      <4> QED
        BY <1>3, <2>1, <4>2
    <3> QED
      BY <1>7, <2>1, <3>1 DEF NextSequence
  <2>3. next \in V /\ next > c /\ next \in Nat
    BY <1>2, <1>8, <2>1, <2>2
  <2>4. \A i \in 1..Len(found) : i <= k <=> found[i] <= next
    <3>1. ASSUME NEW i \in 1..Len(found) PROVE i <= k <=> found[i] <= next
      <4>1. i \in Int /\ k \in Int /\ found[i] \in Nat /\ found[k] \in Nat
        BY <1>2, <2>1
      <4>2. i < k => found[i] < found[k]
        BY <1>1, <1>2, <2>1 DEF Sorted
      <4>3. k < i => found[k] < found[i]
        BY <1>1, <1>2, <2>1 DEF Sorted
      <4> QED
        BY <2>2, <4>1, <4>2, <4>3
    <3> QED
      BY <3>1
  <2>5. Range(page) = {n \in V : c < n /\ n <= next}
    <3>1. ASSUME NEW n \in Range(page) PROVE n \in V /\ c < n /\ n <= next
      <4>1. PICK i \in 1..k : n = found[i]
        BY <1>7
      <4>2. i \in 1..Len(found) /\ i <= k
        BY <1>2, <1>3
      <4>3. n \in V /\ n > c
        BY <1>8, <4>1, <4>2
      <4> QED
        BY <1>6, <2>4, <4>1, <4>2, <4>3
    <3>2. ASSUME NEW n \in V, c < n, n <= next PROVE n \in Range(page)
      <4>1. PICK i \in 1..Len(found) : found[i] = n
        BY <1>6, <1>9, <3>2
      <4>2. i <= k
        BY <2>4, <3>2, <4>1
      <4>3. i \in 1..k
        BY <1>2, <1>3, <4>2
      <4> QED
        BY <1>7, <4>1, <4>3
    <3> QED
      BY <3>1, <3>2
  <2>6. ASSUME ~(Len(found) > PageSize) PROVE \A n \in V : n <= next
    <3>1. k = Len(found)
      BY <1>5, <2>6
    <3>2. \A n \in V : n > c => n <= next
      <4>1. ASSUME NEW n \in V, n > c PROVE n <= next
        <5>1. PICK i \in 1..Len(found) : found[i] = n
          BY <1>9, <4>1
        <5> QED
          BY <1>2, <2>4, <3>1, <5>1
      <4> QED
        BY <4>1
    <3> QED
      BY <1>6, <2>3, <3>2
  <2> QED
    BY <1>6, <1>7, <2>3, <2>5, <2>6
<1> QED
  BY <1>10, <1>11

\* Two ascending sequences, the second of greater numbers.
LEMMA SortedConcat ==
  ASSUME NEW s \in Seq(Nat), NEW p \in Seq(Nat), Sorted(s), Sorted(p), NEW c \in Nat,
         \A m \in Range(s) : m <= c, \A m \in Range(p) : c < m
  PROVE  /\ s \o p \in Seq(Nat) /\ Sorted(s \o p) /\ Len(s \o p) = Len(s) + Len(p)
         /\ Range(s \o p) = Range(s) \union Range(p)
<1> DEFINE all == s \o p
<1>1. /\ all \in Seq(Nat) /\ Len(all) = Len(s) + Len(p)
      /\ \A i \in 1..Len(s) + Len(p) : all[i] = IF i <= Len(s) THEN s[i] ELSE p[i - Len(s)]
  BY ConcatProperties
<1>2. /\ Len(s) \in Nat /\ Len(p) \in Nat
      /\ DOMAIN s = 1..Len(s) /\ DOMAIN p = 1..Len(p) /\ DOMAIN all = 1..Len(s) + Len(p)
      /\ \A i \in 1..Len(s) : s[i] \in Nat /\ s[i] \in Range(s)
      /\ \A i \in 1..Len(p) : p[i] \in Nat /\ p[i] \in Range(p)
  BY <1>1, LenProperties, ElementOfSeq DEF Range
<1> HIDE DEF all
<1>3. /\ \A i \in 1..Len(s) : i \in 1..Len(s) + Len(p) /\ all[i] = s[i]
      /\ \A i \in 1..Len(s) + Len(p) : i \notin 1..Len(s) =>
           i - Len(s) \in 1..Len(p) /\ all[i] = p[i - Len(s)]
  BY <1>1, <1>2
<1>4. Sorted(all)
  <2>1. SUFFICES ASSUME NEW i \in 1..Len(s) + Len(p), NEW j \in 1..Len(s) + Len(p), i < j
                 PROVE  all[i] < all[j]
    BY <1>2 DEF Sorted
  <2>2. CASE j \in 1..Len(s)
    <3>1. i \in 1..Len(s)
      BY <1>2, <2>1, <2>2
    <3> QED
      BY <1>2, <1>3, <2>1, <2>2, <3>1 DEF Sorted
  <2>3. CASE i \in 1..Len(s) /\ j \notin 1..Len(s)
    <3>1. /\ all[i] = s[i] /\ s[i] \in Nat /\ s[i] <= c
          /\ all[j] = p[j - Len(s)] /\ p[j - Len(s)] \in Nat /\ c < p[j - Len(s)]
      BY <1>2, <1>3, <2>3
    <3> QED
      BY <3>1
  <2>4. CASE i \notin 1..Len(s) /\ j \notin 1..Len(s)
    <3>1. /\ i - Len(s) \in 1..Len(p) /\ j - Len(s) \in 1..Len(p)
          /\ all[i] = p[i - Len(s)] /\ all[j] = p[j - Len(s)]
      BY <1>3, <2>4
    <3>2. i - Len(s) < j - Len(s)
      BY <1>2, <2>1
    <3> QED
      BY <1>2, <3>1, <3>2 DEF Sorted
  <2> QED
    BY <2>2, <2>3, <2>4
<1>5. Range(all) = Range(s) \union Range(p)
  <2>1. \A x \in Range(all) : x \in Range(s) \/ x \in Range(p)
    <3>1. \A i \in 1..Len(s) + Len(p) : all[i] \in Range(s) \/ all[i] \in Range(p)
      BY <1>2, <1>3
    <3> QED
      BY <1>2, <3>1 DEF Range
  <2>2. \A x \in Range(s) : x \in Range(all)
    BY <1>2, <1>3 DEF Range
  <2>3. \A x \in Range(p) : x \in Range(all)
    <3>1. ASSUME NEW k \in 1..Len(p) PROVE p[k] \in Range(all)
      <4>1. /\ Len(s) + k \in 1..Len(s) + Len(p) /\ Len(s) + k \notin 1..Len(s)
            /\ Len(s) + k - Len(s) = k
        BY <1>2
      <4>2. all[Len(s) + k] = p[k]
        BY <1>3, <4>1
      <4> QED
        BY <1>2, <4>1, <4>2 DEF Range
    <3> QED
      BY <1>2, <3>1 DEF Range
  <2> QED
    BY <2>1, <2>2, <2>3
<1> QED
  BY <1>1, <1>4, <1>5 DEF all

\* The latest up to a number, with all that follow up to another and cut to what the
\* page keeps, are the latest up to that one.
LEMMA LatestExtended ==
  ASSUME NEW N \in Nat, NEW V \in SUBSET (1..N), NEW c \in Nat, NEW d \in Nat, c <= d,
         NEW s \in Seq(Nat), Latest(s, {n \in V : n <= c}),
         NEW p \in Seq(Nat), Sorted(p), Range(p) = {n \in V : c < n /\ n <= d},
         NEW last, last = LastOf(s \o p, Retained)
  PROVE  last \in Seq(Nat) /\ Latest(last, {n \in V : n <= d})
<1> DEFINE all == s \o p
           a   == IF Len(all) < Retained THEN 1 ELSE Len(all) - Retained + 1
<1>0. Retained \in Nat \ {0} /\ \A n \in V : n \in Nat
  BY EvidenceAssumption
<1>1. /\ all \in Seq(Nat) /\ Sorted(all) /\ Len(all) = Len(s) + Len(p)
      /\ Range(all) = Range(s) \union Range(p)
  BY SortedConcat DEF Latest
<1>2. /\ Len(all) \in Nat /\ Len(s) \in Nat /\ Len(p) \in Nat /\ DOMAIN all = 1..Len(all)
      /\ \A i \in 1..Len(all) : all[i] \in Nat
  BY <1>1, LenProperties, ElementOfSeq
<1>3. last = SubSeq(all, a, Len(all))
  BY DEF LastOf
<1> HIDE DEF all
<1>4. /\ a \in Nat \ {0} /\ Len(all) \in 0..Len(all)
      /\ Len(all) < Retained => a = 1
      /\ Len(all) >= Retained => a <= Len(all) /\ Len(all) - a + 1 = Retained
  BY <1>0, <1>2
<1> HIDE DEF a
<1>5. /\ last \in Seq(Nat) /\ Sorted(last)
      /\ Len(last) = (IF a <= Len(all) THEN Len(all) - a + 1 ELSE 0)
      /\ Range(last) = {all[i] : i \in a..Len(all)}
  <2>1. \A b \in 0..Len(all) : \A part : part = SubSeq(all, a, b) =>
          /\ part \in Seq(Nat) /\ Sorted(part)
          /\ Len(part) = (IF a <= b THEN b - a + 1 ELSE 0)
          /\ Range(part) = {all[i] : i \in a..b}
    BY <1>1, <1>4, PartSorted
  <2> QED
    BY <1>3, <1>4, <2>1
<1>6. Len(last) <= Retained /\ (Len(all) >= Retained => Len(last) = Retained)
  <2>1. CASE Len(all) < Retained
    BY <1>0, <1>2, <1>4, <1>5, <2>1
  <2>2. CASE ~(Len(all) < Retained)
    BY <1>0, <1>2, <1>4, <1>5, <2>2
  <2> QED
    BY <2>1, <2>2
<1>7. \A m \in Range(last) : \E j \in 1..Len(all) : a <= j /\ m = all[j] /\ m \in Range(all)
  <2>1. \A j \in a..Len(all) : j \in 1..Len(all) /\ a <= j /\ all[j] \in Range(all)
    BY <1>2, <1>4 DEF Range
  <2> QED
    BY <1>5, <2>1
<1>8. \A m \in Range(all) : m \in V /\ m <= d
  <2>1. \A m \in Range(s) : m \in V /\ m <= c
    BY DEF Latest
  <2>2. \A m \in V : m <= c => m <= d
    BY <1>0
  <2> QED
    BY <1>1, <2>1, <2>2
<1>9. Range(last) \subseteq {n \in V : n <= d}
  BY <1>7, <1>8
<1>10. ASSUME NEW n \in V, n <= d, n \notin Range(last)
       PROVE  Len(last) = Retained /\ \A m \in Range(last) : n < m
  <2>1. CASE n \in Range(all)
    <3>1. PICK i \in 1..Len(all) : n = all[i]
      BY <1>2, <2>1 DEF Range
    <3>2. ~(a <= i)
      <4>1. a <= i => i \in a..Len(all)
        BY <1>2, <1>4
      <4> QED
        BY <1>5, <1>10, <3>1, <4>1
    <3>3. Len(all) >= Retained
      BY <1>0, <1>2, <1>4, <3>2
    <3>4. ASSUME NEW m \in Range(last) PROVE n < m
      <4>1. PICK j \in 1..Len(all) : a <= j /\ m = all[j]
        BY <1>7
      <4>2. i < j
        BY <1>4, <3>2, <4>1
      <4> QED
        BY <1>1, <1>2, <3>1, <4>1, <4>2 DEF Sorted
    <3> QED
      BY <1>6, <3>3, <3>4
  <2>2. CASE n \notin Range(all)
    <3>1. n <= c
      <4>1. n \notin Range(p)
        BY <1>1, <2>2
      <4> QED
        BY <1>0, <1>10, <4>1
    <3>2. Len(s) = Retained /\ \A m \in Range(s) : n < m
      BY <1>1, <2>2, <3>1 DEF Latest
    <3>3. Len(all) >= Retained
      BY <1>1, <1>2, <3>2
    <3>4. \A m \in Range(p) : n < m
      <4>1. \A m \in Range(p) : m \in Nat /\ c < m
        BY <1>0
      <4>2. n \in Nat
        BY <1>0
      <4> QED
        BY <3>1, <4>1, <4>2
    <3> QED
      BY <1>1, <1>6, <1>7, <3>2, <3>3, <3>4
  <2> QED
    BY <2>1, <2>2
<1> QED
  BY <1>5, <1>6, <1>9, <1>10 DEF Latest

-------------------------------------------------------------------------------
LEMMA EvidenceFacts ==
  ASSUME EvidenceTypes
  PROVE  \A r \in 1..run :
           /\ EvidenceOf(r) \in Seq(Audiences) /\ Len(EvidenceOf(r)) \in Nat
           /\ \A who : VisibleTo(r, who) \in SUBSET (1..Len(EvidenceOf(r)))
<1>1. SUFFICES ASSUME NEW r \in 1..run
               PROVE  /\ EvidenceOf(r) \in Seq(Audiences) /\ Len(EvidenceOf(r)) \in Nat
                      /\ \A who : VisibleTo(r, who) \in SUBSET (1..Len(EvidenceOf(r)))
  OBVIOUS
<1>2. EvidenceOf(r) \in Seq(Audiences)
  <2>1. CASE r = run
    BY <2>1 DEF EvidenceOf, EvidenceTypes
  <2>2. CASE r # run
    <3>1. closed \in Seq(Seq(Audiences)) /\ r \in 1..Len(closed)
      BY <2>2 DEF EvidenceTypes
    <3> QED
      BY <2>2, <3>1, ElementOfSeq DEF EvidenceOf
  <2> QED
    BY <2>1, <2>2
<1>3. Len(EvidenceOf(r)) \in Nat /\ DOMAIN EvidenceOf(r) = 1..Len(EvidenceOf(r))
  BY <1>2, LenProperties
<1> QED
  BY <1>2, <1>3 DEF VisibleTo, VisibleIn

\* EvidenceWhole with its parts named.
LEMMA WholeIs ==
  EvidenceWhole <=>
    IF runId = 0 THEN signals = <<>> /\ cursor = 0
    ELSE /\ Latest(signals, {n \in VisibleTo(runId, actorToken) : n <= cursor})
         /\ ~backlog => \A n \in VisibleTo(runId, actorToken) : n <= horizon => n <= cursor
  BY DEF EvidenceWhole, ShowsLatest, Latest, VisibleTo, EvidenceOf

\* Nothing that a page could have read changes when the ledger of the run grows, and
\* when the run ends.
LEMMA EvidenceGrows ==
  ASSUME EvidenceInv, EvidenceTypes', run <= run',
         UNCHANGED <<actorToken, runId, cursor, signals, backlog, wire, horizon>>,
         \A r \in 1..run :
           /\ Len(EvidenceOf(r)') \in Nat /\ Len(EvidenceOf(r)) <= Len(EvidenceOf(r)')
           /\ \A who : /\ VisibleTo(r, who) \subseteq VisibleTo(r, who)'
                      /\ \A n \in VisibleTo(r, who)' \ VisibleTo(r, who) :
                           n \in Nat /\ n > Len(EvidenceOf(r))
  PROVE  EvidenceInv'
<1>1. run \in Nat \ {0} /\ run' \in Nat \ {0} /\ \A r \in 1..run : r \in 1..run'
  BY DEF EvidenceInv, EvidenceTypes
<1>2. \A r \in 1..run :
        /\ Len(EvidenceOf(r)) \in Nat
        /\ \A who : VisibleTo(r, who) \in SUBSET (1..Len(EvidenceOf(r)))
  BY EvidenceFacts DEF EvidenceInv
\* up to a number within the ledger the same signals are visible
<1>3. ASSUME NEW r \in 1..run, NEW who, NEW k \in Nat, k <= Len(EvidenceOf(r))
      PROVE  \A n : n \in VisibleTo(r, who)' /\ n <= k <=> n \in VisibleTo(r, who) /\ n <= k
  <2>1. \A n \in VisibleTo(r, who)' \ VisibleTo(r, who) : ~(n <= k)
    BY <1>2, <1>3
  <2> QED
    BY <2>1
<1>4. ReadSoFar'
  <2>1. CASE runId = 0
    BY <2>1 DEF EvidenceInv, ReadSoFar
  <2>2. CASE runId # 0
    <3>1. PICK r \in 1..run : r = runId
      BY <2>2 DEF EvidenceInv, EvidenceTypes
    <3>2. cursor <= Len(EvidenceOf(r)) /\ horizon <= Len(EvidenceOf(r))
      BY <2>2, <3>1 DEF EvidenceInv, ReadSoFar
    <3>3. /\ Len(EvidenceOf(r)) \in Nat /\ Len(EvidenceOf(r)') \in Nat
          /\ Len(EvidenceOf(r)) <= Len(EvidenceOf(r)')
      BY <1>2
    <3>4. cursor \in Nat /\ horizon \in Nat
      BY DEF EvidenceInv, EvidenceTypes
    <3>5. cursor <= Len(EvidenceOf(r)') /\ horizon <= Len(EvidenceOf(r)')
      BY <3>2, <3>3, <3>4
    <3> QED
      BY <2>2, <3>1, <3>5 DEF ReadSoFar, EvidenceOf
  <2> QED
    BY <2>1, <2>2
<1>5. EvidenceWhole'
  <2>1. CASE runId = 0
    BY <2>1, WholeIs DEF EvidenceInv, EvidenceWhole
  <2>2. CASE runId # 0
    <3>1. PICK r \in 1..run : r = runId
      BY <2>2 DEF EvidenceInv, EvidenceTypes
    <3>2. PICK who : who = actorToken
      OBVIOUS
    <3>3. /\ cursor <= Len(EvidenceOf(r)) /\ horizon <= Len(EvidenceOf(r))
          /\ cursor \in Nat /\ horizon \in Nat
      BY <2>2, <3>1 DEF EvidenceInv, ReadSoFar, EvidenceTypes
    <3>4. /\ Latest(signals, {n \in VisibleTo(r, who) : n <= cursor})
          /\ ~backlog => \A n \in VisibleTo(r, who) : n <= horizon => n <= cursor
      BY <2>2, <3>1, <3>2, WholeIs DEF EvidenceInv
    <3>5. {n \in VisibleTo(r, who)' : n <= cursor} = {n \in VisibleTo(r, who) : n <= cursor}
      BY <1>3, <3>3
    <3>6. /\ Latest(signals, {n \in VisibleTo(r, who)' : n <= cursor})
          /\ ~backlog => \A n \in VisibleTo(r, who)' : n <= horizon => n <= cursor
      BY <1>3, <3>3, <3>4, <3>5
    <3> QED
      BY <2>2, <3>1, <3>2, <3>6 DEF EvidenceWhole, ShowsLatest, Latest, VisibleTo, EvidenceOf
  <2> QED
    BY <2>1, <2>2
<1>6. WireSound'
  <2>1. CASE wire = None
    BY <2>1 DEF WireSound
  <2>2. CASE wire # None
    <3>1. PICK r \in 1..run : r = wire.run
      BY <2>2 DEF EvidenceInv, WireSound
    <3>2. PICK who : who = actorToken
      OBVIOUS
    <3>3. wire \in PagesOfEvidence /\ wire.length \in Nat /\ wire.next \in Nat
      BY <2>2 DEF EvidenceInv, EvidenceTypes, PagesOfEvidence
    <3>4. wire.length <= Len(EvidenceOf(r)) /\ (runId \in {0, r} => Continues(wire))
      BY <2>2, <3>1 DEF EvidenceInv, WireSound
    <3>5. wire.length <= Len(EvidenceOf(r)')
      <4>1. /\ Len(EvidenceOf(r)) \in Nat /\ Len(EvidenceOf(r)') \in Nat
            /\ Len(EvidenceOf(r)) <= Len(EvidenceOf(r)')
        BY <1>2
      <4> QED
        BY <3>3, <3>4, <4>1
    <3>6. ASSUME runId \in {0, r} PROVE Continues(wire)'
      <4>1. /\ cursor <= wire.next /\ wire.next <= wire.length
            /\ Sorted(wire.signals)
            /\ Range(wire.signals) = {n \in VisibleTo(r, who) : cursor < n /\ n <= wire.next}
            /\ ~wire.more => \A n \in VisibleTo(r, who) : n <= wire.length => n <= wire.next
        BY <3>1, <3>2, <3>4, <3>6 DEF Continues
      <4>2. wire.next <= Len(EvidenceOf(r))
        BY <1>2, <3>3, <3>4, <4>1
      <4>3. {n \in VisibleTo(r, who)' : cursor < n /\ n <= wire.next} =
            {n \in VisibleTo(r, who) : cursor < n /\ n <= wire.next}
        BY <1>3, <3>3, <4>2
      <4>4. ~wire.more => \A n \in VisibleTo(r, who)' : n <= wire.length => n <= wire.next
        BY <1>3, <3>3, <3>4, <4>1
      <4>5. /\ cursor <= wire.next /\ wire.next <= wire.length
            /\ Sorted(wire.signals)
            /\ Range(wire.signals) = {n \in VisibleTo(r, who)' : cursor < n /\ n <= wire.next}
            /\ ~wire.more => \A n \in VisibleTo(r, who)' : n <= wire.length => n <= wire.next
        BY <4>1, <4>3, <4>4
      <4> QED
        BY <3>1, <3>2, <4>5 DEF Continues, VisibleTo, EvidenceOf
    <3> QED
      BY <1>1, <3>1, <3>5, <3>6 DEF WireSound, EvidenceOf
  <2> QED
    BY <2>1, <2>2
<1> QED
  BY <1>4, <1>5, <1>6 DEF EvidenceInv

\* The page changes nothing that is on it, nor the portal its ledgers.
LEMMA EvidenceIdle ==
  ASSUME EvidenceInv, UNCHANGED <<run, events, closed>>,
         UNCHANGED <<actorToken, runId, cursor, signals, backlog, wire, horizon>>
  PROVE  EvidenceInv'
<1>1. EvidenceTypes' /\ run <= run'
  BY DEF EvidenceInv, EvidenceTypes
<1>2. \A r \in 1..run : EvidenceOf(r)' = EvidenceOf(r) /\ \A who : VisibleTo(r, who)' = VisibleTo(r, who)
  BY DEF EvidenceOf, VisibleTo
<1>3. \A r \in 1..run : Len(EvidenceOf(r)) \in Nat
  BY EvidenceFacts DEF EvidenceInv
<1>4. \A r \in 1..run :
        /\ Len(EvidenceOf(r)') \in Nat /\ Len(EvidenceOf(r)) <= Len(EvidenceOf(r)')
        /\ \A who : /\ VisibleTo(r, who) \subseteq VisibleTo(r, who)'
                   /\ \A n \in VisibleTo(r, who)' \ VisibleTo(r, who) :
                        n \in Nat /\ n > Len(EvidenceOf(r))
  BY <1>2, <1>3
<1> QED
  BY <1>1, <1>4, EvidenceGrows

LEMMA RecordKeeps ==
  ASSUME EvidenceInv, NEW who \in Audiences, Record(who)
  PROVE  EvidenceInv'
<1>1. /\ events' = Append(events, who) /\ UNCHANGED <<run, closed>>
      /\ UNCHANGED <<actorToken, runId, cursor, signals, backlog, wire, horizon>>
  BY DEF Record, portalVars, evidencePage
<1>2. /\ events' \in Seq(Audiences) /\ Len(events') = Len(events) + 1 /\ Len(events) \in Nat
      /\ \A n \in 1..Len(events) : events'[n] = events[n]
      /\ DOMAIN events = 1..Len(events) /\ DOMAIN events' = 1..Len(events) + 1
  <2>1. events \in Seq(Audiences)
    BY DEF EvidenceInv, EvidenceTypes
  <2>2. events' \in Seq(Audiences)
    BY <1>1, <2>1, AppendProperties
  <2> QED
    BY <1>1, <2>1, <2>2, AppendProperties, LenProperties
<1>3. EvidenceTypes' /\ run <= run'
  BY <1>1, <1>2 DEF EvidenceInv, EvidenceTypes
<1>4. ASSUME NEW r \in 1..run
      PROVE  /\ Len(EvidenceOf(r)') \in Nat /\ Len(EvidenceOf(r)) <= Len(EvidenceOf(r)')
             /\ \A w : /\ VisibleTo(r, w) \subseteq VisibleTo(r, w)'
                      /\ \A n \in VisibleTo(r, w)' \ VisibleTo(r, w) :
                           n \in Nat /\ n > Len(EvidenceOf(r))
  <2>1. CASE r = run
    <3>1. EvidenceOf(r) = events /\ EvidenceOf(r)' = events'
      BY <1>1, <2>1 DEF EvidenceOf
    <3>2. \A w : /\ VisibleTo(r, w) = {n \in 1..Len(events) : w \in events[n]}
                /\ VisibleTo(r, w)' = {n \in 1..Len(events) + 1 : w \in events'[n]}
      BY <1>1, <1>2, <2>1 DEF VisibleTo, VisibleIn, EvidenceOf
    <3>3. \A n \in 1..Len(events) : n \in 1..Len(events) + 1
      BY <1>2
    <3>4. \A n \in 1..Len(events) + 1 : n \notin 1..Len(events) => n \in Nat /\ n > Len(events)
      BY <1>2
    <3>5. \A w : /\ VisibleTo(r, w) \subseteq VisibleTo(r, w)'
                /\ \A n \in VisibleTo(r, w)' \ VisibleTo(r, w) : n \in Nat /\ n > Len(events)
      BY <1>2, <3>2, <3>3, <3>4
    <3> QED
      BY <1>2, <3>1, <3>5
  <2>2. CASE r # run
    <3>1. /\ EvidenceOf(r)' = EvidenceOf(r) /\ Len(EvidenceOf(r)) \in Nat
          /\ \A w : VisibleTo(r, w)' = VisibleTo(r, w)
      BY <1>1, <2>2, EvidenceFacts DEF EvidenceInv, EvidenceOf, VisibleTo
    <3> QED
      BY <3>1
  <2> QED
    BY <2>1, <2>2
<1> QED
  BY <1>1, <1>3, <1>4, EvidenceGrows

LEMMA EvidenceResetKeeps ==
  ASSUME EvidenceInv, EvidenceReset
  PROVE  EvidenceInv'
<1>1. /\ run' = run + 1 /\ closed' = Append(closed, events) /\ events' = <<>>
      /\ UNCHANGED <<actorToken, runId, cursor, signals, backlog, wire, horizon>>
  BY DEF EvidenceReset, NextRun, evidencePage
<1>2. /\ run \in Nat \ {0} /\ closed \in Seq(Seq(Audiences)) /\ Len(closed) = run - 1
      /\ events \in Seq(Audiences)
  BY DEF EvidenceInv, EvidenceTypes
<1>3. /\ closed' \in Seq(Seq(Audiences)) /\ Len(closed') = run
      /\ \A r \in 1..run - 1 : closed'[r] = closed[r]
      /\ closed'[run] = events
  <2>1. /\ Append(closed, events) \in Seq(Seq(Audiences))
        /\ Len(Append(closed, events)) = Len(closed) + 1
        /\ \A r \in 1..Len(closed) : Append(closed, events)[r] = closed[r]
        /\ Append(closed, events)[Len(closed) + 1] = events
    BY <1>2, AppendProperties
  <2> QED
    BY <1>1, <1>2, <2>1
<1>4. EvidenceTypes' /\ run <= run'
  BY <1>1, <1>2, <1>3 DEF EvidenceInv, EvidenceTypes
<1>5. \A r \in 1..run : EvidenceOf(r)' = EvidenceOf(r) /\ \A who : VisibleTo(r, who)' = VisibleTo(r, who)
  <2>1. ASSUME NEW r \in 1..run PROVE EvidenceOf(r)' = EvidenceOf(r)
    BY <1>1, <1>2, <1>3 DEF EvidenceOf
  <2> QED
    BY <2>1 DEF VisibleTo
<1>6. \A r \in 1..run : Len(EvidenceOf(r)) \in Nat
  BY EvidenceFacts DEF EvidenceInv
<1>7. \A r \in 1..run :
        /\ Len(EvidenceOf(r)') \in Nat /\ Len(EvidenceOf(r)) <= Len(EvidenceOf(r)')
        /\ \A who : /\ VisibleTo(r, who) \subseteq VisibleTo(r, who)'
                   /\ \A n \in VisibleTo(r, who)' \ VisibleTo(r, who) :
                        n \in Nat /\ n > Len(EvidenceOf(r))
  BY <1>5, <1>6
<1> QED
  BY <1>1, <1>4, <1>7, EvidenceGrows

\* A page that is cleared reads from the beginning of a run.
LEMMA ClearViewKeeps ==
  ASSUME EvidenceInv, ClearView, wire' = None, UNCHANGED <<run, events, closed>>
  PROVE  EvidenceInv'
<1>1. EvidenceTypes'
  <2>1. run \in Nat \ {0} /\ 0 \in 0..run /\ <<>> \in Seq(Nat)
    BY DEF EvidenceInv, EvidenceTypes
  <2> QED
    BY <2>1 DEF EvidenceInv, EvidenceTypes, ClearView
<1>2. ReadSoFar' /\ WireSound' /\ EvidenceWhole'
  BY DEF ClearView, ReadSoFar, WireSound, EvidenceWhole
<1> QED
  BY <1>1, <1>2 DEF EvidenceInv

LEMMA ServePageKeeps ==
  ASSUME EvidenceInv, ServePage
  PROVE  EvidenceInv'
<1>1. /\ wire' = Served(actorToken, cursor) /\ UNCHANGED <<run, events, closed>>
      /\ UNCHANGED <<actorToken, runId, cursor, signals, backlog, horizon>>
  BY DEF ServePage, portalVars
<1> DEFINE V     == VisibleIn(events, actorToken)
           found == Ascending({n \in V : n > cursor})
           page  == FirstOf(found, PageSize)
           next  == NextSequence(page, cursor)
<1>2. /\ events \in Seq(Audiences) /\ cursor \in Nat /\ run \in Nat \ {0}
  BY DEF EvidenceInv, EvidenceTypes
<1>3. Len(events) \in Nat /\ DOMAIN events = 1..Len(events) /\ V \in SUBSET (1..Len(events))
  BY <1>2, LenProperties DEF VisibleIn
<1>4. wire' = [run |-> run, signals |-> page, more |-> Len(found) > PageSize,
               next |-> next, length |-> Len(events)]
  BY <1>1 DEF Served
<1>5. /\ page \in Seq(Nat) /\ Sorted(page)
      /\ next \in Nat /\ cursor <= next /\ (next = cursor \/ next <= Len(events))
      /\ Range(page) = {n \in V : cursor < n /\ n <= next}
      /\ ~(Len(found) > PageSize) => \A n \in V : n <= next
  <2>1. \A S \in SUBSET (1..Len(events)) : \A f, p, x :
          f = Ascending({n \in S : n > cursor}) /\ p = FirstOf(f, PageSize)
            /\ x = NextSequence(p, cursor) =>
          /\ p \in Seq(Nat) /\ Sorted(p)
          /\ x \in Nat /\ cursor <= x /\ (x = cursor \/ x <= Len(events))
          /\ Range(p) = {n \in S : cursor < n /\ n <= x}
          /\ ~(Len(f) > PageSize) => \A n \in S : n <= x
    BY <1>2, <1>3, PageServed
  <2> QED
    BY <1>3, <2>1
<1> HIDE DEF found, page, next
<1>6. EvidenceTypes'
  <2>1. wire' \in PagesOfEvidence
    <3>1. run \in Nat /\ (Len(found) > PageSize) \in BOOLEAN
      BY <1>2
    <3> QED
      BY <1>3, <1>4, <1>5, <3>1 DEF PagesOfEvidence
  <2> QED
    BY <1>1, <2>1 DEF EvidenceInv, EvidenceTypes
<1>7. WireSound'
  <2>1. /\ wire'.run = run /\ wire'.signals = page /\ wire'.next = next
        /\ wire'.length = Len(events) /\ wire'.more = (Len(found) > PageSize)
    BY <1>4
  <2>2. run \in 1..run /\ wire'.length <= Len(events)
    BY <1>2, <1>3, <2>1
  <2>3. ASSUME runId \in {0, run}
        PROVE  /\ cursor <= next /\ next <= Len(events)
               /\ ~(Len(found) > PageSize) => \A n \in V : n <= Len(events) => n <= next
    <3>1. cursor <= Len(events)
      <4>1. CASE runId = 0
        BY <1>3, <4>1 DEF EvidenceInv, ReadSoFar
      <4>2. CASE runId = run /\ runId # 0
        BY <4>2 DEF EvidenceInv, ReadSoFar, EvidenceOf
      <4> QED
        BY <2>3, <4>1, <4>2
    <3> QED
      BY <1>5, <3>1
  <2>4. runId \in {0, run} =>
          /\ cursor <= wire'.next /\ wire'.next <= wire'.length
          /\ Sorted(wire'.signals)
          /\ Range(wire'.signals) = {n \in V : cursor < n /\ n <= wire'.next}
          /\ ~wire'.more => \A n \in V : n <= wire'.length => n <= wire'.next
    BY <1>5, <2>1, <2>3
  <2> QED
    BY <1>1, <2>1, <2>2, <2>4 DEF WireSound, Continues, VisibleTo, EvidenceOf
<1>8. ReadSoFar' /\ EvidenceWhole'
  BY <1>1 DEF EvidenceInv, ReadSoFar, EvidenceWhole, EvidenceOf, ShowsLatest
<1> QED
  BY <1>6, <1>7, <1>8 DEF EvidenceInv

LEMMA ShowPageKeeps ==
  ASSUME EvidenceInv, ShowPage
  PROVE  EvidenceInv'
<1>1. /\ wire # None /\ wire' = None /\ runId' = wire.run
      /\ UNCHANGED <<run, events, closed, actorToken>>
  BY DEF ShowPage, portalVars
<1>2. /\ wire \in PagesOfEvidence /\ wire.run \in 1..run
      /\ wire.length <= Len(EvidenceOf(wire.run))
  BY <1>1 DEF EvidenceInv, EvidenceTypes, WireSound
<1>3. PICK r \in 1..run : r = wire.run
  BY <1>2
<1>4. /\ EvidenceOf(r)' = EvidenceOf(r) /\ Len(EvidenceOf(r)) \in Nat
      /\ VisibleTo(r, actorToken) \in SUBSET (1..Len(EvidenceOf(r)))
  BY <1>1, EvidenceFacts DEF EvidenceInv, EvidenceOf
<1>5. WireSound'
  BY <1>1 DEF WireSound
<1>6. /\ wire.next \in Nat /\ wire.length \in Nat /\ wire.more \in BOOLEAN
      /\ wire.signals \in Seq(Nat)
  BY <1>2 DEF PagesOfEvidence
<1>7. runId' \in 0..run /\ runId' # 0 /\ run \in Nat \ {0}
  BY <1>1, <1>2 DEF EvidenceInv, EvidenceTypes
<1>8. CASE OtherRun
  <2>1. signals' = <<>> /\ cursor' = 0 /\ backlog' = TRUE /\ horizon' = 0
    BY <1>8 DEF ShowPage
  <2>2. EvidenceTypes'
    <3>1. <<>> \in Seq(Nat)
      OBVIOUS
    <3> QED
      BY <1>1, <1>7, <2>1, <3>1 DEF EvidenceInv, EvidenceTypes
  <2>3. ReadSoFar'
    <3>1. 0 <= Len(EvidenceOf(r)')
      BY <1>4
    <3> QED
      BY <1>1, <1>3, <1>7, <2>1, <3>1 DEF ReadSoFar, EvidenceOf
  <2>4. EvidenceWhole'
    <3>1. Sorted(<<>>) /\ Range(<<>>) = {} /\ Len(<<>>) <= Retained
      <4>1. DOMAIN <<>> = {} /\ Len(<<>>) = 0 /\ Retained \in Nat
        BY EvidenceAssumption
      <4> QED
        BY <4>1 DEF Sorted, Range
    <3>2. \A n \in VisibleTo(r, actorToken) : ~(n <= 0)
      <4>1. \A n \in 1..Len(EvidenceOf(r)) : ~(n <= 0)
        BY <1>4
      <4> QED
        BY <1>4, <4>1
    <3>3. {n \in VisibleTo(r, actorToken) : n <= 0} = {}
      BY <3>2
    <3>4. Latest(<<>>, {n \in VisibleTo(r, actorToken) : n <= 0})
      BY <3>1, <3>3 DEF Latest
    <3> QED
      BY <1>1, <1>3, <1>7, <2>1, <3>4
      DEF EvidenceWhole, ShowsLatest, Latest, VisibleTo, EvidenceOf
  <2> QED
    BY <1>5, <2>2, <2>3, <2>4 DEF EvidenceInv
<1>9. CASE ~OtherRun
  <2>1. /\ signals' = LastOf(signals \o wire.signals, Retained)
        /\ cursor' = wire.next /\ backlog' = wire.more /\ horizon' = wire.length
    BY <1>9 DEF ShowPage
  <2> DEFINE V == VisibleTo(r, actorToken)
             N == Len(EvidenceOf(r))
  <2>2. /\ cursor <= wire.next /\ wire.next <= wire.length
        /\ Sorted(wire.signals)
        /\ Range(wire.signals) = {n \in V : cursor < n /\ n <= wire.next}
        /\ ~wire.more => \A n \in V : n <= wire.length => n <= wire.next
    <3>1. runId \in {0, wire.run}
      BY <1>9 DEF OtherRun
    <3> QED
      BY <1>1, <1>3, <3>1 DEF EvidenceInv, WireSound, Continues
  <2>3. cursor \in Nat /\ signals \in Seq(Nat)
    BY DEF EvidenceInv, EvidenceTypes
  <2>4. Latest(signals, {n \in V : n <= cursor})
    <3>1. CASE runId = 0
      <4>1. signals = <<>> /\ cursor = 0
        BY <3>1 DEF EvidenceInv, ReadSoFar
      <4>2. \A n \in 1..N : ~(n <= 0)
        BY <1>4
      <4>3. {n \in V : n <= cursor} = {}
        BY <1>4, <4>1, <4>2
      <4>4. DOMAIN <<>> = {} /\ Len(<<>>) = 0 /\ Retained \in Nat
        BY EvidenceAssumption
      <4> QED
        BY <4>1, <4>3, <4>4 DEF Latest, Sorted, Range
    <3>2. CASE runId # 0
      <4>1. runId = r
        BY <1>3, <1>9, <3>2 DEF OtherRun
      <4> QED
        BY <3>2, <4>1, WholeIs DEF EvidenceInv
    <3> QED
      BY <3>1, <3>2
  <2> HIDE DEF V, N
  <2>5. V \in SUBSET (1..N) /\ N \in Nat
    BY <1>4 DEF V, N
  <2>6. signals' \in Seq(Nat) /\ Latest(signals', {n \in V : n <= wire.next})
    <3>1. \A c, d \in Nat : \A p \in Seq(Nat) : \A last :
            /\ c <= d /\ Latest(signals, {n \in V : n <= c}) /\ Sorted(p)
            /\ Range(p) = {n \in V : c < n /\ n <= d}
            /\ last = LastOf(signals \o p, Retained)
            => last \in Seq(Nat) /\ Latest(last, {n \in V : n <= d})
      BY <2>3, <2>5, LatestExtended
    <3> QED
      BY <1>6, <2>1, <2>2, <2>3, <2>4, <3>1
  <2>7. ~wire.more => \A n \in V : n <= wire.length => n <= wire.next
    BY <2>2
  <2>8. EvidenceTypes'
    BY <1>1, <1>6, <1>7, <2>1, <2>6 DEF EvidenceInv, EvidenceTypes
  <2>9. ReadSoFar'
    <3>1. wire.length <= Len(EvidenceOf(r)) /\ wire.next <= Len(EvidenceOf(r))
      BY <1>2, <1>3, <1>4, <1>6, <2>2
    <3> QED
      BY <1>1, <1>3, <1>4, <1>7, <2>1, <3>1 DEF ReadSoFar, EvidenceOf
  <2>10. EvidenceWhole'
    BY <1>1, <1>3, <1>7, <2>1, <2>6, <2>7
    DEF EvidenceWhole, ShowsLatest, Latest, VisibleTo, EvidenceOf, V
  <2> QED
    BY <1>5, <2>8, <2>9, <2>10 DEF EvidenceInv
<1> QED
  BY <1>8, <1>9

-------------------------------------------------------------------------------
LEMMA EvidenceInitially == PortalInit /\ EvidenceInit => EvidenceInv
<1> SUFFICES ASSUME PortalInit, EvidenceInit PROVE EvidenceInv
  OBVIOUS
<1>1. EvidenceTypes
  <2>1. /\ run = 1 /\ events = <<>> /\ closed = <<>> /\ runId = 0 /\ cursor = 0
        /\ signals = <<>> /\ backlog = FALSE /\ wire = None /\ horizon = 0
    BY DEF PortalInit, EvidenceInit
  <2>2. events \in Seq(Audiences) /\ closed \in Seq(Seq(Audiences)) /\ signals \in Seq(Nat)
    BY <2>1
  <2>3. run \in Nat \ {0} /\ runId \in 0..run /\ cursor \in Nat /\ horizon \in Nat
    BY <2>1
  <2>4. Len(closed) = run - 1
    <3>1. Len(closed) = 0
      BY <2>1
    <3> QED
      BY <2>1, <3>1
  <2> QED
    BY <2>1, <2>2, <2>3, <2>4 DEF EvidenceTypes
<1>2. ReadSoFar /\ WireSound /\ EvidenceWhole
  BY DEF EvidenceInit, ReadSoFar, WireSound, EvidenceWhole
<1> QED
  BY <1>1, <1>2 DEF EvidenceInv

LEMMA EvidenceIsInductive == EvidenceInv /\ [EvidenceNext]_evidenceVars => EvidenceInv'
<1> SUFFICES ASSUME EvidenceInv, [EvidenceNext]_evidenceVars PROVE EvidenceInv'
  OBVIOUS
<1>1. ASSUME NEW who \in Audiences, Record(who) PROVE EvidenceInv'
  BY <1>1, RecordKeeps
<1>2. ASSUME NEW who \in Viewers, ChangeViewer(who) PROVE EvidenceInv'
  BY <1>2, EvidenceIdle DEF ChangeViewer, portalVars, evidencePage
<1>3. CASE Synchronize
  BY <1>3, ClearViewKeeps DEF Synchronize, portalVars
<1>4. CASE Refresh
  BY <1>4, EvidenceIdle DEF Refresh, portalVars
<1>5. CASE ServePage
  BY <1>5, ServePageKeeps
<1>6. CASE ShowPage
  BY <1>6, ShowPageKeeps
<1>7. CASE PageFails
  BY <1>7, ClearViewKeeps DEF PageFails, portalVars
<1>8. CASE (StartPlay \/ EndPlay) /\ UNCHANGED <<events, closed, viewer, evidencePage>>
  <2>1. /\ UNCHANGED <<run, events, closed>>
        /\ UNCHANGED <<actorToken, runId, cursor, signals, backlog, wire, horizon>>
    BY <1>8 DEF StartPlay, EndPlay, evidencePage
  <2> QED
    BY <2>1, EvidenceIdle
<1>9. CASE EvidenceReset
  BY <1>9, EvidenceResetKeeps
<1>10. CASE UNCHANGED evidenceVars
  <2>1. /\ UNCHANGED <<run, events, closed>>
        /\ UNCHANGED <<actorToken, runId, cursor, signals, backlog, wire, horizon>>
    BY <1>10 DEF evidenceVars, portalVars, evidencePage
  <2> QED
    BY <2>1, EvidenceIdle
<1> QED
  BY <1>1, <1>2, <1>3, <1>4, <1>5, <1>6, <1>7, <1>8, <1>9, <1>10 DEF EvidenceNext

LEMMA DeskEvidenceSteps ==
  ASSUME desk = "evidence" => EvidenceInv, [DeskNext]_deskVars
  PROVE  (desk = "evidence" => EvidenceInv)'
<1>1. CASE desk = "evidence" /\ [EvidenceNext]_evidenceVars
  BY <1>1, EvidenceIsInductive
<1>2. CASE desk # "evidence" /\ desk' = desk
  BY <1>2
<1>3. CASE desk = "evidence" /\ UNCHANGED deskVars
  BY <1>1, <1>3 DEF deskVars, evidenceVars, evidenceOnly
<1> QED
  BY <1>1, <1>2, <1>3 DEF DeskNext, deskVars

\* The evidence on the page has no hole: it is the latest of what its account may see of
\* its run up to the cursor, in order, whatever the ledger, the account and the run do
\* between the pages of a refresh (static/evidence.js refresh, dashboard/service.py
\* participant_evidence).
THEOREM EvidenceNeverHasHoles == DeskSpec => []EvidenceHasNoHoles
<1>1. DeskInit => (desk = "evidence" => EvidenceInv)
  BY EvidenceInitially DEF DeskInit
<1>2. (desk = "evidence" => EvidenceInv) /\ [DeskNext]_deskVars => (desk = "evidence" => EvidenceInv)'
  BY DeskEvidenceSteps
<1>3. (desk = "evidence" => EvidenceInv) => EvidenceHasNoHoles
  BY DEF EvidenceHasNoHoles, EvidenceInv
<1> QED
  BY <1>1, <1>2, <1>3, PTL DEF DeskSpec
===============================================================================
