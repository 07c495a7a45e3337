------------------------------- MODULE Evidence --------------------------------
(***************************************************************************)
(* The participant's evidence page (static/evidence.js): the run's ledger  *)
(* as one account may see it, read page by page behind a cursor while the  *)
(* ledger grows, the account changes and the run is reset                  *)
(* (dashboard/service.py participant_evidence).                            *)
(***************************************************************************)
EXTENDS PortalRun, Functions

CONSTANTS Viewers,        \* accounts the page is used with
          Audiences,      \* who may see an event
          MaxSignals,     \* bound: events of a run
          PageSize,       \* limit, 100
          PageLimit,      \* pages of one refresh, 10
          Retained        \* signals that the page keeps, 500

ASSUME EvidenceAssumption ==
  /\ Viewers # {} /\ Audiences \subseteq SUBSET Viewers /\ MaxSignals \in Nat
  /\ PageSize \in Nat \ {0} /\ PageLimit \in Nat \ {0} /\ Retained \in Nat \ {0}

VARIABLES events,         \* who may see each event of the run
          closed,         \* the ledgers of earlier runs
          viewer,         \* token(): the account that is stored
          actorToken,     \* the account that the page shows
          runId,          \* the run that the page shows, 0 for null
          cursor,         \* the sequence number the page has read up to
          signals,        \* the sequence numbers on the page, in the order of arrival
          backlog,        \* whether more pages remain
          active,         \* the page that a refresh is at; 0 when there is none
          wire,           \* the page of evidence on its way
          horizon         \* how long the ledger was when the last page was served

evidencePage == <<actorToken, runId, cursor, signals, backlog, active, wire, horizon>>
evidenceVars == <<portalVars, events, closed, viewer, evidencePage>>

EvidenceInit ==
  /\ events = <<>> /\ closed = <<>>
  /\ viewer \in Viewers /\ actorToken = viewer
  /\ runId = 0 /\ cursor = 0 /\ signals = <<>> /\ backlog = FALSE
  /\ active = 0 /\ wire = None /\ horizon = 0

-------------------------------------------------------------------------------
\* project_signal(): the events of a ledger that an account may see.
VisibleIn(ledger, who) == {n \in DOMAIN ledger : who \in ledger[n]}

Sorted(seq) == \A i, j \in DOMAIN seq : i < j => seq[i] < seq[j]

Ascending(numbers) == CHOOSE seq \in [1..Cardinality(numbers) -> numbers] : Sorted(seq)

FirstOf(seq, n) == SubSeq(seq, 1, IF Len(seq) < n THEN Len(seq) ELSE n)

LastOf(seq, n) == SubSeq(seq, IF Len(seq) < n THEN 1 ELSE Len(seq) - n + 1, Len(seq))

NextSequence(page, after) == IF page = <<>> THEN after ELSE page[Len(page)]

\* participant_evidence()
Served(who, after) ==
  LET found == Ascending({n \in VisibleIn(events, who) : n > after})
      page  == FirstOf(found, PageSize)
  IN [run |-> run, signals |-> page, more |-> Len(found) > PageSize,
      next |-> NextSequence(page, after), length |-> Len(events)]

\* An event that some or none of the accounts may see.
Record(who) ==
  /\ play = "live" /\ Len(events) < MaxSignals
  /\ events' = Append(events, who)
  /\ UNCHANGED <<portalVars, closed, viewer, evidencePage>>

ChangeViewer(who) ==
  /\ viewer' = who /\ who # viewer
  /\ UNCHANGED <<portalVars, events, closed, evidencePage>>

\* clearView()
ClearView == cursor' = 0 /\ signals' = <<>> /\ runId' = 0 /\ backlog' = FALSE /\ horizon' = 0

\* synchronize(): another account, or Connect again, ends the refresh that is active.
Synchronize ==
  /\ actorToken' = viewer /\ active' = 0 /\ wire' = None
  /\ ClearView
  /\ UNCHANGED <<portalVars, events, closed, viewer>>

\* refresh() begins; it synchronizes first.
Refresh ==
  /\ viewer = actorToken /\ active = 0
  /\ active' = 1
  /\ UNCHANGED <<portalVars, events, closed, viewer, actorToken, runId, cursor, signals,
                 backlog, wire, horizon>>

\* The portal answers the page that the refresh is at.
ServePage ==
  /\ active # 0 /\ wire = None
  /\ wire' = Served(actorToken, cursor)
  /\ UNCHANGED <<portalVars, events, closed, viewer, actorToken, runId, cursor, signals,
                 backlog, active, horizon>>

\* Mutant: a page of another run is applied to the signals of the old one.
OtherRun_Bug == FALSE

OtherRun == runId \notin {0, wire.run}

\* A page of evidence arrives: one of another account was synchronized away, one of
\* another run only clears the view and is read again from the beginning.
ShowPage ==
  /\ wire # None /\ viewer = actorToken
  /\ wire' = None
  /\ runId' = wire.run
  /\ IF OtherRun
     THEN signals' = <<>> /\ cursor' = 0 /\ backlog' = TRUE /\ horizon' = 0
     ELSE /\ signals' = LastOf(signals \o wire.signals, Retained)
          /\ cursor' = wire.next /\ backlog' = wire.more /\ horizon' = wire.length
  /\ active' = IF backlog' /\ active < PageLimit THEN active + 1 ELSE 0
  /\ UNCHANGED <<portalVars, events, closed, viewer, actorToken>>

\* A read that fails clears what it was to extend.
PageFails ==
  /\ active # 0 /\ viewer = actorToken
  /\ active' = 0 /\ wire' = None
  /\ ClearView
  /\ UNCHANGED <<portalVars, events, closed, viewer, actorToken>>

EvidenceReset ==
  /\ NextRun
  /\ closed' = Append(closed, events) /\ events' = <<>>
  /\ UNCHANGED <<viewer, evidencePage>>

EvidenceNext ==
  \/ \E who \in Audiences : Record(who)
  \/ \E who \in Viewers : ChangeViewer(who)
  \/ Synchronize \/ Refresh \/ ServePage \/ ShowPage \/ PageFails
  \/ (StartPlay \/ EndPlay) /\ UNCHANGED <<events, closed, viewer, evidencePage>>
  \/ EvidenceReset

EvidenceSpec ==
  PortalInit /\ EvidenceInit /\ [][EvidenceNext]_evidenceVars

-------------------------------------------------------------------------------
\* The page shows signals in the order of the ledger, and what it leaves out of those
\* that were found is older than what it shows, which is then as much as it keeps.
ShowsLatest(found) ==
  /\ Sorted(signals) /\ Range(signals) \subseteq found /\ Len(signals) <= Retained
  /\ \A n \in found \ Range(signals) :
       Len(signals) = Retained /\ \A m \in Range(signals) : n < m

\* The page shows the latest of the signals that its account may see in its run up to
\* the cursor, without a hole and none of another's; when it says that no pages
\* remain, the cursor has passed all of them that there were.
EvidenceWhole ==
  LET ledger  == IF runId = run THEN events ELSE closed[runId]
      visible == VisibleIn(ledger, actorToken)
  IN IF runId = 0 THEN signals = <<>> /\ cursor = 0
     ELSE /\ ShowsLatest({n \in visible : n <= cursor})
          /\ ~backlog => \A n \in visible : n <= horizon => n <= cursor
===============================================================================
