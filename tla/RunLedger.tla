------------------------------- MODULE RunLedger -------------------------------
(***************************************************************************)
(* The one sequencer of the portal process and the event numbers that the  *)
(* database holds for each run ID: what archives, resets, failed appends   *)
(* and restarts make of them (shared/events.py, dashboard/store.py,        *)
(* DashboardService, IdentitySliceRun.reset).  Every call holds the run    *)
(* lock; what is left to chance is which writes are stored and which calls *)
(* raise.  An event is its number.                                         *)
(*                                                                         *)
(* SupervisedRun and ScheduledMfa keep the negation of LedgerMatches as    *)
(* `gap', PortalRun and its workflows keep LedgerMatches as `intact'.      *)
(***************************************************************************)
EXTENDS Naturals, FiniteSets

CONSTANTS Runs,        \* bound: run IDs
          MaxNumber,   \* bound: events of a run
          ReusedIds    \* a run may be given an ID that another one had

ASSUME LedgerAssumption == MaxNumber \in Nat /\ ReusedIds \in BOOLEAN

VARIABLES
  run,        \* controller.run_id
  parts,      \* the run ID in the event contexts of the other components
  state,      \* controller.state; "live" is running or paused, "over" is stopped or
              \* completed, "cleanup" the time between a reset's archive and its new run
  sequence,   \* sequencer.sequence, the last number that was reserved
  stored,     \* the numbers in the events table, by run ID
  archives,   \* the review_archives table: a run, and the last number in its bundle
  lost,       \* history: run IDs with an event that was emitted and not stored
  reused      \* history: the run began with events of another process in its ledger

ledgerVars == <<run, parts, state, sequence, stored, archives, lost, reused>>

LedgerTypeOK ==
  /\ run \in Runs /\ parts \in Runs
  /\ state \in {"ready", "live", "over", "cleanup"}
  /\ sequence \in 0..MaxNumber
  /\ stored \in [Runs -> SUBSET (1..MaxNumber)]
  /\ archives \subseteq [run : Runs, upto : 0..MaxNumber]
  /\ lost \subseteq Runs /\ reused \in BOOLEAN

\* _ledger_matches() and the check of _capture_review().
LedgerMatches == stored[run] = 1..sequence

\* The table holds a number of a run once.
Fits(r, n, written) == written /\ n \notin stored[r]

\* An event takes its number when it is built, and is stored or not.
Append(r, n, written) ==
  /\ n <= MaxNumber
  /\ sequence' = n
  /\ stored' = IF Fits(r, n, written) THEN [stored EXCEPT ![r] = @ \union {n}] ELSE stored
  /\ lost' = IF Fits(r, n, written) THEN lost ELSE lost \union {r}

\* Any handler, tick, stop or page, before play too: the controller writes for its own
\* run, the adapters and the stages for the run they were built for.  Whether the call
\* raises makes no difference here.
Emit ==
  /\ state # "cleanup"
  /\ \E r \in {run, parts}, written \in BOOLEAN : Append(r, sequence + 1, written)
  /\ UNCHANGED <<run, parts, state, archives, reused>>

\* start_run(), as far as the event_ledger check goes.
Start ==
  /\ state = "ready" /\ LedgerMatches
  /\ state' = "live"
  /\ UNCHANGED <<run, parts, sequence, stored, archives, lost, reused>>

EndPlay ==
  /\ state \in {"ready", "live"}
  /\ state' = "over"
  /\ UNCHANGED <<run, parts, sequence, stored, archives, lost, reused>>

(***************************************************************************)
(* Archives: of the staff, and of every reset.                             *)
(***************************************************************************)
Snapshot == [run |-> run, upto |-> sequence]

\* append_review_archive(): the bundle and its audit in one transaction.
Archive ==
  /\ state = "over" /\ LedgerMatches
  /\ Append(run, sequence + 1, TRUE)
  /\ archives' = archives \union {Snapshot}
  /\ state' \in {"over", "cleanup"}
  /\ UNCHANGED <<run, parts, reused>>

\* Mutant: a readable ledger is not compared with the bundle before the rewind.
GivenBack_Bug(committed, readable) == readable

\* The number that a failed capture reserved is given back if the ledger can be read
\* and is still the bundle's.
GivenBack(committed, readable) == readable /\ ~committed

\* The capture raises: while the event is built, in the transaction, or after it has
\* been committed.
ArchiveRaises ==
  /\ state = "over" /\ LedgerMatches /\ sequence < MaxNumber
  /\ \E committed, readable \in BOOLEAN :
       /\ sequence' = IF GivenBack(committed, readable) THEN sequence ELSE sequence + 1
       /\ stored' = IF committed THEN [stored EXCEPT ![run] = @ \union {sequence + 1}] ELSE stored
       /\ archives' = IF committed THEN archives \union {Snapshot} ELSE archives
       /\ lost' = IF committed \/ readable THEN lost ELSE lost \union {run}
  /\ UNCHANGED <<run, parts, state, reused>>

(***************************************************************************)
(* The rest of a reset: the impact stage cleans up with events of its own, *)
(* the sequencer starts anew, and the controller opens the next run.       *)
(***************************************************************************)
\* Mutant: a lost event of the cleanup is passed over.
Cleanup_Bug ==
  /\ state = "cleanup"
  /\ \E written \in BOOLEAN : Append(parts, sequence + 1, written)
  /\ state' \in {"cleanup", "over"}
  /\ UNCHANGED <<run, parts, archives, reused>>

\* restore_for_reset(): an event that is not stored raises and ends the reset.
Cleanup ==
  /\ state = "cleanup"
  /\ \E written \in BOOLEAN :
       /\ Append(parts, sequence + 1, written)
       /\ state' \in IF Fits(parts, sequence + 1, written) THEN {"cleanup", "over"} ELSE {"over"}
  /\ UNCHANGED <<run, parts, archives, reused>>

\* The fixture cannot be restored or provisioned: the run stays, archived or not.
CleanupFails ==
  /\ state = "cleanup"
  /\ state' = "over"
  /\ UNCHANGED <<run, parts, sequence, stored, archives, lost, reused>>

\* IDs without an event.  One whose only events were lost looks unused.
UnusedIds == {r \in Runs : stored[r] = {} /\ (ReusedIds \/ r \notin lost)}

\* sequencer.reset() and controller.reset(), whose event is number 1 of the new run.
\* When the sink raises, the components are not built anew.
OpenNextRun ==
  /\ state = "cleanup"
  /\ \E next \in UnusedIds \ {run}, written, raised \in BOOLEAN :
       /\ Append(next, 1, written)
       /\ run' = next
       /\ parts' = IF written /\ ~raised THEN next ELSE parts
  /\ state' = "ready" /\ reused' = FALSE
  /\ UNCHANGED archives

\* The process ends anywhere.  A new one has a sequencer at 0, and the run ID of its
\* configuration or a new one.
Restart ==
  /\ \E next \in IF ReusedIds THEN Runs ELSE UnusedIds :
       /\ run' = next /\ parts' = next
       /\ reused' = (stored[next] # {})
  /\ sequence' = 0 /\ state' = "ready"
  /\ UNCHANGED <<stored, archives, lost>>

LedgerInit ==
  /\ run \in Runs /\ parts = run
  /\ state = "ready" /\ sequence = 0
  /\ stored = [r \in Runs |-> {}] /\ archives = {}
  /\ lost = {} /\ reused = FALSE

LedgerNext ==
  \/ Emit \/ Start \/ EndPlay
  \/ Archive \/ ArchiveRaises
  \/ Cleanup \/ CleanupFails \/ OpenNextRun
  \/ Restart

LedgerSpec == LedgerInit /\ [][LedgerNext]_ledgerVars

-------------------------------------------------------------------------------
(***************************************************************************)
(* Properties.                                                             *)
(***************************************************************************)

\* docs/exercise-clock.md: "do not delete events, rewind the sequence, fabricate missing
\* records".  The comparison of the ledger with the sequencer, which archives, resets,
\* support and readiness rest on, finds every loss: none is hidden by a rewind, by a
\* number that is used again or by a new run.  And it finds nothing else: a run that
\* lost no event, with components of its own, can be archived after any number of
\* captures that failed and were taken back.
LedgerCheckIsExact ==
  /\ LedgerMatches => run \notin lost
  /\ run = parts /\ run \notin lost => LedgerMatches

\* A reset leaves a run behind only archived and with all of its events, those of its own
\* cleanup included, wherever an earlier reset of that run has failed.
ResetLosesNothing ==
  [][state = "cleanup" /\ state' = "ready" /\ sequence' # 0 =>
       /\ run \notin lost
       /\ \E a \in archives : a.run = run]_ledgerVars

\* docs/application-deployment-contract.md: "existing runtime readiness rejects a reused
\* event ledger".  It does until as many appends of the new process have been refused as
\* the old one had stored: each of them advances the sequencer.
ReusedLedgerIsRejected == state = "ready" /\ reused => ~LedgerMatches
================================================================================
