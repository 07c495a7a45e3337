---------------------------- MODULE RunLedgerProofs ----------------------------
(***************************************************************************)
(* Proofs about RunLedger, for any number of run IDs and events, as long   *)
(* as no run is given an ID that another one had.                          *)
(*                                                                         *)
(* LedgerCheckIsExact is not inductive: a loss that the comparison finds   *)
(* must not be made good by a later event.  It is not, because a lost      *)
(* event leaves a number below the sequencer that is not in the table      *)
(* (Holed) and that no event of the run can take any more, for all numbers *)
(* of the run are at or below the sequencer (Bounded).                     *)
(***************************************************************************)
EXTENDS RunLedger, TLAPS

Bounded == stored[run] \subseteq 1..sequence
Holed   == run \in lost => \E n \in 1..sequence : n \notin stored[run]
Whole   == run = parts /\ run \notin lost => LedgerMatches

LedgerInv == LedgerTypeOK /\ Bounded /\ Holed /\ Whole

LEMMA InvariantSuffices == LedgerInv => LedgerCheckIsExact
BY DEF LedgerInv, Holed, Whole, LedgerCheckIsExact, LedgerMatches

\* An event of the current run, or of the run that the other components write for.
LEMMA AppendKeeps ==
  ASSUME LedgerInv, NEW r \in {run, parts}, NEW written \in BOOLEAN,
         Append(r, sequence + 1, written), UNCHANGED <<run, parts>>
  PROVE  /\ sequence' \in 0..MaxNumber
         /\ stored' \in [Runs -> SUBSET (1..MaxNumber)] /\ lost' \subseteq Runs
         /\ Bounded' /\ Holed' /\ Whole'
<1> DEFINE n == sequence + 1
<1> USE LedgerAssumption
<1>1. /\ run \in Runs /\ parts \in Runs /\ r \in Runs
      /\ sequence \in 0..MaxNumber /\ n \in 1..MaxNumber
      /\ stored \in [Runs -> SUBSET (1..MaxNumber)] /\ lost \subseteq Runs
      /\ sequence' = n
  BY DEF LedgerInv, LedgerTypeOK, Append
<1>2. CASE Fits(r, n, written)
  <2>1. stored' = [stored EXCEPT ![r] = @ \union {n}] /\ lost' = lost
    BY <1>2 DEF Append
  <2>2. stored'[run] \in {stored[run], stored[run] \union {n}}
    BY <1>1, <2>1
  <2>3. Bounded'
    BY <1>1, <2>2 DEF LedgerInv, Bounded
  <2>4. Holed'
    BY <1>1, <2>1, <2>2 DEF LedgerInv, Holed
  <2>5. Whole'
    <3>1. SUFFICES ASSUME run = parts, run \notin lost PROVE LedgerMatches'
      BY <2>1 DEF Whole
    <3>2. r = run /\ stored[run] = 1..sequence
      BY <3>1 DEF LedgerInv, Whole, LedgerMatches
    <3>3. stored'[run] = 1..n
      BY <1>1, <2>1, <3>2
    <3>4. QED
      BY <1>1, <3>3 DEF LedgerMatches
  <2>6. QED
    BY <1>1, <2>1, <2>3, <2>4, <2>5
<1>3. CASE ~Fits(r, n, written)
  <2>1. stored' = stored /\ lost' = lost \union {r}
    BY <1>3 DEF Append
  <2>2. Bounded'
    BY <1>1, <2>1 DEF LedgerInv, Bounded
  <2>3. n \notin stored[run]
    BY <1>1 DEF LedgerInv, Bounded
  <2>4. Holed'
    BY <1>1, <2>1, <2>3 DEF Holed
  <2>5. Whole'
    BY <2>1 DEF Whole
  <2>6. QED
    BY <1>1, <2>1, <2>2, <2>4, <2>5
<1>4. QED
  BY <1>2, <1>3

LEMMA EmitKeeps == LedgerInv /\ Emit => LedgerInv'
<1> SUFFICES ASSUME LedgerInv, Emit PROVE LedgerInv'
  OBVIOUS
<1>1. PICK r \in {run, parts}, written \in BOOLEAN : Append(r, sequence + 1, written)
  BY DEF Emit
<1>2. UNCHANGED <<run, parts, state, archives, reused>>
  BY DEF Emit
<1>3. QED
  BY <1>1, <1>2, AppendKeeps DEF LedgerInv, LedgerTypeOK

LEMMA ArchiveKeeps == LedgerInv /\ Archive => LedgerInv'
<1> SUFFICES ASSUME LedgerInv, Archive PROVE LedgerInv'
  OBVIOUS
<1>1. /\ Append(run, sequence + 1, TRUE) /\ UNCHANGED <<run, parts, reused>>
      /\ archives' = archives \union {Snapshot} /\ state' \in {"over", "cleanup"}
  BY DEF Archive
<1>2. Snapshot \in [run : Runs, upto : 0..MaxNumber]
  BY DEF LedgerInv, LedgerTypeOK, Snapshot
<1>3. QED
  BY <1>1, <1>2, AppendKeeps DEF LedgerInv, LedgerTypeOK

\* A capture that raises: the ledger matched, so that it either still does, or the
\* number of the archive is the hole.
LEMMA ArchiveRaisesKeeps == LedgerInv /\ ArchiveRaises => LedgerInv'
<1> SUFFICES ASSUME LedgerInv, ArchiveRaises PROVE LedgerInv'
  OBVIOUS
<1> USE LedgerAssumption
<1>1. PICK committed \in BOOLEAN, readable \in BOOLEAN :
       /\ sequence' = IF GivenBack(committed, readable) THEN sequence ELSE sequence + 1
       /\ stored' = IF committed THEN [stored EXCEPT ![run] = @ \union {sequence + 1}] ELSE stored
       /\ archives' = IF committed THEN archives \union {Snapshot} ELSE archives
       /\ lost' = IF committed \/ readable THEN lost ELSE lost \union {run}
  BY DEF ArchiveRaises
<1>2. /\ run \in Runs /\ parts \in Runs /\ sequence \in 0..MaxNumber
      /\ sequence + 1 \in 1..MaxNumber
      /\ stored \in [Runs -> SUBSET (1..MaxNumber)] /\ stored[run] = 1..sequence
      /\ lost \subseteq Runs /\ UNCHANGED <<run, parts, state, reused>>
  BY DEF ArchiveRaises, LedgerInv, LedgerTypeOK, LedgerMatches
<1>3. Snapshot \in [run : Runs, upto : 0..MaxNumber]
  BY <1>2 DEF Snapshot
<1>4. run \notin lost
  BY <1>2 DEF LedgerInv, Holed
<1>5. LedgerTypeOK'
  BY <1>1, <1>2, <1>3 DEF LedgerInv, LedgerTypeOK
<1>6. CASE committed
  <2>1. sequence' = sequence + 1 /\ lost' = lost
    BY <1>1, <1>6 DEF GivenBack
  <2>2. stored'[run] = 1..sequence + 1
    BY <1>1, <1>2, <1>6
  <2>3. QED
    BY <1>2, <1>4, <1>5, <2>1, <2>2 DEF LedgerInv, Bounded, Holed, Whole, LedgerMatches
<1>7. CASE ~committed /\ readable
  <2>1. sequence' = sequence /\ lost' = lost /\ stored' = stored
    BY <1>1, <1>7 DEF GivenBack
  <2>2. QED
    BY <1>2, <1>5, <2>1 DEF LedgerInv, Bounded, Holed, Whole, LedgerMatches
<1>8. CASE ~committed /\ ~readable
  <2>1. sequence' = sequence + 1 /\ lost' = lost \union {run} /\ stored' = stored
    BY <1>1, <1>8 DEF GivenBack
  <2>2. QED
    BY <1>2, <1>5, <2>1 DEF LedgerInv, Bounded, Holed, Whole
<1>9. QED
  BY <1>6, <1>7, <1>8

LEMMA CleanupKeeps == LedgerInv /\ Cleanup => LedgerInv'
<1> SUFFICES ASSUME LedgerInv, Cleanup PROVE LedgerInv'
  OBVIOUS
<1>1. PICK written \in BOOLEAN : Append(parts, sequence + 1, written)
  BY DEF Cleanup
<1>2. UNCHANGED <<run, parts, archives, reused>> /\ state' \in {"cleanup", "over"}
  BY DEF Cleanup
<1>3. QED
  BY <1>1, <1>2, AppendKeeps DEF LedgerInv, LedgerTypeOK

\* The new run has an ID of its own, and no number is stored under it.
LEMMA OpenNextRunKeeps ==
  ASSUME ~ReusedIds PROVE LedgerInv /\ OpenNextRun => LedgerInv'
<1> SUFFICES ASSUME LedgerInv, OpenNextRun PROVE LedgerInv'
  OBVIOUS
<1> USE LedgerAssumption
<1>1. PICK next \in UnusedIds \ {run}, written \in BOOLEAN, raised \in BOOLEAN :
       /\ Append(next, 1, written)
       /\ run' = next
       /\ parts' = IF written /\ ~raised THEN next ELSE parts
  BY DEF OpenNextRun
<1>2. /\ next \in Runs /\ stored[next] = {} /\ next \notin lost
      /\ stored \in [Runs -> SUBSET (1..MaxNumber)] /\ lost \subseteq Runs
      /\ 1 \in 0..MaxNumber /\ 1 \in 1..MaxNumber /\ sequence' = 1
  BY <1>1 DEF UnusedIds, LedgerInv, LedgerTypeOK, Append
<1>3. parts' \in Runs /\ archives' = archives /\ state' = "ready" /\ reused' = FALSE
  BY <1>1, <1>2 DEF OpenNextRun, LedgerInv, LedgerTypeOK
<1>4. CASE written
  <2>1. stored' = [stored EXCEPT ![next] = @ \union {1}] /\ lost' = lost
    BY <1>1, <1>2, <1>4 DEF Append, Fits
  <2>2. stored'[run'] = 1..1
    BY <1>1, <1>2, <2>1
  <2>3. QED
    BY <1>1, <1>2, <1>3, <2>1, <2>2
       DEF LedgerInv, LedgerTypeOK, Bounded, Holed, Whole, LedgerMatches
<1>5. CASE ~written
  <2>1. stored' = stored /\ lost' = lost \union {next}
    BY <1>1, <1>5 DEF Append, Fits
  <2>2. LedgerTypeOK'
    BY <1>1, <1>2, <1>3, <2>1 DEF LedgerInv, LedgerTypeOK
  <2>3. stored'[run'] = {} /\ run' \in lost' /\ 1 \in 1..sequence'
    BY <1>1, <1>2, <2>1
  <2>4. QED
    BY <2>2, <2>3 DEF LedgerInv, Bounded, Holed, Whole
<1>6. QED
  BY <1>4, <1>5

LEMMA RestartKeeps == ASSUME ~ReusedIds PROVE LedgerInv /\ Restart => LedgerInv'
<1> SUFFICES ASSUME LedgerInv, Restart PROVE LedgerInv'
  OBVIOUS
<1>1. PICK next \in UnusedIds :
        run' = next /\ parts' = next /\ reused' = (stored[next] # {})
  BY DEF Restart
<1>2. stored[next] = {} /\ next \notin lost /\ next \in Runs
  BY DEF UnusedIds
<1>3. sequence' = 0 /\ state' = "ready" /\ UNCHANGED <<stored, archives, lost>>
  BY DEF Restart
<1>4. reused' \in BOOLEAN
  BY <1>1
<1>5. LedgerTypeOK'
  BY <1>1, <1>2, <1>3, <1>4, LedgerAssumption DEF LedgerInv, LedgerTypeOK
<1>6. QED
  BY <1>1, <1>2, <1>3, <1>5 DEF LedgerInv, Bounded, Holed, Whole, LedgerMatches

LEMMA StepKeeps == ASSUME ~ReusedIds PROVE LedgerInv /\ [LedgerNext]_ledgerVars => LedgerInv'
<1> SUFFICES ASSUME LedgerInv, [LedgerNext]_ledgerVars PROVE LedgerInv'
  OBVIOUS
<1>1. CASE Start \/ EndPlay \/ CleanupFails \/ UNCHANGED ledgerVars
  BY <1>1 DEF Start, EndPlay, CleanupFails, ledgerVars,
              LedgerInv, LedgerTypeOK, Bounded, Holed, Whole, LedgerMatches
<1>2. QED
  BY <1>1, EmitKeeps, ArchiveKeeps, ArchiveRaisesKeeps, CleanupKeeps, OpenNextRunKeeps,
     RestartKeeps DEF LedgerNext

LEMMA InvariantHolds == ASSUME ~ReusedIds PROVE LedgerSpec => []LedgerInv
<1>1. ASSUME LedgerInit PROVE LedgerInv
  <2>1. stored[run] = {} /\ 1..sequence = {} /\ lost = {}
    BY <1>1 DEF LedgerInit
  <2>2. LedgerTypeOK
    <3>1. sequence \in 0..MaxNumber
      BY <1>1, LedgerAssumption DEF LedgerInit
    <3>2. stored \in [Runs -> SUBSET (1..MaxNumber)]
      BY <1>1 DEF LedgerInit
    <3>3. QED
      BY <1>1, <3>1, <3>2 DEF LedgerInit, LedgerTypeOK
  <2>3. QED
    BY <2>1, <2>2 DEF LedgerInv, Bounded, Holed, Whole, LedgerMatches
<1>2. QED
  BY <1>1, StepKeeps, PTL DEF LedgerSpec

-------------------------------------------------------------------------------
\* _ledger_matches() and _capture_review(): the comparison of the ledger with the
\* sequencer finds every lost event and nothing else, whatever appends are refused,
\* whichever archives raise at whatever point and are taken back or not, wherever a
\* reset breaks off and whenever the process ends, if run IDs are not used again.
THEOREM LedgerCheckExact == ASSUME ~ReusedIds PROVE LedgerSpec => []LedgerCheckIsExact
BY InvariantHolds, InvariantSuffices, PTL

\* What a reset in progress has checked holds until it opens the next run: the run is
\* archived, and no event of its cleanup has been lost since.
InReset == state = "cleanup" => run \notin lost /\ \E a \in archives : a.run = run

LEMMA ResetKeeps ==
  ASSUME ~ReusedIds, LedgerInv, InReset, [LedgerNext]_ledgerVars PROVE InReset'
<1>1. CASE Archive
  <2>1. run \notin lost
    BY <1>1 DEF Archive, LedgerMatches, LedgerInv, Holed
  <2>2. Fits(run, sequence + 1, TRUE)
    BY <1>1, LedgerAssumption DEF LedgerInv, Bounded, LedgerTypeOK, Fits
  <2>3. lost' = lost /\ run' = run /\ archives' = archives \union {Snapshot}
    BY <1>1, <2>2 DEF Archive, Append
  <2>4. Snapshot \in archives' /\ Snapshot.run = run
    BY <2>3 DEF Snapshot
  <2>5. QED
    BY <2>1, <2>3, <2>4 DEF InReset
<1>2. CASE Cleanup
  <2>1. PICK written \in BOOLEAN :
         /\ Append(parts, sequence + 1, written)
         /\ state' \in IF Fits(parts, sequence + 1, written) THEN {"cleanup", "over"} ELSE {"over"}
    BY <1>2 DEF Cleanup
  <2>2. state = "cleanup" /\ UNCHANGED <<run, archives>>
    BY <1>2 DEF Cleanup
  <2>3. CASE Fits(parts, sequence + 1, written)
    BY <2>1, <2>2, <2>3 DEF Append, InReset
  <2>4. CASE ~Fits(parts, sequence + 1, written)
    BY <2>1, <2>4 DEF InReset
  <2>5. QED
    BY <2>3, <2>4
<1>3. CASE Emit \/ Start \/ EndPlay \/ ArchiveRaises \/ CleanupFails \/ OpenNextRun \/ Restart
  BY <1>3 DEF Emit, Start, EndPlay, ArchiveRaises, CleanupFails, OpenNextRun, Restart, InReset
<1>4. CASE UNCHANGED ledgerVars
  BY <1>4 DEF ledgerVars, InReset
<1>5. QED
  BY <1>1, <1>2, <1>3, <1>4 DEF LedgerNext

\* _reset_run() and IdentitySliceRun.reset(): the next run is opened only behind an
\* archive of the run that is left, and behind a cleanup whose events are all stored.
THEOREM ResetsLoseNothing == ASSUME ~ReusedIds PROVE LedgerSpec => ResetLosesNothing
<1> DEFINE Left == state = "cleanup" /\ state' = "ready" /\ sequence' # 0 =>
                     run \notin lost /\ \E a \in archives : a.run = run
<1>1. LedgerInit => InReset
  BY DEF LedgerInit, InReset
<1>2. LedgerInv /\ InReset /\ [LedgerNext]_ledgerVars => InReset'
  BY ResetKeeps
<1>3. InReset => [Left]_ledgerVars
  BY DEF InReset
<1>4. QED
  BY <1>1, <1>2, <1>3, InvariantHolds, PTL DEF LedgerSpec, ResetLosesNothing
================================================================================
