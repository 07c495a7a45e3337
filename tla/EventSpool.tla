------------------------------- MODULE EventSpool -------------------------------
(***************************************************************************)
(* The publication of the event ledger to a directory of immutable batch   *)
(* files: export() of dashboard/event_spool.py, run by several publisher   *)
(* processes beside the portal that appends to the SQLite ledger.          *)
(*                                                                         *)
(* An attempt validates the spool without the lock, takes the lock or is   *)
(* refused, validates again, repairs HEAD, renames one private stage to a  *)
(* batch and moves HEAD to it.  Every call that reaches the spool directory *)
(* is a step of its own, so that a publisher may die, or the power fail,   *)
(* between any two.  A preview is an attempt that ends after its first     *)
(* validation.                                                             *)
(*                                                                         *)
(* The digest of a prefix is modelled as the prefix, so two digests are    *)
(* equal exactly when their prefixes are.  Private stages and temporary    *)
(* HEAD files are never read back and are left out: their content is       *)
(* synced before the rename that shows it.                                 *)
(*                                                                         *)
(* Definitions named ..._Bug are wrong on purpose: each is a slip of the   *)
(* definition that follows it, and breaks one of the properties below.     *)
(***************************************************************************)
EXTENDS Integers, Sequences, FiniteSets

CONSTANTS
  Publishers,   \* processes that run the exporter
  Nobody,       \* the owner of a free lock
  OurRuns,      \* runs of the exported exercise
  OtherRuns,    \* runs of other exercises in the same database
  Bodies,       \* contents that tell two events of equal run and sequence apart
  MaxSequence,  \* bound: events of a run
  MaxRows,      \* bound: rows of the ledger
  Limit,        \* --limit, the most events of one batch
  MaxFaults,    \* bound: killed attempts and power losses
  Gaps,         \* whether a reserved sequence number may never be stored
  Restores,     \* whether staff may restore an older database
  Reorders      \* whether unsynced directory operations survive out of order

ASSUME PublishersAssumption == Nobody \notin Publishers
ASSUME RunsAssumption == OurRuns \cap OtherRuns = {}
ASSUME BoundsAssumption ==
  /\ MaxSequence \in Nat /\ MaxRows \in Nat /\ MaxFaults \in Nat
  /\ Limit \in Nat \ {0}
ASSUME ChoicesAssumption ==
  Gaps \in BOOLEAN /\ Restores \in BOOLEAN /\ Reorders \in BOOLEAN

Runs   == OurRuns \cup OtherRuns
Events == [run : Runs, sequence : 1..MaxSequence, body : Bodies]
Entries == (Nat \ {0}) \X Events

\* A checkpoint: the last rowid and the digest of the exercise's rows up to it.
Checkpoints == [cursor : Nat, prefix : SUBSET Entries]
Empty  == [cursor |-> 0, prefix |-> {}]
NoHead == [cursor |-> -1, prefix |-> {}]

\* A batch directory: its manifest's checkpoints and the lines of events.jsonl.
Batches == [previous : Checkpoints, next : Checkpoints, rows : SUBSET Entries]
NoPlan  == [previous |-> Empty, next |-> Empty, rows |-> {}]

\* The spool directory: the batches in the order of their names, and HEAD.json.
Images == [batches : Seq(Batches), head : Checkpoints \cup {NoHead}]
Fresh  == [batches |-> <<>>, head |-> NoHead]

VARIABLES
  ledger,    \* the events table in rowid order
  root,      \* the spool directory as processes see it
  images,    \* the directories that may be found after a power loss
  lock,      \* who holds the flock on .lock
  pc,        \* how far the attempt of each publisher has come
  seen,      \* the directory when its unlocked validation listed it
  plan,      \* the batch it is about to publish
  faults,    \* killed attempts and power losses so far
  restored   \* whether the ledger was ever set back

vars == <<ledger, root, images, lock, pc, seen, plan, faults, restored>>
attempt == <<lock, pc, seen, plan>>

Critical == {"locked", "repair", "repaired", "rename", "renamed", "commit", "committed"}
Steps    == {"idle", "listed", "checked", "alarmed"} \cup Critical

TypeOK ==
  /\ ledger \in Seq(Events)
  /\ root \in Images
  /\ images \in SUBSET Images
  /\ lock \in Publishers \cup {Nobody}
  /\ pc \in [Publishers -> Steps]
  /\ seen \in [Publishers -> Images]
  /\ plan \in [Publishers -> Batches]
  /\ faults \in Nat
  /\ restored \in BOOLEAN

(***************************************************************************)
(* The ledger, read in one transaction.                                    *)
(***************************************************************************)
Ours(i) == ledger[i].run \in OurRuns
Prefix(c) == {<<i, ledger[i]>> : i \in {k \in DOMAIN ledger : k <= c /\ Ours(k)}}
Source(c) == [cursor |-> c, prefix |-> Prefix(c)]

\* _event checks the sequence numbers of each run along the rowids.
InSequence(entries) ==
  \A x \in entries :
    \/ x[2].sequence = 1
    \/ \E y \in entries : /\ y[1] < x[1]
                          /\ y[2].run = x[2].run
                          /\ y[2].sequence + 1 = x[2].sequence

Backlog(from) == {i \in DOMAIN ledger : i > from /\ Ours(i)}
\* Where a batch of at most Limit rows after `from' may end.
Selections(from) ==
  {c \in Backlog(from) : Cardinality(Prefix(c) \ Prefix(from)) <= Limit}

(***************************************************************************)
(* The spool, verified batch by batch.                                     *)
(***************************************************************************)
Tip(batches) == IF batches = <<>> THEN Empty ELSE batches[Len(batches)].next
ChainStates(batches) == {Empty} \cup {batches[k].next : k \in DOMAIN batches}
Chained(batches) ==
  \A k \in DOMAIN batches :
    batches[k].previous = IF k = 1 THEN Empty ELSE batches[k - 1].next

\* _batches accepts a directory listing with the HEAD it then loads.
Accepts(batches, head) ==
  IF head = NoHead THEN batches = <<>>
  ELSE Chained(batches) /\ head \in ChainStates(batches)
\* A missing or empty directory is accepted before HEAD is loaded.  A listing of
\* nothing but the lock file or an unfinished HEAD is treated alike: it is accepted or
\* refused, and checked again under the lock.
AcceptsListing(listing, head) == listing = Fresh \/ Accepts(listing.batches, head)
\* It refuses with "checkpoint missing from published chain".
Misses(batches, head) ==
  head # NoHead /\ Chained(batches) /\ head \notin ChainStates(batches)

\* _read compares every published batch with the rows of the source.
MatchesSource(batches) ==
  \A k \in DOMAIN batches :
    /\ batches[k].next.cursor \in Backlog(0)
    /\ batches[k].next = Source(batches[k].next.cursor)
    /\ batches[k].rows =
         Prefix(batches[k].next.cursor) \ Prefix(batches[k].previous.cursor)

\* The row right after the last published one is skipped.
PlanSkip_Bug(from, c) ==
  [previous |-> from, next |-> Source(c),
   rows |-> Prefix(c) \ Prefix(from.cursor + 1)]
\* Resumes after as many rowids as rows were published.
PlanCount_Bug(from, c) ==
  [previous |-> from, next |-> Source(c),
   rows |-> {e \in Prefix(c) : e[1] > Cardinality(from.prefix)}]
Plan(from, c) ==
  [previous |-> from, next |-> Source(c), rows |-> Prefix(c) \ Prefix(from.cursor)]
Done(from) == [previous |-> from, next |-> from, rows |-> {}]
\* The published prefix is not compared with the source.
ReadableUnmatched_Bug(batches) ==
  LET from == Tip(batches) IN
  IF Backlog(from.cursor) = {} THEN {Done(from)}
  ELSE {Plan(from, c) : c \in {s \in Selections(from.cursor) : InSequence(Prefix(s))}}
\* What _read may return: the next batch, or an empty one without a backlog.
Readable(batches) ==
  IF MatchesSource(batches)
  THEN LET from == Tip(batches) IN
       IF Backlog(from.cursor) = {} THEN {Done(from)}
       ELSE {Plan(from, c) : c \in {s \in Selections(from.cursor) : InSequence(Prefix(s))}}
  ELSE {}

(***************************************************************************)
(* The directory.  An operation is visible at once and durable after       *)
(* _sync(root); in between the power may fail before or after it, and      *)
(* with Reorders also without one of the operations before it.             *)
(***************************************************************************)
\* The new batch takes the place of the earlier ones.
AddBatch_Bug(image, batch) == [image EXCEPT !.batches = <<batch>>]
AddBatch(image, batch) == [image EXCEPT !.batches = Append(@, batch)]
SetHead(image, checkpoint) == [image EXCEPT !.head = checkpoint]

RenameStage(batch) ==
  /\ root' = AddBatch(root, batch)
  /\ images' = images \cup
       (IF Reorders THEN {AddBatch(image, batch) : image \in images}
        ELSE {AddBatch(root, batch)})
ReplaceHead(checkpoint) ==
  /\ root' = SetHead(root, checkpoint)
  /\ images' = images \cup
       (IF Reorders THEN {SetHead(image, checkpoint) : image \in images}
        ELSE {SetHead(root, checkpoint)})
SyncRoot == images' = {root} /\ UNCHANGED root

(***************************************************************************)
(* One attempt of a publisher.                                             *)
(***************************************************************************)
Goto(p, step) == pc' = [pc EXCEPT ![p] = step]

\* The lock outlives the process, as a lock file with a process id would.
Leave_Bug(p, step) ==
  /\ Goto(p, step)
  /\ seen' = [seen EXCEPT ![p] = Fresh]
  /\ plan' = [plan EXCEPT ![p] = NoPlan]
  /\ UNCHANGED lock
\* The attempt ends and its descriptors are closed, which frees the flock.
Leave(p, step) ==
  /\ Goto(p, step)
  /\ seen' = [seen EXCEPT ![p] = Fresh]
  /\ plan' = [plan EXCEPT ![p] = NoPlan]
  /\ lock' = IF lock = p THEN Nobody ELSE lock

Elsewhere == UNCHANGED <<ledger, faults, restored>>
Spool     == <<root, images>>

\* The unlocked validation lists the directory ...
List(p) ==
  /\ pc[p] \in {"idle", "alarmed"}
  /\ seen' = [seen EXCEPT ![p] = root]
  /\ Goto(p, "listed")
  /\ UNCHANGED <<lock, plan, Spool>> /\ Elsewhere

\* ... and then, if it found anything, loads HEAD, and reads the source.
Check(p) ==
  /\ pc[p] = "listed"
  /\ AcceptsListing(seen[p], root.head) /\ Readable(seen[p].batches) # {}
  /\ Goto(p, "checked")
  /\ seen' = [seen EXCEPT ![p] = Fresh]
  /\ UNCHANGED <<lock, plan, Spool>> /\ Elsewhere

\* Another publisher owns the spool, or the lock is taken.
TakeLock(p) ==
  /\ pc[p] = "checked"
  /\ IF lock = Nobody
     THEN /\ lock' = p /\ Goto(p, "locked")
          /\ UNCHANGED <<seen, plan>>
     ELSE Leave(p, "idle")
  /\ UNCHANGED Spool /\ Elsewhere

\* The locked validation; HEAD is initialised, repaired or up to date.
Inspect(p) ==
  /\ pc[p] = "locked"
  /\ Accepts(root.batches, root.head)
  /\ \E read \in Readable(root.batches) :
       IF root.head # read.previous
       THEN plan' = [plan EXCEPT ![p] = read] /\ Goto(p, "repair") /\ UNCHANGED <<lock, seen>>
       ELSE IF read.rows # {}
       THEN plan' = [plan EXCEPT ![p] = read] /\ Goto(p, "rename") /\ UNCHANGED <<lock, seen>>
       ELSE Leave(p, "idle")
  /\ UNCHANGED Spool /\ Elsewhere

\* A validation fails: SpoolError, with or without the lock; without it also
\* FileNotFoundError, when a listed stage or temporary HEAD was renamed meanwhile.
Invalid(listing) == ~AcceptsListing(listing, root.head) \/ Readable(listing.batches) = {}
After(listing)   ==
  IF listing # Fresh /\ Misses(listing.batches, root.head) THEN "alarmed" ELSE "idle"
Refuse(p) ==
  /\ \/ pc[p] = "listed" /\ Invalid(seen[p]) /\ Leave(p, After(seen[p]))
     \/ pc[p] = "listed" /\ seen[p] # root /\ Leave(p, "idle")
     \/ pc[p] = "locked" /\ Invalid(root) /\ Leave(p, After(root))
  /\ UNCHANGED Spool /\ Elsewhere

Repair(p) ==
  /\ pc[p] = "repair"
  /\ ReplaceHead(plan[p].previous)
  /\ Goto(p, "repaired")
  /\ UNCHANGED <<lock, seen, plan>> /\ Elsewhere

SyncRepair(p) ==
  /\ pc[p] = "repaired"
  /\ SyncRoot
  /\ IF plan[p].rows # {} THEN Goto(p, "rename") /\ UNCHANGED <<lock, seen, plan>>
     ELSE Leave(p, "idle")
  /\ Elsewhere

\* HEAD is moved before the batch it speaks of exists.
Rename_Bug(p) ==
  /\ pc[p] = "rename"
  /\ ReplaceHead(plan[p].next)
  /\ Goto(p, "renamed")
  /\ UNCHANGED <<lock, seen, plan>> /\ Elsewhere
\* The stage becomes a batch, unless its name is taken.
Rename(p) ==
  /\ pc[p] = "rename"
  /\ \A k \in DOMAIN root.batches :
       root.batches[k].previous # plan[p].previous \/ root.batches[k].next # plan[p].next
  /\ RenameStage(plan[p])
  /\ Goto(p, "renamed")
  /\ UNCHANGED <<lock, seen, plan>> /\ Elsewhere

SyncRename(p) ==
  /\ pc[p] = "renamed"
  /\ SyncRoot
  /\ Goto(p, "commit")
  /\ UNCHANGED <<lock, seen, plan>> /\ Elsewhere

Commit(p) ==
  /\ pc[p] = "commit"
  /\ ReplaceHead(plan[p].next)
  /\ Goto(p, "committed")
  /\ UNCHANGED <<lock, seen, plan>> /\ Elsewhere

SyncCommit(p) ==
  /\ pc[p] = "committed"
  /\ SyncRoot
  /\ Leave(p, "idle")
  /\ Elsewhere

Publish(p) ==
  \/ List(p) \/ Check(p) \/ TakeLock(p) \/ Inspect(p) \/ Refuse(p)
  \/ Repair(p) \/ SyncRepair(p)
  \/ Rename(p) \/ SyncRename(p) \/ Commit(p) \/ SyncCommit(p)

(***************************************************************************)
(* Faults and the environment.                                             *)
(***************************************************************************)

\* A publisher is killed, or one of its file operations raises OSError.
Die(p) ==
  /\ pc[p] # "idle" /\ faults < MaxFaults
  /\ Leave(p, "idle")
  /\ faults' = faults + 1
  /\ UNCHANGED <<ledger, restored, Spool>>

\* The machine restarts with one of the directories the disk may hold.
PowerLoss ==
  /\ faults < MaxFaults
  /\ \E image \in images : root' = image /\ images' = {image}
  /\ lock' = Nobody
  /\ pc' = [p \in Publishers |-> "idle"]
  /\ seen' = [p \in Publishers |-> Fresh]
  /\ plan' = [p \in Publishers |-> NoPlan]
  /\ faults' = faults + 1
  /\ UNCHANGED <<ledger, restored>>

\* The portal stores an event.  The table is unique in (exercise, run, sequence);
\* with Gaps a number was reserved for an event that was never stored.
Store(event) ==
  /\ Len(ledger) < MaxRows
  /\ \A i \in DOMAIN ledger :
       ledger[i].run = event.run => ledger[i].sequence < event.sequence
  /\ \/ Gaps
     \/ event.sequence = 1
     \/ \E i \in DOMAIN ledger :
          ledger[i].run = event.run /\ ledger[i].sequence + 1 = event.sequence
  /\ ledger' = Append(ledger, event)
  /\ UNCHANGED <<Spool, attempt, faults, restored>>

\* Staff set the database back while nobody publishes.
Restore(n) ==
  /\ Restores /\ ~restored /\ lock = Nobody
  /\ ledger' = SubSeq(ledger, 1, n)
  /\ restored' = TRUE
  /\ UNCHANGED <<Spool, attempt, faults>>

Init ==
  /\ ledger = <<>>
  /\ root = Fresh
  /\ images = {root}
  /\ lock = Nobody
  /\ pc = [p \in Publishers |-> "idle"]
  /\ seen = [p \in Publishers |-> Fresh]
  /\ plan = [p \in Publishers |-> NoPlan]
  /\ faults = 0
  /\ restored = FALSE

Next ==
  \/ \E p \in Publishers : Publish(p) \/ Die(p)
  \/ PowerLoss
  \/ \E event \in Events : Store(event)
  \/ \E n \in 0..(Len(ledger) - 1) : Restore(n)

Spec == Init /\ [][Next]_vars

\* The exporter is scheduled again and again; an attempt that is not killed runs
\* to its end.  Faults are bounded, so that they end.
FairSpec == Spec /\ \A p \in Publishers : WF_vars(Publish(p))

--------------------------------------------------------------------------------
(***************************************************************************)
(* Safety.                                                                 *)
(***************************************************************************)
Published(batches) == UNION {batches[k].rows : k \in DOMAIN batches}

\* After any crash the next export finds a spool it accepts: HEAD never speaks of
\* a batch that the disk may not hold, and no batch exists without a HEAD.
CheckpointsHold == \A image \in images : Accepts(image.batches, image.head)

\* Unless the database was set back, what is published, or may be found published
\* after a power loss, is exactly the ledger's prefix up to the last batch, and
\* no event of a run is in it beyond a sequence number that was lost.
ExactPrefix ==
  ~restored => \A image \in images :
    LET batches == image.batches IN
    /\ Published(batches) = Prefix(Tip(batches).cursor)
    /\ Tip(batches).cursor \in 0..Len(ledger)
    /\ InSequence(Published(batches))

\* No event is in two batches, across retries, concurrent publishers, power
\* losses and a database that was set back and grew again.
EachEventOnce ==
  \A j, k \in DOMAIN root.batches :
    \A x \in root.batches[j].rows, y \in root.batches[k].rows :
      x[2] = y[2] => j = k /\ x = y

\* Nothing is published on top of a prefix that the source no longer holds.
NothingOnAChangedSource ==
  [][Len(root'.batches) > Len(root.batches) => MatchesSource(root.batches)]_vars

\* What is sure to survive a power loss is a publication in the abstract sense.
Settled == {x \in Published(root.batches) :
              \A image \in images : x \in Published(image.batches)}
Publication == INSTANCE Publication WITH published <- Settled
ImplementsPublication == Publication!Spec

(***************************************************************************)
(* Liveness.                                                               *)
(***************************************************************************)

\* Every stored event of the exercise is published in the end, whichever publisher
\* does it and wherever earlier attempts were killed.
BacklogDrains ==
  \A i \in 1..MaxRows :
    (i \in DOMAIN ledger /\ Ours(i)) ~> i <= Tip(root.batches).cursor

(***************************************************************************)
(* What the sources say and the code does not keep.                        *)
(***************************************************************************)

\* event_spool.py:229, "checkpoint missing from published chain; preserve
\* evidence": the alarm is raised only about a spool whose HEAD is missing.
AlarmsAreReal ==
  [][\A p \in Publishers :
       pc'[p] = "alarmed" => pc[p] = "alarmed" \/ Misses(root.batches, root.head)]_vars
================================================================================
