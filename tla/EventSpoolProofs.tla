--------------------------- MODULE EventSpoolProofs ---------------------------
(***************************************************************************)
(* Proofs about EventSpool for every number of publishers, every ledger    *)
(* and every bound.  Two facts carry them: the lock admits one publisher   *)
(* between its locked validation and its last sync, and while it is there  *)
(* its plan continues the chain that is in the directory.                  *)
(***************************************************************************)
EXTENDS EventSpool, TLAPS

\* Only the owner of the lock is past its locked validation.
LockProtects == \A p \in Publishers : pc[p] \in Critical => lock = p

\* The plan of the owner starts at the last batch, or has become the last batch,
\* and HEAD exists before a stage is renamed.
PlanContinues ==
  \A p \in Publishers :
    /\ pc[p] \in {"repair", "repaired", "rename"} => plan[p].previous = Tip(root.batches)
    /\ pc[p] \in {"renamed", "commit", "committed"} => plan[p].next = Tip(root.batches)
    /\ pc[p] \in {"repaired", "rename", "renamed", "commit"} => root.head # NoHead

SpoolInv == TypeOK /\ root \in images /\ LockProtects /\ PlanContinues /\ CheckpointsHold

-------------------------------------------------------------------------------
\* Entries read from the ledger are entries: _read returns rows of the table.
LEMMA PrefixType ==
  ASSUME TypeOK, NEW c
  PROVE  Prefix(c) \in SUBSET Entries
BY DEF TypeOK, Prefix, Entries

\* Checkpoints of a directory are checkpoints, and never the missing HEAD.
LEMMA TipType ==
  ASSUME NEW batches \in Seq(Batches)
  PROVE  /\ Tip(batches) \in Checkpoints
         /\ Tip(batches) \in ChainStates(batches)
         /\ ChainStates(batches) \subseteq Checkpoints
         /\ NoHead \notin Checkpoints
<1>1. \A k \in DOMAIN batches : batches[k] \in Batches
  OBVIOUS
<1>2. batches # <<>> => Len(batches) \in DOMAIN batches
  OBVIOUS
<1>3. Empty \in Checkpoints /\ NoHead \notin Checkpoints
  BY DEF Empty, Checkpoints, NoHead
<1>4. \A k \in DOMAIN batches : batches[k].next \in Checkpoints
  BY <1>1 DEF Batches
<1>. QED  BY <1>2, <1>3, <1>4 DEF Tip, ChainStates

\* What _read returns is a batch that starts at the last published checkpoint.
LEMMA ReadableType ==
  ASSUME TypeOK, NEW batches \in Seq(Batches), NEW read \in Readable(batches)
  PROVE  read \in Batches /\ read.previous = Tip(batches)
<1>1. Tip(batches) \in Checkpoints
  BY TipType
<1>2. \A c \in DOMAIN ledger : Source(c) \in Checkpoints
  BY PrefixType DEF Source, Checkpoints, TypeOK
<1>3. CASE read = Done(Tip(batches))
  BY <1>1, <1>3 DEF Done, Batches
<1>4. CASE \E c \in Backlog(Tip(batches).cursor) : read = Plan(Tip(batches), c)
  BY <1>1, <1>2, <1>4, PrefixType DEF Plan, Batches, Backlog
<1>. QED  BY <1>3, <1>4 DEF Readable, Selections

\* _head keeps a verified directory verified when it writes a chain state.
LEMMA HeadKeepsChain ==
  ASSUME NEW image \in Images, Accepts(image.batches, image.head),
         NEW checkpoint \in Checkpoints, checkpoint = Tip(image.batches)
  PROVE  /\ SetHead(image, checkpoint) \in Images
         /\ SetHead(image, checkpoint).batches = image.batches
         /\ SetHead(image, checkpoint).head = checkpoint
         /\ Accepts(SetHead(image, checkpoint).batches, SetHead(image, checkpoint).head)
<1>1. image.batches \in Seq(Batches) /\ Chained(image.batches)
  BY DEF Accepts, Chained, Images
<1>. QED  BY <1>1, TipType DEF SetHead, Images, Accepts

\* The rename of a stage that continues the chain keeps it verified.
LEMMA RenameKeepsChain ==
  ASSUME NEW image \in Images, Accepts(image.batches, image.head),
         image.head # NoHead,
         NEW batch \in Batches, batch.previous = Tip(image.batches)
  PROVE  /\ AddBatch(image, batch) \in Images
         /\ AddBatch(image, batch).head = image.head
         /\ Tip(AddBatch(image, batch).batches) = batch.next
         /\ Accepts(AddBatch(image, batch).batches, image.head)
<1>. DEFINE old == image.batches
            new == Append(old, batch)
<1>1. /\ old \in Seq(Batches) /\ new \in Seq(Batches)
      /\ Len(new) = Len(old) + 1
      /\ DOMAIN new = 1..(Len(old) + 1) /\ DOMAIN old = 1..Len(old)
      /\ \A k \in 1..Len(old) : new[k] = old[k]
      /\ new[Len(old) + 1] = batch
  BY DEF Images
<1>2. AddBatch(image, batch) \in Images /\ AddBatch(image, batch).batches = new
      /\ AddBatch(image, batch).head = image.head
  BY <1>1 DEF AddBatch, Images
<1>3. Tip(new) = batch.next
  BY <1>1 DEF Tip
<1>4. Chained(new)
  <2>1. Chained(old)
    BY DEF Accepts
  <2>. SUFFICES ASSUME NEW k \in DOMAIN new
                PROVE  new[k].previous = IF k = 1 THEN Empty ELSE new[k - 1].next
    BY DEF Chained
  <2>2. CASE k \in 1..Len(old)
    BY <1>1, <2>1, <2>2 DEF Chained
  <2>3. CASE k = Len(old) + 1 /\ old = <<>>
    BY <1>1, <2>3 DEF Tip
  <2>4. CASE k = Len(old) + 1 /\ old # <<>>
    <3>1. Len(old) \in Nat /\ Len(old) # 0
      BY <1>1, <2>4
    <3>. QED  BY <1>1, <2>4, <3>1 DEF Tip
  <2>. QED  BY <1>1, <2>2, <2>3, <2>4
<1>5. image.head \in ChainStates(new)
  BY <1>1 DEF Accepts, ChainStates
<1>. QED  BY <1>2, <1>3, <1>4, <1>5 DEF Accepts

-------------------------------------------------------------------------------
(***************************************************************************)
(* One lemma for each kind of step.                                        *)
(***************************************************************************)

\* A publisher that leaves frees only its own lock: the others keep theirs.
LEMMA LeaveKeeps ==
  ASSUME SpoolInv, NEW p \in Publishers, NEW step \in {"idle", "alarmed"},
         Leave(p, step),
         root' \in images', images' \in SUBSET Images, CheckpointsHold', root' = root,
         ledger' \in Seq(Events), faults' \in Nat, restored' \in BOOLEAN
  PROVE  SpoolInv'
<1>1. TypeOK'
  <2>1. NoPlan \in Batches /\ Fresh \in Images
    BY DEF NoPlan, Batches, Checkpoints, Empty, Fresh, Images
  <2>2. pc' \in [Publishers -> Steps]
    BY DEF SpoolInv, TypeOK, Leave, Goto, Steps
  <2>3. seen' \in [Publishers -> Images] /\ plan' \in [Publishers -> Batches]
    BY <2>1 DEF SpoolInv, TypeOK, Leave
  <2>4. lock' \in Publishers \cup {Nobody} /\ root' \in Images
    BY DEF SpoolInv, TypeOK, Leave
  <2>. QED  BY <2>2, <2>3, <2>4 DEF TypeOK
<1>2. LockProtects'
  BY PublishersAssumption DEF SpoolInv, TypeOK, LockProtects, Leave, Goto, Critical
<1>3. PlanContinues'
  <2>1. \A q \in Publishers : q # p => pc'[q] = pc[q] /\ plan'[q] = plan[q]
    BY DEF SpoolInv, TypeOK, Leave, Goto
  <2>2. pc'[p] \in {"idle", "alarmed"}
    BY DEF SpoolInv, TypeOK, Leave, Goto
  <2>. QED  BY <2>1, <2>2 DEF SpoolInv, PlanContinues
<1>. QED  BY <1>1, <1>2, <1>3 DEF SpoolInv

\* Steps before the lock, and the environment, do not touch the spool.
LEMMA ListKeeps ==
  ASSUME SpoolInv, NEW p \in Publishers, List(p) \/ Check(p)
  PROVE  SpoolInv'
<1>1. TypeOK'
  <2>1. Fresh \in Images
    BY DEF Fresh, Images
  <2>. QED  BY <2>1 DEF SpoolInv, TypeOK, List, Check, Goto, Steps, Elsewhere, Spool
<1>2. LockProtects'
  BY DEF SpoolInv, TypeOK, LockProtects, List, Check, Goto, Critical
<1>3. PlanContinues'
  BY DEF SpoolInv, TypeOK, PlanContinues, List, Check, Goto, Spool
<1>4. CheckpointsHold' /\ root' \in images'
  BY DEF SpoolInv, CheckpointsHold, List, Check, Spool
<1>. QED  BY <1>1, <1>2, <1>3, <1>4 DEF SpoolInv

\* The lock is taken only when it is free, so nobody else is past it.
LEMMA TakeLockKeeps ==
  ASSUME SpoolInv, NEW p \in Publishers, TakeLock(p)
  PROVE  SpoolInv'
<1>1. CASE lock = Nobody
  <2>0. /\ lock' = p /\ pc' = [pc EXCEPT ![p] = "locked"]
        /\ UNCHANGED <<seen, plan, root, images, ledger, faults, restored>>
    BY <1>1 DEF TakeLock, Goto, Spool, Elsewhere
  <2>1. TypeOK'
    BY <2>0 DEF SpoolInv, TypeOK, Steps, Critical
  <2>2. LockProtects'
    BY <1>1, <2>0, PublishersAssumption DEF SpoolInv, TypeOK, LockProtects, Critical
  <2>3. PlanContinues'
    BY <2>0 DEF SpoolInv, TypeOK, PlanContinues
  <2>4. CheckpointsHold' /\ root' \in images'
    BY <2>0 DEF SpoolInv, CheckpointsHold
  <2>. QED  BY <2>1, <2>2, <2>3, <2>4 DEF SpoolInv
<1>2. CASE lock # Nobody
  <2>1. Leave(p, "idle") /\ UNCHANGED <<root, images, ledger, faults, restored>>
    BY <1>2 DEF TakeLock, Spool, Elsewhere
  <2>. QED  BY <2>1, LeaveKeeps DEF SpoolInv, TypeOK, CheckpointsHold
<1>. QED  BY <1>1, <1>2

\* The locked validation plans a batch that continues the chain it has read.
LEMMA InspectKeeps ==
  ASSUME SpoolInv, NEW p \in Publishers, Inspect(p)
  PROVE  SpoolInv'
<1>0. /\ pc[p] = "locked" /\ UNCHANGED <<root, images, ledger, faults, restored>>
      /\ root.batches \in Seq(Batches)
  BY DEF Inspect, Spool, Elsewhere, SpoolInv, TypeOK, Images
<1>1. PICK read \in Readable(root.batches) :
        \/ /\ root.head # read.previous
           /\ plan' = [plan EXCEPT ![p] = read] /\ pc' = [pc EXCEPT ![p] = "repair"]
           /\ UNCHANGED <<lock, seen>>
        \/ /\ root.head = read.previous
           /\ plan' = [plan EXCEPT ![p] = read] /\ pc' = [pc EXCEPT ![p] = "rename"]
           /\ UNCHANGED <<lock, seen>>
        \/ Leave(p, "idle")
  BY DEF Inspect, Goto
<1>2. read \in Batches /\ read.previous = Tip(root.batches)
  BY <1>0, ReadableType DEF SpoolInv
<1>3. read.previous # NoHead
  BY <1>0, <1>2, TipType
<1>4. CASE Leave(p, "idle")
  BY <1>0, <1>4, LeaveKeeps DEF SpoolInv, TypeOK, CheckpointsHold
<1>5. ASSUME NEW step \in {"repair", "rename"}, step = "rename" => root.head = read.previous,
             plan' = [plan EXCEPT ![p] = read], pc' = [pc EXCEPT ![p] = step],
             UNCHANGED <<lock, seen>>
      PROVE  SpoolInv'
  <2>1. TypeOK'
    BY <1>0, <1>2, <1>5 DEF SpoolInv, TypeOK, Steps, Critical
  <2>2. LockProtects'
    BY <1>0, <1>5 DEF SpoolInv, TypeOK, LockProtects, Critical
  <2>3. PlanContinues'
    <3>1. \A q \in Publishers : q # p => pc'[q] = pc[q] /\ plan'[q] = plan[q]
      BY <1>5 DEF SpoolInv, TypeOK
    <3>2. pc'[p] = step /\ plan'[p] = read
      BY <1>5 DEF SpoolInv, TypeOK
    <3>. QED  BY <1>0, <1>2, <1>3, <1>5, <3>1, <3>2 DEF SpoolInv, PlanContinues
  <2>4. CheckpointsHold' /\ root' \in images'
    BY <1>0 DEF SpoolInv, CheckpointsHold
  <2>. QED  BY <2>1, <2>2, <2>3, <2>4 DEF SpoolInv
<1>. QED  BY <1>1, <1>4, <1>5

\* HEAD is written with the checkpoint of the last batch.
LEMMA HeadStepKeeps ==
  ASSUME ~Reorders, SpoolInv, NEW p \in Publishers,
         Repair(p) \/ Commit(p)
  PROVE  SpoolInv'
<1>. DEFINE checkpoint == IF pc[p] = "repair" THEN plan[p].previous ELSE plan[p].next
            image == SetHead(root, checkpoint)
            step == IF pc[p] = "repair" THEN "repaired" ELSE "committed"
<1>1. /\ pc[p] \in {"repair", "commit"} /\ pc' = [pc EXCEPT ![p] = step]
      /\ root' = image /\ images' = images \cup {image}
      /\ UNCHANGED <<lock, seen, plan, ledger, faults, restored>>
  BY DEF Repair, Commit, ReplaceHead, Goto, Elsewhere
<1>2. /\ root \in Images /\ Accepts(root.batches, root.head) /\ lock = p
      /\ plan[p] \in Batches
  BY <1>1 DEF SpoolInv, TypeOK, CheckpointsHold, LockProtects, Critical
<1>3. checkpoint = Tip(root.batches) /\ checkpoint \in Checkpoints
  BY <1>1, <1>2 DEF SpoolInv, PlanContinues, Batches
<1>4. /\ image \in Images /\ image.batches = root.batches /\ image.head = checkpoint
      /\ Accepts(image.batches, image.head)
  BY <1>2, <1>3, HeadKeepsChain
<1>5. checkpoint # NoHead
  BY <1>3 DEF NoHead, Checkpoints
<1>. HIDE DEF checkpoint, image
<1>6. TypeOK'
  BY <1>1, <1>4 DEF SpoolInv, TypeOK, Steps, Critical
<1>7. LockProtects'
  BY <1>1, <1>2 DEF SpoolInv, TypeOK, LockProtects
<1>8. PlanContinues'
  <2>1. \A q \in Publishers : q # p => pc[q] \notin Critical /\ pc'[q] = pc[q]
    BY <1>1, <1>2 DEF SpoolInv, TypeOK, LockProtects
  <2>2. pc'[p] = step /\ plan' = plan
    BY <1>1 DEF SpoolInv, TypeOK
  <2>3. root'.batches = root.batches /\ root'.head # NoHead
    BY <1>1, <1>4, <1>5
  <2>. QED  BY <1>1, <2>1, <2>2, <2>3 DEF SpoolInv, PlanContinues, Critical
<1>9. CheckpointsHold' /\ root' \in images'
  BY <1>1, <1>4 DEF SpoolInv, CheckpointsHold
<1>. QED  BY <1>6, <1>7, <1>8, <1>9 DEF SpoolInv

\* A stage becomes a batch only behind the last batch, with a HEAD in place.
LEMMA RenameStepKeeps ==
  ASSUME ~Reorders, SpoolInv, NEW p \in Publishers, Rename(p)
  PROVE  SpoolInv'
<1>. DEFINE image == AddBatch(root, plan[p])
<1>1. /\ pc[p] = "rename" /\ pc' = [pc EXCEPT ![p] = "renamed"]
      /\ root' = image /\ images' = images \cup {image}
      /\ UNCHANGED <<lock, seen, plan, ledger, faults, restored>>
  BY DEF Rename, RenameStage, Goto, Elsewhere
<1>2. /\ root \in Images /\ Accepts(root.batches, root.head) /\ lock = p
      /\ plan[p] \in Batches
  BY <1>1 DEF SpoolInv, TypeOK, CheckpointsHold, LockProtects, Critical
<1>3. plan[p].previous = Tip(root.batches) /\ root.head # NoHead
  BY <1>1 DEF SpoolInv, PlanContinues
<1>4. /\ image \in Images /\ image.head = root.head
      /\ Tip(image.batches) = plan[p].next
      /\ Accepts(image.batches, image.head)
  BY <1>2, <1>3, RenameKeepsChain
<1>. HIDE DEF image
<1>6. TypeOK'
  BY <1>1, <1>4 DEF SpoolInv, TypeOK, Steps, Critical
<1>7. LockProtects'
  BY <1>1, <1>2 DEF SpoolInv, TypeOK, LockProtects
<1>8. PlanContinues'
  <2>1. \A q \in Publishers : q # p => pc[q] \notin Critical /\ pc'[q] = pc[q]
    BY <1>1, <1>2 DEF SpoolInv, TypeOK, LockProtects
  <2>2. pc'[p] = "renamed" /\ plan' = plan
    BY <1>1 DEF SpoolInv, TypeOK
  <2>3. Tip(root'.batches) = plan[p].next /\ root'.head # NoHead
    BY <1>1, <1>3, <1>4
  <2>. QED  BY <1>1, <2>1, <2>2, <2>3 DEF PlanContinues, Critical
<1>9. CheckpointsHold' /\ root' \in images'
  BY <1>1, <1>4 DEF SpoolInv, CheckpointsHold
<1>. QED  BY <1>6, <1>7, <1>8, <1>9 DEF SpoolInv

\* After a sync only the directory as it is seen can be found again.
LEMMA SyncKeeps ==
  ASSUME SpoolInv, NEW p \in Publishers,
         SyncRepair(p) \/ SyncRename(p) \/ SyncCommit(p)
  PROVE  SpoolInv'
<1>1. /\ root' = root /\ images' = {root} /\ UNCHANGED <<ledger, faults, restored>>
      /\ pc[p] \in {"repaired", "renamed", "committed"}
  BY DEF SyncRepair, SyncRename, SyncCommit, SyncRoot, Elsewhere
<1>2. CheckpointsHold' /\ root' \in images' /\ images' \in SUBSET Images
  BY <1>1 DEF SpoolInv, TypeOK, CheckpointsHold
<1>3. CASE Leave(p, "idle")
  BY <1>1, <1>2, <1>3, LeaveKeeps DEF SpoolInv, TypeOK
<1>4. ASSUME NEW step \in {"rename", "commit"},
             step = "rename" => pc[p] = "repaired",
             step = "commit" => pc[p] = "renamed",
             pc' = [pc EXCEPT ![p] = step], UNCHANGED <<lock, seen, plan>>
      PROVE  SpoolInv'
  <2>1. TypeOK'
    BY <1>1, <1>2, <1>4 DEF SpoolInv, TypeOK, Steps, Critical
  <2>2. LockProtects'
    BY <1>1, <1>4 DEF SpoolInv, TypeOK, LockProtects, Critical
  <2>3. PlanContinues'
    <3>1. \A q \in Publishers : q # p => pc'[q] = pc[q]
      BY <1>4 DEF SpoolInv, TypeOK
    <3>2. pc'[p] = step /\ plan' = plan
      BY <1>4 DEF SpoolInv, TypeOK
    <3>. QED  BY <1>1, <1>4, <3>1, <3>2 DEF SpoolInv, PlanContinues
  <2>. QED  BY <1>2, <2>1, <2>2, <2>3 DEF SpoolInv
<1>5. CASE Goto(p, "rename") /\ SyncRepair(p) /\ UNCHANGED <<lock, seen, plan>>
  BY <1>4, <1>5 DEF Goto, SyncRepair
<1>6. CASE SyncRename(p)
  BY <1>4, <1>6 DEF Goto, SyncRename
<1>. QED  BY <1>3, <1>5, <1>6 DEF SyncRepair, SyncCommit

\* A power loss leaves one of the directories the disk may hold, and no attempt.
LEMMA PowerLossKeeps ==
  ASSUME SpoolInv, PowerLoss
  PROVE  SpoolInv'
<1>1. PICK image \in images : root' = image /\ images' = {image}
  BY DEF PowerLoss
<1>2. NoPlan \in Batches /\ Fresh \in Images
  BY DEF NoPlan, Batches, Checkpoints, Empty, Fresh, Images
<1>3. TypeOK'
  BY <1>1, <1>2 DEF SpoolInv, TypeOK, PowerLoss, Steps
<1>4. CheckpointsHold' /\ root' \in images'
  BY <1>1 DEF SpoolInv, CheckpointsHold
<1>5. LockProtects' /\ PlanContinues'
  BY DEF PowerLoss, LockProtects, PlanContinues, Critical
<1>. QED  BY <1>3, <1>4, <1>5 DEF SpoolInv

\* The ledger may grow or be set back: the spool is not touched.
LEMMA LedgerKeeps ==
  ASSUME SpoolInv,
         (\E event \in Events : Store(event)) \/ (\E n \in 0..(Len(ledger) - 1) : Restore(n))
  PROVE  SpoolInv'
<1>1. UNCHANGED <<root, images, lock, pc, seen, plan, faults>>
  BY DEF Store, Restore, Spool, attempt
<1>2. ledger' \in Seq(Events)
  <2>1. CASE \E event \in Events : Store(event)
    BY <2>1 DEF SpoolInv, TypeOK, Store
  <2>2. CASE \E n \in 0..(Len(ledger) - 1) : Restore(n)
    <3>1. PICK n \in 0..(Len(ledger) - 1) : ledger' = SubSeq(ledger, 1, n)
      BY <2>2 DEF Restore
    <3>2. \A i \in 1..n : ledger[i] \in Events
      BY <3>1 DEF SpoolInv, TypeOK
    <3>. QED  BY <3>1, <3>2 DEF SpoolInv, TypeOK
  <2>. QED  BY <2>1, <2>2
<1>3. restored' \in BOOLEAN
  BY DEF SpoolInv, TypeOK, Store, Restore
<1>4. TypeOK'
  BY <1>1, <1>2, <1>3 DEF SpoolInv, TypeOK
<1>. QED  BY <1>1, <1>4 DEF SpoolInv, LockProtects, PlanContinues, CheckpointsHold

-------------------------------------------------------------------------------
LEMMA InitSpoolInv == Init => SpoolInv
<1>. SUFFICES ASSUME Init PROVE SpoolInv
  OBVIOUS
<1>1. NoPlan \in Batches /\ Fresh \in Images /\ <<>> \in Seq(Events)
  BY DEF NoPlan, Batches, Checkpoints, Empty, Fresh, Images
<1>2. root \in Images
  BY <1>1 DEF Init, Images
<1>3. TypeOK
  BY <1>1, <1>2 DEF Init, TypeOK, Steps
<1>4. LockProtects /\ PlanContinues
  BY DEF Init, LockProtects, PlanContinues, Critical
<1>5. CheckpointsHold /\ root \in images
  BY DEF Init, CheckpointsHold, Accepts, Fresh
<1>. QED  BY <1>3, <1>4, <1>5 DEF SpoolInv

\* Every step keeps the invariant when the directory keeps its order.
LEMMA StepSpoolInv == ~Reorders /\ SpoolInv /\ [Next]_vars => SpoolInv'
<1>. SUFFICES ASSUME ~Reorders, SpoolInv, [Next]_vars PROVE SpoolInv'
  OBVIOUS
<1>1. CASE UNCHANGED vars
  BY <1>1 DEF vars, SpoolInv, TypeOK, LockProtects, PlanContinues, CheckpointsHold
<1>2. ASSUME NEW p \in Publishers, Refuse(p) PROVE SpoolInv'
  <2>1. UNCHANGED <<root, images, ledger, faults, restored>>
        /\ \E step \in {"idle", "alarmed"} : Leave(p, step)
    BY <1>2 DEF Refuse, After, Spool, Elsewhere
  <2>. QED  BY <2>1, LeaveKeeps DEF SpoolInv, TypeOK, CheckpointsHold
<1>3. ASSUME NEW p \in Publishers, Die(p) PROVE SpoolInv'
  <2>1. /\ UNCHANGED <<root, images, ledger, restored>> /\ Leave(p, "idle")
        /\ faults' = faults + 1
    BY <1>3 DEF Die, Spool
  <2>. QED  BY <2>1, LeaveKeeps DEF SpoolInv, TypeOK, CheckpointsHold
<1>4. ASSUME NEW p \in Publishers, Publish(p) PROVE SpoolInv'
  BY <1>2, <1>4, ListKeeps, TakeLockKeeps, InspectKeeps, HeadStepKeeps, RenameStepKeeps,
     SyncKeeps DEF Publish
<1>. QED  BY <1>1, <1>3, <1>4, PowerLossKeeps, LedgerKeeps DEF Next

THEOREM SpoolInvariant == ~Reorders => (Spec => []SpoolInv)
<1>. SUFFICES ASSUME ~Reorders PROVE Spec => []SpoolInv
  OBVIOUS
<1>1. SpoolInv /\ [Next]_vars => SpoolInv'
  BY StepSpoolInv
<1>. QED  BY InitSpoolInv, <1>1, PTL DEF Spec

\* On a disk that keeps the order of directory operations every crash, of any
\* publisher at any step and of the machine, leaves a spool that the next export
\* accepts: HEAD speaks only of batches that are there.
THEOREM CrashesAreRecoverable == ~Reorders => (Spec => []CheckpointsHold)
<1>1. SpoolInv => CheckpointsHold
  BY DEF SpoolInv
<1>. QED  BY SpoolInvariant, <1>1, PTL

\* Whatever the publishers, the portal, faults and staff do, the ledger, the spool
\* and the attempts keep their shape.
THEOREM TypeCorrect == ~Reorders => (Spec => []TypeOK)
<1>1. SpoolInv => TypeOK
  BY DEF SpoolInv
<1>. QED  BY SpoolInvariant, <1>1, PTL

-------------------------------------------------------------------------------
(***************************************************************************)
(* What is published is exactly a prefix of the ledger.  While the         *)
(* database is not set back the ledger only grows, so that the rows up to  *)
(* a cursor never change, and a plan that was read stays exact until it is *)
(* a batch.                                                                *)
(***************************************************************************)

\* A batch that is about to be renamed holds the rows between its checkpoints.
PlansExact ==
  ~restored => \A p \in Publishers :
    pc[p] \in {"repair", "repaired", "rename"} =>
      /\ plan[p].next.cursor \in plan[p].previous.cursor..Len(ledger)
      /\ plan[p].rows = Prefix(plan[p].next.cursor) \ Prefix(plan[p].previous.cursor)
      /\ InSequence(Prefix(plan[p].next.cursor))

ExactInv == SpoolInv /\ ExactPrefix /\ PlansExact

\* The rows up to a cursor are among those up to a later one.
LEMMA PrefixGrows ==
  ASSUME TypeOK, NEW b \in Nat, NEW c \in Nat, b <= c
  PROVE  Prefix(b) \subseteq Prefix(c)
<1>1. \A k \in DOMAIN ledger : k \in Nat
  BY DEF TypeOK
<1>. QED  BY <1>1 DEF Prefix

\* The rows up to a cursor are not changed by an event that is stored behind it.
LEMMA PrefixStable ==
  ASSUME TypeOK, NEW event \in Events, ledger' = Append(ledger, event),
         NEW c \in 0..Len(ledger)
  PROVE  Prefix(c)' = Prefix(c) /\ c \in 0..Len(ledger')
<1>1. /\ Len(ledger) \in Nat /\ Len(ledger') = Len(ledger) + 1
      /\ DOMAIN ledger = 1..Len(ledger) /\ DOMAIN ledger' = 1..(Len(ledger) + 1)
      /\ \A i \in DOMAIN ledger : ledger'[i] = ledger[i]
  BY DEF TypeOK
<1>. DEFINE kept == {k \in DOMAIN ledger : k <= c /\ Ours(k)}
<1>2. {k \in DOMAIN ledger' : k <= c /\ Ours(k)'} = kept
  BY <1>1 DEF Ours
<1>3. Prefix(c)' = {<<i, ledger'[i]>> : i \in kept}
  BY <1>2 DEF Prefix
<1>4. {<<i, ledger'[i]>> : i \in kept} = {<<i, ledger[i]>> : i \in kept}
  BY <1>1
<1>. QED  BY <1>1, <1>3, <1>4 DEF Prefix

\* What _read returns holds the rows behind the last published one.
LEMMA ReadableExact ==
  ASSUME TypeOK, ExactPrefix, ~restored, root \in images,
         NEW read \in Readable(root.batches)
  PROVE  /\ read.next.cursor \in read.previous.cursor..Len(ledger)
         /\ read.rows = Prefix(read.next.cursor) \ Prefix(read.previous.cursor)
         /\ InSequence(Prefix(read.next.cursor))
<1>. DEFINE from == Tip(root.batches)
<1>1. /\ from.cursor \in 0..Len(ledger) /\ InSequence(Prefix(from.cursor))
      /\ Len(ledger) \in Nat /\ DOMAIN ledger = 1..Len(ledger)
  BY DEF ExactPrefix, TypeOK
<1>2. CASE read = Done(from)
  BY <1>1, <1>2 DEF Done
<1>3. CASE \E c \in Backlog(from.cursor) : InSequence(Prefix(c)) /\ read = Plan(from, c)
  BY <1>1, <1>3 DEF Plan, Source, Backlog
<1>. QED  BY <1>2, <1>3 DEF Readable, Selections

\* The spool and the ledger stay as they are, and no attempt has a new plan.
LEMMA ExactUnlessTouched ==
  ASSUME ExactInv, UNCHANGED <<ledger, restored>>,
         \A image \in images' : \E known \in images : image.batches = known.batches,
         \A p \in Publishers :
           pc'[p] \in {"repair", "repaired", "rename"} =>
             pc[p] \in {"repair", "repaired", "rename"} /\ plan'[p] = plan[p]
  PROVE  ExactPrefix' /\ PlansExact'
<1>1. \A c : Prefix(c)' = Prefix(c)
  BY DEF Prefix, Ours
<1>2. ExactPrefix'
  <2>. SUFFICES ASSUME ~restored, NEW image \in images'
                PROVE  /\ Published(image.batches) = Prefix(Tip(image.batches).cursor)
                       /\ Tip(image.batches).cursor \in 0..Len(ledger)
                       /\ InSequence(Published(image.batches))
    BY <1>1 DEF ExactPrefix
  <2>1. PICK known \in images : image.batches = known.batches
    OBVIOUS
  <2>. QED  BY <2>1 DEF ExactInv, ExactPrefix
<1>3. PlansExact'
  BY <1>1 DEF ExactInv, PlansExact
<1>. QED  BY <1>2, <1>3

\* A publisher that leaves, or goes to a step without a plan, has none to keep.
LEMMA ExactWithoutPlan ==
  ASSUME ExactInv, UNCHANGED <<ledger, restored, root>>, images' \in {images, {root}},
         NEW p \in Publishers, NEW step \in Steps \ {"repair", "repaired", "rename"},
         Leave(p, step) \/ (Goto(p, step) /\ UNCHANGED plan)
  PROVE  ExactPrefix' /\ PlansExact'
<1>1. \A image \in images' : image \in images
  BY DEF ExactInv, SpoolInv
<1>2. pc' = [pc EXCEPT ![p] = step] /\ (plan' = plan \/ plan' = [plan EXCEPT ![p] = NoPlan])
  BY DEF Leave, Goto
<1>3. \A q \in Publishers :
        /\ pc'[q] = IF q = p THEN step ELSE pc[q]
        /\ q # p => plan'[q] = plan[q]
  BY <1>2 DEF ExactInv, SpoolInv, TypeOK
<1>. QED  BY <1>1, <1>3, ExactUnlessTouched

\* The locked validation reads an exact plan.
LEMMA InspectExact ==
  ASSUME ExactInv, NEW p \in Publishers, Inspect(p)
  PROVE  ExactPrefix' /\ PlansExact'
<1>1. UNCHANGED <<ledger, restored, root, images>>
  BY DEF Inspect, Spool, Elsewhere
<1>2. CASE Leave(p, "idle")
  BY <1>1, <1>2, ExactWithoutPlan DEF Steps
<1>3. ASSUME NEW read \in Readable(root.batches), NEW step \in {"repair", "rename"},
             plan' = [plan EXCEPT ![p] = read], pc' = [pc EXCEPT ![p] = step]
      PROVE  ExactPrefix' /\ PlansExact'
  <2>1. \A c : Prefix(c)' = Prefix(c)
    BY <1>1 DEF Prefix, Ours
  <2>2. ExactPrefix'
    BY <1>1, <2>1 DEF ExactInv, ExactPrefix
  <2>3. \A q \in Publishers :
          /\ pc'[q] = IF q = p THEN step ELSE pc[q]
          /\ plan'[q] = IF q = p THEN read ELSE plan[q]
    BY <1>3 DEF ExactInv, SpoolInv, TypeOK
  <2>4. ~restored => /\ read.next.cursor \in read.previous.cursor..Len(ledger)
                     /\ read.rows = Prefix(read.next.cursor) \ Prefix(read.previous.cursor)
                     /\ InSequence(Prefix(read.next.cursor))
    BY ReadableExact DEF ExactInv, SpoolInv
  <2>5. PlansExact'
    BY <1>1, <2>1, <2>3, <2>4 DEF ExactInv, PlansExact
  <2>. QED  BY <2>2, <2>5
<1>. QED  BY <1>2, <1>3 DEF Inspect, Goto

\* HEAD says nothing of the batches.
LEMMA HeadStepExact ==
  ASSUME ~Reorders, ExactInv, NEW p \in Publishers, Repair(p) \/ Commit(p)
  PROVE  ExactPrefix' /\ PlansExact'
<1>1. PICK checkpoint : images' = images \cup {SetHead(root, checkpoint)}
  BY DEF Repair, Commit, ReplaceHead
<1>2. SetHead(root, checkpoint).batches = root.batches
  BY DEF SetHead, ExactInv, SpoolInv, TypeOK, Images
<1>3. \A image \in images' : \E known \in images : image.batches = known.batches
  BY <1>1, <1>2 DEF ExactInv, SpoolInv
<1>4. \A q \in Publishers :
        pc'[q] \in {"repair", "repaired", "rename"} =>
          pc[q] \in {"repair", "repaired", "rename"} /\ plan'[q] = plan[q]
  BY DEF Repair, Commit, Goto, ExactInv, SpoolInv, TypeOK
<1>5. UNCHANGED <<ledger, restored>>
  BY DEF Repair, Commit, Elsewhere
<1>. QED  BY <1>3, <1>4, <1>5, ExactUnlessTouched

\* The rename adds the rows between the last published one and the plan's last.
LEMMA RenameExact ==
  ASSUME ~Reorders, ExactInv, NEW p \in Publishers, Rename(p)
  PROVE  ExactPrefix' /\ PlansExact'
<1>. DEFINE image == AddBatch(root, plan[p])
            old == root.batches
            from == Tip(old).cursor
            to == plan[p].next.cursor
<1>1. /\ pc[p] = "rename" /\ pc' = [pc EXCEPT ![p] = "renamed"]
      /\ images' = images \cup {image}
      /\ UNCHANGED <<plan, ledger, restored>>
  BY DEF Rename, RenameStage, Goto, Elsewhere
<1>2. \A c : Prefix(c)' = Prefix(c)
  BY <1>1 DEF Prefix, Ours
<1>3. old \in Seq(Batches) /\ plan[p] \in Batches /\ root \in images /\ TypeOK
  BY DEF ExactInv, SpoolInv, TypeOK, Images
<1>4. plan[p].previous = Tip(old) /\ root.head # NoHead
  BY <1>1 DEF ExactInv, SpoolInv, PlanContinues
<1>5. image.batches = Append(old, plan[p]) /\ Tip(image.batches) = plan[p].next
  <2>1. image.batches = Append(old, plan[p]) /\ root \in Images
    BY <1>3 DEF AddBatch, TypeOK, Images
  <2>2. Accepts(root.batches, root.head)
    BY <1>3 DEF ExactInv, SpoolInv, CheckpointsHold
  <2>. QED  BY <1>3, <1>4, <2>1, <2>2, RenameKeepsChain
<1>6. ASSUME ~restored
      PROVE  /\ Published(image.batches) = Prefix(to)
             /\ to \in 0..Len(ledger)
             /\ InSequence(Prefix(to))
  <2>1. /\ to \in from..Len(ledger) /\ plan[p].rows = Prefix(to) \ Prefix(from)
        /\ InSequence(Prefix(to))
    BY <1>1, <1>4, <1>6 DEF ExactInv, PlansExact
  <2>2. Published(old) = Prefix(from) /\ from \in 0..Len(ledger)
    BY <1>3, <1>6 DEF ExactInv, ExactPrefix
  <2>3. to \in Nat /\ from \in Nat /\ from <= to /\ to \in 0..Len(ledger)
    BY <2>1, <2>2
  <2>4. Prefix(from) \subseteq Prefix(to)
    BY <1>3, <2>3, PrefixGrows
  <2>5. Published(Append(old, plan[p])) = Published(old) \cup plan[p].rows
    <3>1. /\ DOMAIN Append(old, plan[p]) = DOMAIN old \cup {Len(old) + 1}
          /\ \A k \in DOMAIN old : Append(old, plan[p])[k] = old[k]
          /\ Append(old, plan[p])[Len(old) + 1] = plan[p]
      BY <1>3
    <3>. QED  BY <3>1 DEF Published
  <2>. QED  BY <1>5, <2>1, <2>2, <2>3, <2>4, <2>5
<1>7. ExactPrefix'
  <2>. SUFFICES ASSUME ~restored, NEW found \in images'
                PROVE  /\ Published(found.batches) = Prefix(Tip(found.batches).cursor)
                       /\ Tip(found.batches).cursor \in 0..Len(ledger)
                       /\ InSequence(Published(found.batches))
    BY <1>1, <1>2 DEF ExactPrefix
  <2>1. CASE found = image
    BY <1>5, <1>6, <2>1
  <2>2. CASE found \in images
    BY <2>2 DEF ExactInv, ExactPrefix
  <2>. QED  BY <1>1, <2>1, <2>2
<1>8. \A q \in Publishers : pc'[q] = IF q = p THEN "renamed" ELSE pc[q]
  BY <1>1 DEF ExactInv, SpoolInv, TypeOK
<1>9. PlansExact'
  BY <1>1, <1>2, <1>8 DEF ExactInv, PlansExact
<1>. QED  BY <1>7, <1>9

\* A sync forgets images and makes no plan; the repaired publisher keeps its own.
LEMMA SyncExact ==
  ASSUME ExactInv, NEW p \in Publishers,
         SyncRepair(p) \/ SyncRename(p) \/ SyncCommit(p)
  PROVE  ExactPrefix' /\ PlansExact'
<1>1. UNCHANGED <<ledger, restored, root>> /\ images' = {root}
  BY DEF SyncRepair, SyncRename, SyncCommit, SyncRoot, Elsewhere
<1>2. CASE Leave(p, "idle")
  BY <1>1, <1>2, ExactWithoutPlan DEF Steps
<1>3. CASE SyncRename(p)
  BY <1>1, <1>3, ExactWithoutPlan DEF SyncRename, Steps, Critical
<1>4. CASE SyncRepair(p) /\ Goto(p, "rename") /\ UNCHANGED plan
  <2>1. \A q \in Publishers : pc'[q] = IF q = p THEN "rename" ELSE pc[q]
    BY <1>4 DEF Goto, ExactInv, SpoolInv, TypeOK
  <2>2. pc[p] = "repaired" /\ plan' = plan
    BY <1>4 DEF SyncRepair
  <2>3. \A image \in images' : image \in images
    BY <1>1 DEF ExactInv, SpoolInv
  <2>. QED  BY <1>1, <2>1, <2>2, <2>3, ExactUnlessTouched
<1>. QED  BY <1>2, <1>3, <1>4 DEF SyncRepair, SyncCommit

\* After a power loss there is no plan, and the directory is one that was possible.
LEMMA PowerLossExact ==
  ASSUME ExactInv, PowerLoss
  PROVE  ExactPrefix' /\ PlansExact'
<1>1. PICK image \in images : images' = {image}
  BY DEF PowerLoss
<1>2. \A p \in Publishers : pc'[p] = "idle"
  BY DEF PowerLoss
<1>. QED  BY <1>1, <1>2, ExactUnlessTouched DEF PowerLoss

\* The portal appends: no published or planned row changes.
LEMMA StoreExact ==
  ASSUME ExactInv, NEW event \in Events, Store(event)
  PROVE  ExactPrefix' /\ PlansExact'
<1>1. ledger' = Append(ledger, event) /\ UNCHANGED <<root, images, pc, plan, restored>>
  BY DEF Store, Spool, attempt
<1>2. TypeOK
  BY DEF ExactInv, SpoolInv
<1>3. ExactPrefix'
  <2>. SUFFICES ASSUME ~restored, NEW image \in images
                PROVE  /\ Published(image.batches) = Prefix(Tip(image.batches).cursor)'
                       /\ Tip(image.batches).cursor \in 0..Len(ledger')
                       /\ InSequence(Published(image.batches))
    BY <1>1 DEF ExactPrefix
  <2>1. /\ Published(image.batches) = Prefix(Tip(image.batches).cursor)
        /\ Tip(image.batches).cursor \in 0..Len(ledger)
        /\ InSequence(Published(image.batches))
    BY DEF ExactInv, ExactPrefix
  <2>2. \A c \in 0..Len(ledger) : Prefix(c)' = Prefix(c) /\ c \in 0..Len(ledger')
    BY <1>1, <1>2, PrefixStable
  <2>. QED  BY <2>1, <2>2
<1>4. PlansExact'
  <2>. SUFFICES ASSUME ~restored, NEW p \in Publishers,
                       pc[p] \in {"repair", "repaired", "rename"}
                PROVE  LET from == plan[p].previous.cursor
                           to   == plan[p].next.cursor
                       IN /\ to \in from..Len(ledger')
                          /\ plan[p].rows = Prefix(to)' \ Prefix(from)'
                          /\ InSequence(Prefix(to)')
    BY <1>1 DEF PlansExact
  <2>. DEFINE from == plan[p].previous.cursor
              to   == plan[p].next.cursor
  <2>1. /\ to \in from..Len(ledger) /\ plan[p].rows = Prefix(to) \ Prefix(from)
        /\ InSequence(Prefix(to))
    BY DEF ExactInv, PlansExact
  <2>2. from \in Nat /\ to \in Nat /\ Len(ledger) \in Nat
    BY <1>2 DEF TypeOK, Batches, Checkpoints
  <2>3. \A c \in 0..Len(ledger) : Prefix(c)' = Prefix(c) /\ c \in 0..Len(ledger')
    BY <1>1, <1>2, PrefixStable
  <2>4. from \in 0..Len(ledger) /\ to \in 0..Len(ledger)
    BY <2>1, <2>2
  <2>5. to \in from..Len(ledger')
    BY <2>1, <2>2, <2>3, <2>4
  <2>6. Prefix(to)' = Prefix(to) /\ Prefix(from)' = Prefix(from)
    BY <1>1, <2>3, <2>4
  <2>. QED  BY <1>1, <2>1, <2>5, <2>6
<1>. QED  BY <1>3, <1>4

LEMMA InitExactInv == Init => ExactInv
<1>. SUFFICES ASSUME Init PROVE ExactInv
  OBVIOUS
<1>1. PlansExact
  BY DEF Init, PlansExact
<1>2. ledger = <<>> /\ images = {Fresh}
  BY DEF Init
<1>3. Published(<<>>) = {} /\ Tip(<<>>) = Empty /\ Prefix(0) = {}
  BY <1>2 DEF Published, Tip, Prefix
<1>4. InSequence({}) /\ Len(ledger) = 0 /\ Empty.cursor = 0
  BY <1>2 DEF InSequence, Empty
<1>5. ExactPrefix
  <2>1. Fresh.batches = <<>> /\ Tip(<<>>).cursor = 0 /\ Published(<<>>) = {}
    BY <1>3, <1>4 DEF Fresh
  <2>2. /\ Published(<<>>) = Prefix(Tip(<<>>).cursor)
        /\ Tip(<<>>).cursor \in 0..Len(ledger)
        /\ InSequence(Published(<<>>))
    <3>1. Prefix(Tip(<<>>).cursor) = Prefix(0)
      BY <2>1
    <3>2. Tip(<<>>).cursor \in 0..Len(ledger)
      BY <1>4, <2>1
    <3>. QED  BY <1>3, <1>4, <2>1, <3>1, <3>2
  <2>3. \A image \in images : image.batches = <<>>
    BY <1>2, <2>1
  <2>. QED  BY <2>2, <2>3 DEF ExactPrefix
<1>. QED  BY <1>1, <1>5, InitSpoolInv DEF ExactInv

LEMMA StepExactInv == ~Reorders /\ ExactInv /\ [Next]_vars => ExactInv'
<1>. SUFFICES ASSUME ~Reorders, ExactInv, [Next]_vars PROVE ExactInv'
  OBVIOUS
<1>1. SpoolInv'
  BY StepSpoolInv DEF ExactInv
<1>2. CASE UNCHANGED vars
  <2>1. UNCHANGED <<ledger, restored, images, pc, plan>>
    BY <1>2 DEF vars
  <2>. QED  BY <1>1, <2>1, ExactUnlessTouched DEF ExactInv
<1>3. ASSUME NEW p \in Publishers, List(p) \/ Check(p) \/ TakeLock(p)
      PROVE  ExactPrefix' /\ PlansExact'
  <2>1. UNCHANGED <<ledger, restored, root, images>>
    BY <1>3 DEF List, Check, TakeLock, Spool, Elsewhere
  <2>2. \E step \in {"listed", "checked", "locked", "idle"} :
          Leave(p, step) \/ (Goto(p, step) /\ UNCHANGED plan)
    BY <1>3 DEF List, Check, TakeLock
  <2>. QED  BY <2>1, <2>2, ExactWithoutPlan DEF Steps, Critical
<1>4. ASSUME NEW p \in Publishers, Refuse(p) \/ Die(p) PROVE ExactPrefix' /\ PlansExact'
  <2>1. UNCHANGED <<ledger, restored, root, images>>
    BY <1>4 DEF Refuse, Die, Spool, Elsewhere
  <2>2. \E step \in {"alarmed", "idle"} : Leave(p, step)
    BY <1>4 DEF Refuse, Die, After
  <2>. QED  BY <2>1, <2>2, ExactWithoutPlan DEF Steps
<1>5. ASSUME NEW n, Restore(n) PROVE ExactPrefix' /\ PlansExact'
  BY <1>5 DEF Restore, ExactPrefix, PlansExact
<1>6. ASSUME Next PROVE ExactPrefix' /\ PlansExact'
  <2>1. ASSUME NEW p \in Publishers, Publish(p) PROVE ExactPrefix' /\ PlansExact'
    BY <1>3, <1>4, <2>1, InspectExact, HeadStepExact, RenameExact, SyncExact DEF Publish
  <2>2. CASE \E p \in Publishers : Publish(p) \/ Die(p)
    BY <1>4, <2>1, <2>2
  <2>3. CASE PowerLoss
    BY <2>3, PowerLossExact
  <2>4. CASE \E event \in Events : Store(event)
    BY <2>4, StoreExact
  <2>5. CASE \E n \in 0..(Len(ledger) - 1) : Restore(n)
    BY <1>5, <2>5
  <2>. QED  BY <1>6, <2>2, <2>3, <2>4, <2>5 DEF Next
<1>. QED  BY <1>1, <1>2, <1>6 DEF ExactInv

\* What export() published, or a power loss may find published, is exactly the
\* ledger's prefix, with no event beyond a lost sequence number, for any number of
\* publishers, kills and power losses, as long as the database was not set back.
THEOREM PublicationIsExact == ~Reorders => (Spec => []ExactPrefix)
<1>. SUFFICES ASSUME ~Reorders PROVE Spec => []ExactPrefix
  OBVIOUS
<1>1. ExactInv /\ [Next]_vars => ExactInv'
  BY StepExactInv
<1>2. ExactInv => ExactPrefix
  BY DEF ExactInv
<1>. QED  BY InitExactInv, <1>1, <1>2, PTL DEF Spec

-------------------------------------------------------------------------------
(***************************************************************************)
(* Each event is published once, on a source that still holds what is      *)
(* published, even when the database is set back and grows again.  The     *)
(* checkpoints of the batches carry the prefixes that were exported, so    *)
(* that what was published can be told without the ledger: the prefixes    *)
(* are nested and no event is twice in one.                                *)
(***************************************************************************)

Planned == {"repair", "repaired", "rename"}

\* The table is unique in (exercise, run, sequence), and sequences grow.
LedgerOrder ==
  \A i, j \in DOMAIN ledger :
    i < j /\ ledger[i].run = ledger[j].run => ledger[i].sequence < ledger[j].sequence

Distinct(entries) == \A x, y \in entries : x[2] = y[2] => x = y

\* A batch adds rows to the prefix it starts from.
Extends(batch) ==
  /\ batch.rows \subseteq batch.next.prefix
  /\ batch.rows \cap batch.previous.prefix = {}
  /\ batch.previous.prefix \subseteq batch.next.prefix
  /\ Distinct(batch.next.prefix)

Nested(batches) ==
  /\ \A k \in DOMAIN batches :
       /\ batches[k].rows \subseteq batches[k].next.prefix
       /\ batches[k].rows \cap batches[k].previous.prefix = {}
       /\ batches[k].next.prefix \subseteq Tip(batches).prefix
  /\ \A j, k \in DOMAIN batches : j < k => batches[j].next.prefix \subseteq batches[k].previous.prefix
  /\ Distinct(Tip(batches).prefix)

\* No directory that may be found is ahead of the one processes see.
ImagesNested ==
  \A image \in images : Nested(image.batches) /\ Len(image.batches) <= Len(root.batches)

\* While a plan waits for its rename the source holds what is published.
PlansMatch ==
  \A p \in Publishers : pc[p] \in Planned => Extends(plan[p]) /\ MatchesSource(root.batches)

OnceInv == SpoolInv /\ LedgerOrder /\ ImagesNested /\ PlansMatch

\* A ledger whose sequences grow has no event in two rows.
LEMMA RowsDistinct ==
  ASSUME TypeOK, LedgerOrder
  PROVE  /\ \A i, j \in DOMAIN ledger : ledger[i] = ledger[j] => i = j
         /\ \A c : Distinct(Prefix(c))
<1>1. DOMAIN ledger \subseteq Nat
  BY DEF TypeOK
<1>2. ASSUME NEW i \in DOMAIN ledger, NEW j \in DOMAIN ledger, ledger[i] = ledger[j]
      PROVE  i = j
  <2>1. ledger[i].sequence \in Nat
    <3>1. ledger[i] \in Events
      BY DEF TypeOK
    <3>. QED  BY <3>1 DEF Events
  <2>2. ~(i < j) /\ ~(j < i)
    BY <1>2, <2>1 DEF LedgerOrder
  <2>. QED  BY <1>1, <2>2
<1>. QED  BY <1>2 DEF Distinct, Prefix

\* A batch that extends the last prefix keeps the prefixes nested.
LEMMA NestedAppend ==
  ASSUME NEW old \in Seq(Batches), Nested(old), NEW batch \in Batches,
         batch.previous = Tip(old), Extends(batch)
  PROVE  Nested(Append(old, batch)) /\ Len(Append(old, batch)) = Len(old) + 1
<1>. DEFINE new == Append(old, batch)
<1>1. /\ Len(new) = Len(old) + 1 /\ Len(old) \in Nat
      /\ DOMAIN new = 1..(Len(old) + 1) /\ DOMAIN old = 1..Len(old)
      /\ \A k \in 1..Len(old) : new[k] = old[k]
      /\ new[Len(old) + 1] = batch
  OBVIOUS
<1>2. Tip(new) = batch.next
  BY <1>1 DEF Tip
<1>. HIDE DEF new
<1>3. ASSUME NEW k \in DOMAIN new
      PROVE  /\ new[k].rows \subseteq new[k].next.prefix
             /\ new[k].rows \cap new[k].previous.prefix = {}
             /\ new[k].next.prefix \subseteq Tip(new).prefix
  BY <1>1, <1>2 DEF Nested, Extends
<1>4. ASSUME NEW j \in DOMAIN new, NEW k \in DOMAIN new, j < k
      PROVE  new[j].next.prefix \subseteq new[k].previous.prefix
  <2>1. j \in 1..Len(old) /\ new[j] = old[j]
    BY <1>1, <1>4
  <2>2. CASE k \in 1..Len(old)
    BY <1>1, <1>4, <2>1, <2>2 DEF Nested
  <2>3. CASE k = Len(old) + 1
    BY <1>1, <2>1, <2>3 DEF Nested
  <2>. QED  BY <1>1, <2>2, <2>3
<1>5. Distinct(Tip(new).prefix)
  BY <1>2 DEF Extends
<1>. QED  BY <1>1, <1>3, <1>4, <1>5 DEF Nested, new

\* What _read returns extends what it compared with the source.
LEMMA ReadableExtends ==
  ASSUME TypeOK, LedgerOrder, Nested(root.batches), NEW read \in Readable(root.batches)
  PROVE  Extends(read) /\ MatchesSource(root.batches)
<1>. DEFINE from == Tip(root.batches)
<1>1. MatchesSource(root.batches)
  BY DEF Readable
<1>2. from.prefix = Prefix(from.cursor) /\ from.cursor \in Nat
  <2>1. CASE root.batches = <<>>
    <3>1. from.cursor = 0 /\ from.prefix = {}
      BY <2>1 DEF Tip, Empty
    <3>2. Prefix(0) = {}
      BY DEF Prefix, TypeOK
    <3>. QED  BY <3>1, <3>2
  <2>2. CASE root.batches # <<>>
    <3>1. Len(root.batches) \in DOMAIN root.batches
      BY <2>2 DEF TypeOK, Images
    <3>2. from = Source(from.cursor) /\ from.cursor \in DOMAIN ledger
      BY <1>1, <2>2, <3>1 DEF Tip, MatchesSource, Backlog
    <3>. QED  BY <3>2 DEF Source, TypeOK
  <2>. QED  BY <2>1, <2>2
<1>3. CASE read = Done(from)
  BY <1>1, <1>3 DEF Done, Extends, Nested
<1>4. CASE \E c \in Backlog(from.cursor) : read = Plan(from, c)
  <2>1. PICK c \in Backlog(from.cursor) : read = Plan(from, c)
    BY <1>4
  <2>2. /\ read.rows = Prefix(c) \ Prefix(from.cursor)
        /\ read.previous.prefix = Prefix(from.cursor) /\ read.next.prefix = Prefix(c)
    BY <1>2, <2>1 DEF Plan, Source
  <2>3. c \in Nat /\ from.cursor <= c
    BY <1>2 DEF Backlog, TypeOK
  <2>4. Prefix(from.cursor) \subseteq Prefix(c)
    BY <1>2, <2>3, PrefixGrows
  <2>5. Distinct(Prefix(c))
    BY RowsDistinct
  <2>. QED  BY <1>1, <2>2, <2>4, <2>5 DEF Extends
<1>. QED  BY <1>3, <1>4 DEF Readable, Selections

\* Steps that change neither the ledger nor a batch, and make no plan.
LEMMA OnceUnlessTouched ==
  ASSUME OnceInv, ledger' = ledger,
         \A image \in images' : /\ \E known \in images : image.batches = known.batches
                                /\ Len(image.batches) <= Len(root'.batches),
         \A p \in Publishers : pc'[p] \in Planned =>
           pc[p] \in Planned /\ plan'[p] = plan[p] /\ root'.batches = root.batches
  PROVE  LedgerOrder' /\ ImagesNested' /\ PlansMatch'
<1>1. \A c : Prefix(c)' = Prefix(c) /\ Source(c)' = Source(c) /\ Backlog(c)' = Backlog(c)
  BY DEF Prefix, Ours, Source, Backlog
<1>2. LedgerOrder'
  BY DEF OnceInv, LedgerOrder
<1>3. ImagesNested'
  BY DEF OnceInv, ImagesNested
<1>4. ASSUME NEW p \in Publishers, pc'[p] \in Planned
      PROVE  Extends(plan'[p]) /\ MatchesSource(root.batches)' /\ root'.batches = root.batches
  BY <1>1, <1>4 DEF OnceInv, PlansMatch, MatchesSource
<1>. QED  BY <1>2, <1>3, <1>4 DEF PlansMatch

\* Leaving, and going to a step without a plan.
LEMMA OnceWithoutPlan ==
  ASSUME OnceInv, UNCHANGED <<ledger, root>>, images' \in {images, {root}},
         NEW p \in Publishers, NEW step \in Steps \ Planned,
         Leave(p, step) \/ (Goto(p, step) /\ UNCHANGED plan)
  PROVE  LedgerOrder' /\ ImagesNested' /\ PlansMatch'
<1>1. \A image \in images' : image \in images
  BY DEF OnceInv, SpoolInv
<1>2. pc' = [pc EXCEPT ![p] = step] /\ (plan' = plan \/ plan' = [plan EXCEPT ![p] = NoPlan])
  BY DEF Leave, Goto
<1>3. \A q \in Publishers :
        /\ pc'[q] = IF q = p THEN step ELSE pc[q]
        /\ q # p => plan'[q] = plan[q]
  BY <1>2 DEF OnceInv, SpoolInv, TypeOK
<1>4. \A image \in images' : Len(image.batches) <= Len(root'.batches)
  BY <1>1 DEF OnceInv, ImagesNested
<1>. QED  BY <1>1, <1>3, <1>4, OnceUnlessTouched

LEMMA InspectOnce ==
  ASSUME OnceInv, NEW p \in Publishers, Inspect(p)
  PROVE  LedgerOrder' /\ ImagesNested' /\ PlansMatch'
<1>1. UNCHANGED <<ledger, root, images>>
  BY DEF Inspect, Spool, Elsewhere
<1>2. CASE Leave(p, "idle")
  BY <1>1, <1>2, OnceWithoutPlan DEF Steps, Planned
<1>3. ASSUME NEW read \in Readable(root.batches), NEW step \in {"repair", "rename"},
             plan' = [plan EXCEPT ![p] = read], pc' = [pc EXCEPT ![p] = step]
      PROVE  LedgerOrder' /\ ImagesNested' /\ PlansMatch'
  <2>1. /\ \A c : Prefix(c)' = Prefix(c) /\ Source(c)' = Source(c) /\ Backlog(c)' = Backlog(c)
        /\ MatchesSource(root.batches)' <=> MatchesSource(root.batches)
    <3>1. \A c : Prefix(c)' = Prefix(c) /\ Source(c)' = Source(c) /\ Backlog(c)' = Backlog(c)
      BY <1>1 DEF Prefix, Ours, Source, Backlog
    <3>. QED  BY <1>1, <3>1 DEF MatchesSource
  <2>2. LedgerOrder' /\ ImagesNested'
    BY <1>1 DEF OnceInv, LedgerOrder, ImagesNested
  <2>3. \A q \in Publishers :
          /\ pc'[q] = IF q = p THEN step ELSE pc[q]
          /\ plan'[q] = IF q = p THEN read ELSE plan[q]
    BY <1>3 DEF OnceInv, SpoolInv, TypeOK
  <2>4. Extends(read) /\ MatchesSource(root.batches)
    BY ReadableExtends DEF OnceInv, SpoolInv, ImagesNested
  <2>5. PlansMatch'
    BY <2>1, <2>3, <2>4 DEF OnceInv, PlansMatch
  <2>. QED  BY <2>2, <2>5
<1>. QED  BY <1>2, <1>3 DEF Inspect, Goto

LEMMA HeadStepOnce ==
  ASSUME ~Reorders, OnceInv, NEW p \in Publishers, Repair(p) \/ Commit(p)
  PROVE  LedgerOrder' /\ ImagesNested' /\ PlansMatch'
<1>1. PICK checkpoint : /\ root' = SetHead(root, checkpoint)
                        /\ images' = images \cup {SetHead(root, checkpoint)}
  BY DEF Repair, Commit, ReplaceHead
<1>2. SetHead(root, checkpoint).batches = root.batches
  BY DEF SetHead, OnceInv, SpoolInv, TypeOK, Images
<1>3. \A image \in images' : /\ \E known \in images : image.batches = known.batches
                             /\ Len(image.batches) <= Len(root'.batches)
  BY <1>1, <1>2 DEF OnceInv, SpoolInv, ImagesNested
<1>4. \A q \in Publishers :
        pc'[q] \in Planned => pc[q] \in Planned /\ plan'[q] = plan[q]
  BY DEF Repair, Commit, Goto, OnceInv, SpoolInv, TypeOK, Planned
<1>5. ledger' = ledger
  BY DEF Repair, Commit, Elsewhere
<1>. QED  BY <1>1, <1>2, <1>3, <1>4, <1>5, OnceUnlessTouched

\* The renamed batch extends the last prefix; nobody else has a plan.
LEMMA RenameOnce ==
  ASSUME ~Reorders, OnceInv, NEW p \in Publishers, Rename(p)
  PROVE  /\ LedgerOrder' /\ ImagesNested' /\ PlansMatch'
         /\ MatchesSource(root.batches)
<1>. DEFINE image == AddBatch(root, plan[p])
            old == root.batches
<1>1. /\ pc[p] = "rename" /\ pc' = [pc EXCEPT ![p] = "renamed"]
      /\ root' = image /\ images' = images \cup {image}
      /\ UNCHANGED <<plan, ledger>>
  BY DEF Rename, RenameStage, Goto, Elsewhere
<1>2. /\ old \in Seq(Batches) /\ plan[p] \in Batches /\ root \in images
      /\ plan[p].previous = Tip(old) /\ image.batches = Append(old, plan[p])
  BY <1>1 DEF OnceInv, SpoolInv, TypeOK, Images, PlanContinues, AddBatch
<1>3. Extends(plan[p]) /\ MatchesSource(old) /\ Nested(old)
  BY <1>1, <1>2 DEF OnceInv, PlansMatch, Planned, ImagesNested
<1>4. Nested(image.batches) /\ Len(image.batches) = Len(old) + 1 /\ Len(old) \in Nat
  BY <1>2, <1>3, NestedAppend
<1>5. ImagesNested'
  <2>. SUFFICES ASSUME NEW found \in images \cup {image}
                PROVE  Nested(found.batches) /\ Len(found.batches) <= Len(old) + 1
    BY <1>1, <1>4 DEF ImagesNested
  <2>1. CASE found = image
    BY <1>4, <2>1
  <2>2. CASE found \in images
    <3>1. Len(found.batches) \in Nat /\ Len(found.batches) <= Len(old)
      BY <2>2 DEF OnceInv, SpoolInv, TypeOK, Images, ImagesNested
    <3>. QED  BY <1>4, <2>2, <3>1 DEF OnceInv, ImagesNested
  <2>. QED  BY <2>1, <2>2
<1>6. \A q \in Publishers : pc'[q] \notin Planned
  <2>1. \A q \in Publishers : q # p => pc[q] \notin Critical /\ pc'[q] = pc[q]
    BY <1>1 DEF OnceInv, SpoolInv, TypeOK, LockProtects, Critical
  <2>2. pc'[p] = "renamed"
    BY <1>1 DEF OnceInv, SpoolInv, TypeOK
  <2>. QED  BY <2>1, <2>2 DEF Critical, Planned
<1>7. LedgerOrder'
  BY <1>1 DEF OnceInv, LedgerOrder
<1>. QED  BY <1>3, <1>5, <1>6, <1>7 DEF PlansMatch

LEMMA SyncOnce ==
  ASSUME OnceInv, NEW p \in Publishers,
         SyncRepair(p) \/ SyncRename(p) \/ SyncCommit(p)
  PROVE  LedgerOrder' /\ ImagesNested' /\ PlansMatch'
<1>1. UNCHANGED <<ledger, root>> /\ images' = {root}
  BY DEF SyncRepair, SyncRename, SyncCommit, SyncRoot, Elsewhere
<1>2. CASE Leave(p, "idle")
  BY <1>1, <1>2, OnceWithoutPlan DEF Steps, Planned
<1>3. CASE SyncRename(p)
  BY <1>1, <1>3, OnceWithoutPlan DEF SyncRename, Steps, Critical, Planned
<1>4. CASE SyncRepair(p) /\ Goto(p, "rename") /\ UNCHANGED plan
  <2>1. \A q \in Publishers : pc'[q] = IF q = p THEN "rename" ELSE pc[q]
    BY <1>4 DEF Goto, OnceInv, SpoolInv, TypeOK
  <2>2. pc[p] = "repaired" /\ plan' = plan
    BY <1>4 DEF SyncRepair
  <2>3. \A image \in images' : image \in images /\ Len(image.batches) <= Len(root'.batches)
    BY <1>1 DEF OnceInv, SpoolInv, ImagesNested
  <2>4. \A q \in Publishers : pc'[q] \in Planned => pc[q] \in Planned
    BY <2>1, <2>2 DEF Planned
  <2>. QED  BY <1>1, <2>2, <2>3, <2>4, OnceUnlessTouched
<1>. QED  BY <1>2, <1>3, <1>4 DEF SyncRepair, SyncCommit

LEMMA PowerLossOnce ==
  ASSUME OnceInv, PowerLoss
  PROVE  LedgerOrder' /\ ImagesNested' /\ PlansMatch' /\ Len(root'.batches) <= Len(root.batches)
<1>1. PICK image \in images : root' = image /\ images' = {image}
  BY DEF PowerLoss
<1>2. \A p \in Publishers : pc'[p] \notin Planned
  BY DEF PowerLoss, Planned
<1>3. Len(image.batches) \in Nat /\ Len(image.batches) <= Len(root.batches)
  BY DEF OnceInv, SpoolInv, TypeOK, Images, ImagesNested
<1>4. \A found \in images' : /\ \E known \in images : found.batches = known.batches
                             /\ Len(found.batches) <= Len(root'.batches)
  BY <1>1, <1>3
<1>5. ledger' = ledger
  BY DEF PowerLoss
<1>6. LedgerOrder' /\ ImagesNested' /\ PlansMatch'
  BY <1>2, <1>4, <1>5, OnceUnlessTouched
<1>. QED  BY <1>1, <1>3, <1>6

\* A published prefix that the source holds is still held when the source grows.
LEMMA MatchStable ==
  ASSUME OnceInv, NEW event \in Events, ledger' = Append(ledger, event), root' = root,
         MatchesSource(root.batches)
  PROVE  MatchesSource(root.batches)'
<1>. DEFINE batches == root.batches
<1>1. TypeOK /\ batches \in Seq(Batches)
  BY DEF OnceInv, SpoolInv, TypeOK, Images
<1>2. Chained(batches)
  <2>1. Accepts(batches, root.head)
    BY DEF OnceInv, SpoolInv, CheckpointsHold
  <2>2. batches = <<>> => DOMAIN batches = {}
    OBVIOUS
  <2>. QED  BY <2>1, <2>2 DEF Accepts, Chained
<1>3. /\ \A c \in 0..Len(ledger) : Prefix(c)' = Prefix(c)
      /\ Len(ledger) \in Nat /\ DOMAIN ledger = 1..Len(ledger)
      /\ DOMAIN ledger' = 1..(Len(ledger) + 1)
      /\ \A i \in DOMAIN ledger : ledger'[i] = ledger[i]
  BY <1>1, PrefixStable DEF TypeOK
<1>. SUFFICES ASSUME NEW k \in DOMAIN batches
              PROVE  /\ batches[k].next.cursor \in Backlog(0)'
                     /\ batches[k].next = [cursor |-> batches[k].next.cursor,
                                           prefix |-> Prefix(batches[k].next.cursor)']
                     /\ batches[k].rows = Prefix(batches[k].next.cursor)'
                                            \ Prefix(batches[k].previous.cursor)'
  BY DEF MatchesSource, Source
<1>4. /\ batches[k].next.cursor \in Backlog(0)
      /\ batches[k].next = Source(batches[k].next.cursor)
      /\ batches[k].rows = Prefix(batches[k].next.cursor) \ Prefix(batches[k].previous.cursor)
  BY DEF MatchesSource
<1>5. batches[k].next.cursor \in 0..Len(ledger) /\ batches[k].next.cursor \in Backlog(0)'
  BY <1>3, <1>4 DEF Backlog, Ours
<1>6. batches[k].previous.cursor \in 0..Len(ledger)
  <2>1. CASE k = 1
    BY <1>2, <1>3, <2>1 DEF Chained, Empty
  <2>2. CASE k # 1
    <3>1. k - 1 \in DOMAIN batches
      BY <1>1, <2>2
    <3>2. batches[k - 1].next.cursor \in Backlog(0)
      BY <3>1 DEF MatchesSource
    <3>. QED  BY <1>2, <1>3, <2>2, <3>2 DEF Chained, Backlog
  <2>. QED  BY <2>1, <2>2
<1>7. /\ Prefix(batches[k].next.cursor)' = Prefix(batches[k].next.cursor)
      /\ Prefix(batches[k].previous.cursor)' = Prefix(batches[k].previous.cursor)
  <2>. DEFINE from == batches[k].previous.cursor
              to   == batches[k].next.cursor
  <2>1. PICK c \in 0..Len(ledger), b \in 0..Len(ledger) : c = to /\ b = from
    BY <1>5, <1>6
  <2>2. Prefix(c)' = Prefix(c) /\ Prefix(b)' = Prefix(b)
    BY <1>3
  <2>. QED  BY <2>1, <2>2
<1>. QED  BY <1>4, <1>5, <1>7 DEF Source

LEMMA StoreOnce ==
  ASSUME OnceInv, NEW event \in Events, Store(event)
  PROVE  LedgerOrder' /\ ImagesNested' /\ PlansMatch'
<1>1. ledger' = Append(ledger, event) /\ UNCHANGED <<root, images, pc, plan>>
  BY DEF Store, Spool, attempt
<1>2. /\ Len(ledger) \in Nat /\ DOMAIN ledger = 1..Len(ledger)
      /\ DOMAIN ledger' = 1..(Len(ledger) + 1)
      /\ \A i \in DOMAIN ledger : ledger'[i] = ledger[i]
      /\ ledger'[Len(ledger) + 1] = event
  BY <1>1 DEF OnceInv, SpoolInv, TypeOK
<1>3. LedgerOrder'
  <2>. SUFFICES ASSUME NEW i \in DOMAIN ledger', NEW j \in DOMAIN ledger', i < j,
                       ledger'[i].run = ledger'[j].run
                PROVE  ledger'[i].sequence < ledger'[j].sequence
    BY DEF LedgerOrder
  <2>1. i \in DOMAIN ledger
    BY <1>2
  <2>2. CASE j \in DOMAIN ledger
    BY <1>2, <2>1, <2>2 DEF OnceInv, LedgerOrder
  <2>3. CASE j = Len(ledger) + 1
    BY <1>2, <2>1, <2>3 DEF Store
  <2>. QED  BY <1>2, <2>2, <2>3
<1>4. ImagesNested'
  BY <1>1 DEF OnceInv, ImagesNested
<1>5. PlansMatch'
  BY <1>1, MatchStable DEF OnceInv, PlansMatch
<1>. QED  BY <1>3, <1>4, <1>5

\* Nobody has a plan when the database is set back.
LEMMA RestoreOnce ==
  ASSUME OnceInv, NEW n \in 0..(Len(ledger) - 1), Restore(n)
  PROVE  LedgerOrder' /\ ImagesNested' /\ PlansMatch'
<1>1. /\ lock = Nobody /\ ledger' = SubSeq(ledger, 1, n)
      /\ UNCHANGED <<root, images, pc, plan>>
  BY DEF Restore, Spool, attempt
<1>2. /\ DOMAIN ledger' \subseteq DOMAIN ledger
      /\ \A i \in DOMAIN ledger' : ledger'[i] = ledger[i]
  BY <1>1 DEF OnceInv, SpoolInv, TypeOK
<1>3. LedgerOrder'
  BY <1>2 DEF OnceInv, LedgerOrder
<1>4. \A p \in Publishers : pc[p] \notin Planned
  BY <1>1, PublishersAssumption DEF OnceInv, SpoolInv, LockProtects, Critical, Planned
<1>. QED  BY <1>1, <1>3, <1>4 DEF OnceInv, ImagesNested, PlansMatch

LEMMA InitOnceInv == Init => OnceInv
<1>. SUFFICES ASSUME Init PROVE OnceInv
  OBVIOUS
<1>1. /\ ledger = <<>> /\ images = {Fresh} /\ root = Fresh
      /\ \A p \in Publishers : pc[p] = "idle"
  BY DEF Init
<1>2. Fresh.batches = <<>> /\ Len(<<>>) = 0
  BY DEF Fresh
<1>3. Nested(<<>>)
  BY DEF Nested, Tip, Empty, Distinct
<1>4. LedgerOrder /\ ImagesNested /\ PlansMatch
  BY <1>1, <1>2, <1>3 DEF LedgerOrder, ImagesNested, PlansMatch, Planned
<1>. QED  BY <1>4, InitSpoolInv DEF OnceInv

LEMMA NextOnce ==
  ASSUME ~Reorders, OnceInv, Next
  PROVE  /\ LedgerOrder' /\ ImagesNested' /\ PlansMatch'
         /\ Len(root'.batches) > Len(root.batches) => MatchesSource(root.batches)
<1>. DEFINE Goal == /\ LedgerOrder' /\ ImagesNested' /\ PlansMatch'
                    /\ Len(root'.batches) > Len(root.batches) => MatchesSource(root.batches)
<1>1. Len(root.batches) \in Nat
  BY DEF OnceInv, SpoolInv, TypeOK, Images
<1>2. ASSUME NEW p \in Publishers, List(p) \/ Check(p) \/ TakeLock(p) \/ Refuse(p) \/ Die(p)
      PROVE  Goal
  <2>1. UNCHANGED <<ledger, root, images>>
    BY <1>2 DEF List, Check, TakeLock, Refuse, Die, Spool, Elsewhere
  <2>2. \E step \in {"listed", "checked", "locked", "alarmed", "idle"} :
          Leave(p, step) \/ (Goto(p, step) /\ UNCHANGED plan)
    BY <1>2 DEF List, Check, TakeLock, Refuse, Die, After
  <2>3. LedgerOrder' /\ ImagesNested' /\ PlansMatch'
    BY <2>1, <2>2, OnceWithoutPlan DEF Steps, Critical, Planned
  <2>. QED  BY <1>1, <2>1, <2>3
<1>3. ASSUME NEW p \in Publishers, Publish(p) \/ Die(p)
      PROVE  Goal
  <2>1. CASE Rename(p)
    BY <2>1, RenameOnce
  <2>2. CASE Repair(p) \/ Commit(p)
    <3>1. \E checkpoint : root' = SetHead(root, checkpoint)
      BY <2>2 DEF Repair, Commit, ReplaceHead
    <3>2. root'.batches = root.batches
      BY <3>1 DEF SetHead, OnceInv, SpoolInv, TypeOK, Images
    <3>. QED  BY <1>1, <2>2, <3>2, HeadStepOnce
  <2>3. CASE Inspect(p)
    BY <1>1, <2>3, InspectOnce DEF Inspect, Spool
  <2>4. CASE SyncRepair(p) \/ SyncRename(p) \/ SyncCommit(p)
    BY <1>1, <2>4, SyncOnce DEF SyncRepair, SyncRename, SyncCommit, SyncRoot
  <2>. QED  BY <1>2, <1>3, <2>1, <2>2, <2>3, <2>4 DEF Publish
<1>4. CASE PowerLoss
  <2>1. Len(root'.batches) \in Nat
    BY <1>4 DEF PowerLoss, OnceInv, SpoolInv, TypeOK, Images
  <2>. QED  BY <1>1, <1>4, <2>1, PowerLossOnce
<1>5. CASE \E event \in Events : Store(event)
  BY <1>1, <1>5, StoreOnce DEF Store, Spool
<1>6. CASE \E n \in 0..(Len(ledger) - 1) : Restore(n)
  BY <1>1, <1>6, RestoreOnce DEF Restore, Spool
<1>. QED  BY <1>3, <1>4, <1>5, <1>6 DEF Next

LEMMA StepOnceInv == ~Reorders /\ OnceInv /\ [Next]_vars => OnceInv'
<1>. SUFFICES ASSUME ~Reorders, OnceInv, [Next]_vars PROVE OnceInv'
  OBVIOUS
<1>1. SpoolInv'
  BY StepSpoolInv DEF OnceInv
<1>2. CASE UNCHANGED vars
  <2>1. /\ UNCHANGED <<ledger, root, images>> /\ UNCHANGED <<pc, plan>>
    BY <1>2 DEF vars
  <2>2. \A image \in images' : image \in images /\ Len(image.batches) <= Len(root'.batches)
    BY <2>1 DEF OnceInv, ImagesNested
  <2>. QED  BY <1>1, <2>1, <2>2, OnceUnlessTouched DEF OnceInv
<1>. QED  BY <1>1, <1>2, NextOnce DEF OnceInv

\* export(), retried, raced, killed and restarted, on a database that was set back and
\* grew again: no event of the ledger is in two of the batches, or twice in one.
THEOREM EventsAreExportedOnce == ~Reorders => (Spec => []EachEventOnce)
<1>. SUFFICES ASSUME ~Reorders PROVE Spec => []EachEventOnce
  OBVIOUS
<1>1. ASSUME OnceInv PROVE EachEventOnce
  <2>. SUFFICES ASSUME NEW j \in DOMAIN root.batches, NEW k \in DOMAIN root.batches,
                       NEW x \in root.batches[j].rows, NEW y \in root.batches[k].rows,
                       x[2] = y[2]
                PROVE  j = k /\ x = y
    BY DEF EachEventOnce
  <2>1. Nested(root.batches) /\ DOMAIN root.batches \subseteq Nat
    BY <1>1 DEF OnceInv, SpoolInv, ImagesNested, TypeOK, Images
  <2>2. x = y
    <3>1. x \in Tip(root.batches).prefix /\ y \in Tip(root.batches).prefix
      BY <2>1 DEF Nested
    <3>. QED  BY <2>1, <3>1 DEF Nested, Distinct
  <2>3. ASSUME NEW l \in DOMAIN root.batches, NEW m \in DOMAIN root.batches, l < m,
               x \in root.batches[l].rows, x \in root.batches[m].rows
        PROVE  FALSE
    BY <2>1, <2>3 DEF Nested
  <2>4. ~(j < k) /\ ~(k < j)
    BY <2>2, <2>3
  <2>. QED  BY <2>1, <2>2, <2>4
<1>2. OnceInv /\ [Next]_vars => OnceInv'
  BY StepOnceInv
<1>. QED  BY InitOnceInv, <1>1, <1>2, PTL DEF Spec

\* _read compares the whole spool with the source before a stage is renamed, and the
\* source cannot be set back in between: no batch is put on top of a prefix that the
\* source no longer holds.
THEOREM SourceIsCompared == ~Reorders => (Spec => NothingOnAChangedSource)
<1>. SUFFICES ASSUME ~Reorders PROVE Spec => NothingOnAChangedSource
  OBVIOUS
<1>1. OnceInv /\ [Next]_vars => OnceInv'
  BY StepOnceInv
<1>2. OnceInv /\ [Next]_vars =>
        [Len(root'.batches) > Len(root.batches) => MatchesSource(root.batches)]_vars
  BY NextOnce
<1>. QED  BY InitOnceInv, <1>1, <1>2, PTL DEF Spec, NothingOnAChangedSource

-------------------------------------------------------------------------------
(***************************************************************************)
(* The spool implements Publication: what is sure to survive a power loss  *)
(* is an append-only log of distinct ledger rows in the order of their     *)
(* rowids.  The abstract variable is Settled, the rows that every          *)
(* directory that may be found has in common.                              *)
(***************************************************************************)

PublicationInv == ExactInv /\ OnceInv /\ ~restored

LEMMA PublishedGrows ==
  ASSUME NEW old \in Seq(Batches), NEW batch \in Batches
  PROVE  Published(old) \subseteq Published(Append(old, batch))
<1>1. /\ DOMAIN Append(old, batch) = DOMAIN old \cup {Len(old) + 1}
      /\ \A k \in DOMAIN old : Append(old, batch)[k] = old[k]
  OBVIOUS
<1>. QED  BY <1>1 DEF Published

\* No two rows of a prefix have the same rowid or the same event.
LEMMA PrefixOnce ==
  ASSUME TypeOK, LedgerOrder, NEW c
  PROVE  Publication!Once(Prefix(c))
<1>1. ASSUME NEW x \in Prefix(c), NEW y \in Prefix(c), x # y
      PROVE  x[1] # y[1] /\ x[2] # y[2]
  <2>1. PICK i \in DOMAIN ledger : x = <<i, ledger[i]>>
    BY DEF Prefix
  <2>2. PICK j \in DOMAIN ledger : y = <<j, ledger[j]>>
    BY DEF Prefix
  <2>3. ledger[i] = ledger[j] => i = j
    BY RowsDistinct
  <2>. QED  BY <1>1, <2>1, <2>2, <2>3
<1>. QED  BY <1>1 DEF Publication!Once

\* A step that leaves every directory at least what some directory had.
LEMMA SettledGrows ==
  ASSUME PublicationInv, PublicationInv', ledger' = ledger,
         \A found \in images' : \E known \in images :
           Published(known.batches) \subseteq Published(found.batches)
  PROVE  Publication!Publish
<1>1. /\ root \in images /\ TypeOK /\ LedgerOrder
      /\ \A image \in images :
           Published(image.batches) = Prefix(Tip(image.batches).cursor)
  BY DEF PublicationInv, ExactInv, OnceInv, SpoolInv, ExactPrefix
<1>2. \A c : Prefix(c)' = Prefix(c)
  BY DEF Prefix, Ours
<1>3. /\ root' \in images'
      /\ \A image \in images' :
           Published(image.batches) = Prefix(Tip(image.batches).cursor)
           /\ Tip(image.batches).cursor \in Nat
  <2>1. root' \in images' /\ ~restored' /\ Len(ledger') \in Nat
    BY DEF PublicationInv, ExactInv, SpoolInv, TypeOK
  <2>2. ASSUME NEW image \in images'
        PROVE  /\ Published(image.batches) = Prefix(Tip(image.batches).cursor)'
               /\ Tip(image.batches).cursor \in 0..Len(ledger')
    BY <2>1 DEF PublicationInv, ExactInv, ExactPrefix
  <2>. QED  BY <1>2, <2>1, <2>2
<1>4. \A image \in images : Tip(image.batches).cursor \in Nat
  BY <1>1 DEF PublicationInv, ExactInv, ExactPrefix, TypeOK
<1>5. Settled' = {x \in Published(root'.batches) :
                    \A image \in images' : x \in Published(image.batches)}
  BY DEF Settled
<1>6. Settled \subseteq Settled'
  BY <1>3, <1>5 DEF Settled
<1>7. ASSUME NEW x \in Settled' \ Settled, NEW y \in Settled
      PROVE  x[1] > y[1]
  <2>1. PICK image \in images : x \notin Published(image.batches)
    BY <1>1 DEF Settled
  <2>2. PICK i \in DOMAIN ledger : x = <<i, ledger[i]>> /\ Ours(i)
    BY <1>3, <1>5 DEF Prefix
  <2>3. PICK c \in Nat : c = Tip(image.batches).cursor
    BY <1>4
  <2>4. x \notin Prefix(c) /\ y \in Prefix(c)
    BY <1>1, <2>1, <2>3 DEF Settled
  <2>5. i \in Nat /\ ~(i <= c)
    BY <1>1, <2>2, <2>4 DEF Prefix, TypeOK
  <2>6. PICK j \in DOMAIN ledger : y = <<j, ledger[j]>> /\ j <= c
    BY <2>4 DEF Prefix
  <2>7. j \in Nat
    BY <1>1, <2>6 DEF TypeOK
  <2>. QED  BY <2>2, <2>3, <2>5, <2>6, <2>7
<1>8. Publication!Once(Settled')
  <2>1. Settled' \subseteq Prefix(Tip(root'.batches).cursor)
    BY <1>3, <1>5
  <2>2. PICK c : c = Tip(root'.batches).cursor
    OBVIOUS
  <2>3. Publication!Once(Prefix(c))
    BY <1>1, PrefixOnce
  <2>. QED  BY <2>1, <2>2, <2>3 DEF Publication!Once
<1>. QED  BY <1>6, <1>7, <1>8 DEF Publication!Publish

LEMMA NextPublishes ==
  ASSUME ~Reorders, ~Restores, PublicationInv, PublicationInv', Next
  PROVE  Publication!Publish \/ UNCHANGED Settled
<1>1. /\ root \in images /\ images \in SUBSET Images
      /\ root.batches \in Seq(Batches)
  BY DEF PublicationInv, OnceInv, SpoolInv, TypeOK, Images
<1>2. CASE UNCHANGED <<root, images>>
  BY <1>2 DEF Settled, Published
<1>3. ASSUME NEW p \in Publishers, Publish(p) \/ Die(p)
      PROVE  Publication!Publish \/ UNCHANGED Settled
  <2>1. CASE Repair(p) \/ Commit(p)
    <3>1. PICK checkpoint : images' = images \cup {SetHead(root, checkpoint)}
      BY <2>1 DEF Repair, Commit, ReplaceHead
    <3>2. SetHead(root, checkpoint).batches = root.batches
      BY <1>1 DEF SetHead, Images
    <3>3. ledger' = ledger
      BY <2>1 DEF Repair, Commit, Elsewhere
    <3>. QED  BY <1>1, <3>1, <3>2, <3>3, SettledGrows
  <2>2. CASE Rename(p)
    <3>1. images' = images \cup {AddBatch(root, plan[p])} /\ ledger' = ledger
      BY <2>2 DEF Rename, RenameStage, Elsewhere
    <3>2. AddBatch(root, plan[p]).batches = Append(root.batches, plan[p]) /\ plan[p] \in Batches
      BY <1>1 DEF AddBatch, Images, PublicationInv, OnceInv, SpoolInv, TypeOK
    <3>3. Published(root.batches) \subseteq Published(AddBatch(root, plan[p]).batches)
      BY <1>1, <3>2, PublishedGrows
    <3>. QED  BY <1>1, <3>1, <3>3, SettledGrows
  <2>3. CASE SyncRepair(p) \/ SyncRename(p) \/ SyncCommit(p)
    <3>1. images' = {root} /\ ledger' = ledger
      BY <2>3 DEF SyncRepair, SyncRename, SyncCommit, SyncRoot, Elsewhere
    <3>. QED  BY <1>1, <3>1, SettledGrows
  <2>4. CASE List(p) \/ Check(p) \/ TakeLock(p) \/ Inspect(p) \/ Refuse(p) \/ Die(p)
    <3>1. UNCHANGED <<root, images>>
      BY <2>4 DEF List, Check, TakeLock, Inspect, Refuse, Die, Spool
    <3>. QED  BY <1>2, <3>1
  <2>. QED  BY <1>3, <2>1, <2>2, <2>3, <2>4 DEF Publish
<1>4. CASE PowerLoss
  <2>1. PICK image \in images : images' = {image} /\ ledger' = ledger
    BY <1>4 DEF PowerLoss
  <2>. QED  BY <2>1, SettledGrows
<1>5. CASE \E event \in Events : Store(event)
  BY <1>2, <1>5 DEF Store, Spool
<1>6. CASE \E n \in 0..(Len(ledger) - 1) : Restore(n)
  BY <1>6 DEF Restore
<1>. QED  BY <1>3, <1>4, <1>5, <1>6 DEF Next

\* export() keeps its promise to whoever monitors the directory, step by step and for
\* any number of publishers, kills and power losses: what is durable is an append-only
\* log, in the order of the rowids and without repetition, as long as the database is
\* not set back.
THEOREM SpoolImplementsPublication ==
  ~Reorders /\ ~Restores => (Spec => ImplementsPublication)
<1>. SUFFICES ASSUME ~Reorders, ~Restores PROVE Spec => ImplementsPublication
  OBVIOUS
<1>1. Init => PublicationInv
  <2>1. Init => ~restored
    BY DEF Init
  <2>. QED  BY <2>1, InitExactInv, InitOnceInv DEF PublicationInv
<1>2. PublicationInv /\ [Next]_vars => PublicationInv'
  <2>1. ASSUME ~restored, [Next]_vars PROVE ~restored'
    <3>1. CASE UNCHANGED vars
      BY <2>1, <3>1 DEF vars
    <3>2. CASE Next
      BY <2>1, <3>2 DEF Next, Publish, List, Check, TakeLock, Inspect, Refuse, Repair,
         SyncRepair, Rename, SyncRename, Commit, SyncCommit, Die, PowerLoss, Store, Restore,
         Elsewhere
    <3>. QED  BY <2>1, <3>1, <3>2
  <2>. QED  BY <2>1, StepExactInv, StepOnceInv DEF PublicationInv
<1>3. Init => Publication!Init
  <2>1. Init => Settled = {}
    BY DEF Init, Settled, Published, Fresh
  <2>. QED  BY <2>1 DEF Publication!Init
<1>4. PublicationInv /\ PublicationInv' /\ [Next]_vars => [Publication!Publish]_Settled
  <2>1. UNCHANGED vars => UNCHANGED Settled
    BY DEF vars, Settled, Published
  <2>. QED  BY <2>1, NextPublishes
<1>. QED  BY <1>1, <1>2, <1>3, <1>4, PTL DEF Spec, ImplementsPublication, Publication!Spec
===============================================================================
