---------------------------- MODULE AnchoringProofs ----------------------------
(***************************************************************************)
(* Proofs about Anchoring: a recorded batch holds the events of all its    *)
(* proofs, however many proofs, files, failures and deaths there are.      *)
(***************************************************************************)
EXTENDS Anchoring, WellFoundedInduction, TLAPS

-----------------------------------------------------------------------------
(* Lemmas about the operators *)

\* A set of numbers has a first one.
LEMMA FirstIn ==
    ASSUME NEW S \in SUBSET Nat, S # {}
    PROVE  First(S) \in S
<1>1. IsWellFoundedOn(OpToRel(<, Nat), Nat)
  BY NatLessThanWellFounded
<1>2. PICK x \in S : \A y \in S : ~ (<<y, x>> \in OpToRel(<, Nat))
  BY <1>1, WFMin, Zenon
<1>3. \A y \in Nat : y < x => <<y, x>> \in OpToRel(<, Nat)
  BY DEF OpToRel
<1>4. \A y \in S : ~ (y < x)
  BY <1>2, <1>3
<1>5. \A y \in S : x <= y
  BY <1>4
<1> QED
  BY <1>5 DEF First

\* Going on to another step keeps the type of a run.
LEMMA NextStampStep ==
    ASSUME NEW r \in StampRuns, NEW x \in StampSteps
    PROVE  [r EXCEPT !.at = x] \in StampRuns
  BY DEF StampRuns

LEMMA NextCheckStep ==
    ASSUME NEW r \in CheckRuns, NEW x \in CheckSteps
    PROVE  [r EXCEPT !.at = x] \in CheckRuns
  BY DEF CheckRuns

LEMMA NoRuns == NoStamp \in StampRuns /\ NoCheck \in CheckRuns
  BY DEF NoStamp, NoCheck, StampRuns, CheckRuns, StampSteps, CheckSteps

LEMMA AddTyped ==
    ASSUME TypeOK, NEW S, Add(S)
    PROVE  index' \in [Labels -> Versions]
  BY DEF TypeOK, Add

-----------------------------------------------------------------------------
(* What a step leaves alone *)

LEMMA RowsStay ==
    ASSUME Inv, UNCHANGED <<files, staged, trees, text, rows>>
    PROVE  FilesInv' /\ CommitsExist' /\ BatchHoldsItsEvents'
  BY DEF Inv, FilesInv, CommitsExist, BatchHoldsItsEvents, Belongs, rows

LEMMA StampStays ==
    ASSUME Inv, UNCHANGED <<files, staged, trees, text, work, batch, stamp>>
    PROVE  RunInv' /\ LabelInv'
  BY DEF Inv, RunInv, LabelInv, Holds

LEMMA StampEnds ==
    ASSUME Inv, stamp' = NoStamp, UNCHANGED <<work, batch>>
    PROVE  RunInv' /\ LabelInv'
  BY DEF Inv, RunInv, LabelInv, Holds, NoStamp, Committing, Committed, Labelled

LEMMA CheckStays ==
    ASSUME Inv, UNCHANGED <<check, batch>>
    PROVE  CheckInv'
  BY DEF Inv, CheckInv

-----------------------------------------------------------------------------
(* batch_ots_stamp *)

LEMMA StampStartKeeps == ASSUME Inv, StampStart PROVE Inv'
<1>1. Batchful \in SUBSET Proofs
  <2>1. Unbatched \in SUBSET Proofs
    BY AnchoringAssumption DEF Inv, TypeOK, Unbatched, Proofs
  <2> QED
    BY <2>1 DEF Batchful
<1>2. stamp' \in StampRuns
  BY <1>1, NoRuns DEF StampStart, NoStamp, StampRuns, StampSteps
<1>3. TypeOK'
  BY <1>2 DEF Inv, TypeOK, StampStart, LocksCleared, events, public, rows, world
<1>4. RunInv' /\ LabelInv'
  BY DEF Inv, RunInv, LabelInv, StampStart, NoStamp, Holds, Committing, Committed, Labelled, events, public, rows
<1> QED
  BY <1>3, <1>4, RowsStay, CheckStays DEF Inv, StampStart, events, public, rows

LEMMA SweepKeeps == ASSUME Inv, Sweep PROVE Inv'
<1>1. PICK x \in {"sweepCommit", "push", "files"} : stamp' = [stamp EXCEPT !.at = x]
  BY DEF Sweep, AfterSweep
<1>2. index' \in [Labels -> Versions]
  BY AddTyped DEF Inv, TypeOK, Sweep
<1>3. stamp' \in StampRuns
  BY <1>1, NextStampStep DEF Inv, TypeOK, StampSteps
<1>4. TypeOK'
  BY <1>2, <1>3 DEF Inv, TypeOK, Sweep, events, rows, world
<1>5. RunInv' /\ LabelInv'
  BY <1>1 DEF Inv, TypeOK, StampRuns, RunInv, LabelInv, Sweep, Holds, Committing, Committed, Labelled, events, rows
<1> QED
  BY <1>4, <1>5, RowsStay, CheckStays DEF Inv, Sweep, events, rows

LEMMA SweepCommitKeeps == ASSUME Inv, SweepCommit PROVE Inv'
<1>1. PICK x \in {"push", "files"} : stamp' = [stamp EXCEPT !.at = x]
  BY DEF SweepCommit, AfterSweep
<1>2. stamp' \in StampRuns
  BY <1>1, NextStampStep DEF Inv, TypeOK, StampSteps
<1>3. TypeOK'
  BY <1>2 DEF Inv, TypeOK, SweepCommit, events, rows, world
<1>4. RunInv' /\ LabelInv'
  BY <1>1 DEF Inv, TypeOK, StampRuns, RunInv, LabelInv, SweepCommit, Holds, Committing, Committed, Labelled, events, rows
<1> QED
  BY <1>3, <1>4, RowsStay, CheckStays DEF Inv, SweepCommit, events, rows

LEMMA WriteEventKeeps == ASSUME Inv, WriteEvent PROVE Inv'
<1> DEFINE p == First(stamp.todo)
<1>1. stamp.todo \in SUBSET Proofs /\ p \in stamp.todo
  <2>1. stamp.todo \in SUBSET Proofs
    BY DEF Inv, TypeOK, StampRuns
  <2> QED
    BY <2>1, FirstIn DEF WriteEvent, Proofs
<1>2. p \in Proofs /\ p # 0 /\ PathOf[p] \in Paths
  BY <1>1, AnchoringAssumption DEF Proofs
<1>3. /\ named' = named \cup {p}
      /\ files' = IF files[PathOf[p]] = 0 THEN [files EXCEPT ![PathOf[p]] = p] ELSE files
      /\ stamp' = [stamp EXCEPT !.todo = @ \ {p}, !.paths = @ \cup {PathOf[p]}]
  BY DEF WriteEvent, Gathered
<1> HIDE DEF p
<1>4. files' \in Contents
  BY <1>2, <1>3 DEF Inv, TypeOK, Contents, Proofs
<1>5. stamp' \in StampRuns
  BY <1>1, <1>2, <1>3 DEF Inv, TypeOK, StampRuns
<1>6. TypeOK'
  BY <1>2, <1>3, <1>4, <1>5 DEF Inv, TypeOK, WriteEvent, public, rows, world
<1>7. FilesInv'
  BY <1>2, <1>3 DEF Inv, TypeOK, Contents, FilesInv, Belongs, WriteEvent
<1>8. RunInv'
  <2>1. Holds(files', stamp'.paths)
    BY <1>2, <1>3 DEF Inv, TypeOK, Contents, StampRuns, RunInv, Holds
  <2>2. \A q \in stamp'.pending \ stamp'.todo : PathOf[q] \in stamp'.paths
    BY <1>2, <1>3 DEF Inv, TypeOK, StampRuns, RunInv
  <2>3. stamp'.at = "files"
    BY <1>3 DEF Inv, TypeOK, StampRuns, WriteEvent
  <2> QED
    BY <2>1, <2>2, <2>3 DEF RunInv, Committing, Committed
<1>9. LabelInv'
  BY <1>3 DEF Inv, TypeOK, StampRuns, LabelInv, WriteEvent, Labelled, public, rows
<1>10. CommitsExist' /\ BatchHoldsItsEvents'
  BY DEF Inv, CommitsExist, BatchHoldsItsEvents, WriteEvent, public, rows
<1> QED
  BY <1>6, <1>7, <1>8, <1>9, <1>10, CheckStays DEF Inv, WriteEvent, rows

LEMMA FilesWrittenKeeps == ASSUME Inv, FilesWritten PROVE Inv'
<1>1. stamp' \in StampRuns
  BY NoRuns, NextStampStep DEF Inv, TypeOK, FilesWritten, StampSteps
<1>2. TypeOK'
  BY <1>1 DEF Inv, TypeOK, FilesWritten, events, public, rows, world
<1>3. RunInv' /\ LabelInv'
  <2>1. CASE stamp.paths = {}
    BY <2>1, StampEnds DEF FilesWritten, public, rows
  <2>2. CASE stamp.paths # {}
    BY <2>2 DEF Inv, TypeOK, StampRuns, RunInv, LabelInv, FilesWritten, Holds, Committing, Committed, Labelled, events, public, rows
  <2> QED
    BY <2>1, <2>2
<1> QED
  BY <1>2, <1>3, RowsStay, CheckStays DEF Inv, FilesWritten, events, public, rows

LEMMA AddEventsKeeps == ASSUME Inv, AddEvents PROVE Inv'
<1>1. CASE lock["events"] = "free"
  <2>1. /\ staged' = [f \in Paths |-> IF f \in stamp.paths THEN files[f] ELSE staged[f]]
        /\ stamp' = [stamp EXCEPT !.at = "commit"]
    BY <1>1 DEF AddEvents
  <2>2. staged' \in Contents /\ stamp' \in StampRuns
    BY <2>1, NextStampStep DEF Inv, TypeOK, Contents, StampSteps
  <2>3. TypeOK'
    BY <2>2 DEF Inv, TypeOK, AddEvents, public, rows, world
  <2>4. FilesInv'
    BY <2>1 DEF Inv, FilesInv, Belongs, AddEvents
  <2>5. RunInv'
    BY <2>1 DEF Inv, TypeOK, StampRuns, RunInv, Holds, AddEvents, Committing, Committed
  <2>6. LabelInv'
    BY <2>1 DEF Inv, TypeOK, StampRuns, LabelInv, AddEvents, Labelled, public, rows
  <2>7. CommitsExist' /\ BatchHoldsItsEvents'
    BY DEF Inv, CommitsExist, BatchHoldsItsEvents, AddEvents, public, rows
  <2> QED
    BY <2>3, <2>4, <2>5, <2>6, <2>7, CheckStays DEF Inv, AddEvents, rows
<1>2. CASE lock["events"] # "free"
  <2>1. stamp' = NoStamp /\ UNCHANGED <<events, public, rows, world, lock, check>>
    BY <1>2 DEF AddEvents, events
  <2>2. TypeOK'
    BY <2>1, NoRuns DEF Inv, TypeOK, events, public, rows, world
  <2> QED
    BY <2>1, <2>2, RowsStay, CheckStays, StampEnds DEF Inv, events, public, rows
<1> QED
  BY <1>1, <1>2

LEMMA CommitEventsKeeps == ASSUME Inv, CommitEvents PROVE Inv'
<1>1. /\ trees \in Seq(Contents) /\ staged \in Contents /\ trees' = Append(trees, staged)
      /\ stamp' = [stamp EXCEPT !.at = "hash", !.commit = Len(trees) + 1]
      /\ stamp.at = "commit"
  BY DEF Inv, TypeOK, CommitEvents
<1>2. /\ trees' \in Seq(Contents) /\ Len(trees) \in Nat /\ Len(trees') = Len(trees) + 1
      /\ \A c \in 1 .. Len(trees) : trees'[c] = trees[c]
      /\ trees'[Len(trees) + 1] = staged
  BY <1>1
<1>3. stamp' \in StampRuns
  <2>1. stamp \in StampRuns /\ Len(trees) + 1 \in Nat
    BY <1>2 DEF Inv, TypeOK
  <2> QED
    BY <1>1, <2>1 DEF StampRuns, StampSteps
<1>4. TypeOK'
  BY <1>2, <1>3 DEF Inv, TypeOK, CommitEvents, public, rows, world
<1>5. FilesInv'
  BY <1>2 DEF Inv, FilesInv, Belongs, CommitEvents
<1>6. RunInv'
  BY <1>1, <1>2 DEF Inv, TypeOK, StampRuns, RunInv, Holds, CommitEvents, Committing, Committed
<1>7. LabelInv'
  BY <1>1 DEF Inv, TypeOK, StampRuns, LabelInv, CommitEvents, Labelled, public, rows
<1>8. CommitsExist'
  BY <1>2 DEF Inv, CommitsExist, CommitEvents, rows
<1>9. BatchHoldsItsEvents'
  <2>1. UNCHANGED <<text, batch, batchOf>>
    BY DEF CommitEvents, public, rows
  <2>2. \A p \in Proofs : batchOf[p] # 0 => trees'[batch[batchOf[p]].commit] = trees[batch[batchOf[p]].commit]
    BY <1>2 DEF Inv, CommitsExist
  <2> QED
    BY <2>1, <2>2 DEF Inv, BatchHoldsItsEvents
<1> QED
  BY <1>4, <1>5, <1>6, <1>7, <1>8, <1>9, CheckStays DEF Inv, CommitEvents, rows

LEMMA WriteHashKeeps == ASSUME Inv, WriteHash PROVE Inv'
<1>1. PICK l \in Labels :
        /\ work[l] = "none" /\ work' = [work EXCEPT ![l] = "text"]
        /\ text' = [text EXCEPT ![l] = stamp.commit]
        /\ stamp' = [stamp EXCEPT !.at = "ots", !.label = l]
  BY DEF WriteHash
<1>2. batch[l] = NoBatch /\ stamp.commit \in Nat
  BY <1>1 DEF Inv, TypeOK, StampRuns, LabelInv
<1>3. l # 0
  BY DEF Labels
<1>4. stamp' \in StampRuns
  BY <1>1 DEF Inv, TypeOK, StampRuns, StampSteps
<1>5. work' \in [Labels -> Versions] /\ text' \in [Labels -> Nat]
  BY <1>1, <1>2 DEF Inv, TypeOK, Versions
<1>6. TypeOK'
  BY <1>4, <1>5 DEF Inv, TypeOK, WriteHash, events, rows, world
<1>7. RunInv'
  BY <1>1 DEF Inv, TypeOK, StampRuns, RunInv, WriteHash, Holds, Committing, Committed, events
<1>8. LabelInv'
  BY <1>1, <1>2, <1>3 DEF Inv, TypeOK, StampRuns, LabelInv, WriteHash, Labelled, rows
<1>9. FilesInv' /\ CommitsExist'
  BY DEF Inv, FilesInv, Belongs, CommitsExist, WriteHash, events, rows
<1>10. BatchHoldsItsEvents'
  <2>1. \A p \in Proofs : batchOf[p] # 0 => batchOf[p] # l
    BY <1>2 DEF Inv, CommitsExist
  <2>2. \A p \in Proofs : batchOf[p] # 0 => text'[batchOf[p]] = text[batchOf[p]]
    BY <1>1, <2>1 DEF Inv, TypeOK
  <2> QED
    BY <2>2 DEF Inv, BatchHoldsItsEvents, WriteHash, events, rows
<1> QED
  BY <1>6, <1>7, <1>8, <1>9, <1>10, CheckStays DEF Inv, WriteHash, rows

LEMMA OtsKeeps == ASSUME Inv, Ots PROVE Inv'
<1>1. stamp.label \in Labels
  BY DEF Inv, TypeOK, StampRuns, LabelInv, Labelled, Ots
<1>2. work' \in [Labels -> Versions] /\ stamp' \in StampRuns
  BY <1>1, NextStampStep DEF Inv, TypeOK, Versions, StampSteps, Ots
<1>3. TypeOK'
  BY <1>2 DEF Inv, TypeOK, Ots, events, rows, world
<1>4. RunInv'
  BY DEF Inv, TypeOK, StampRuns, RunInv, Ots, Holds, Committing, Committed, events
<1>5. LabelInv'
  BY <1>1 DEF Inv, TypeOK, StampRuns, LabelInv, Ots, Labelled, rows
<1> QED
  BY <1>3, <1>4, <1>5, RowsStay, CheckStays DEF Inv, Ots, events, rows

LEMMA OtsAddKeeps == ASSUME Inv, OtsAdd PROVE Inv'
<1>1. PICK x \in {"otsCommit", "record"} : stamp' = [stamp EXCEPT !.at = x]
  BY DEF OtsAdd
<1>2. index' \in [Labels -> Versions]
  BY AddTyped DEF Inv, TypeOK, OtsAdd
<1>3. stamp' \in StampRuns
  BY <1>1, NextStampStep DEF Inv, TypeOK, StampSteps
<1>4. TypeOK'
  BY <1>2, <1>3 DEF Inv, TypeOK, OtsAdd, events, rows, world
<1>5. RunInv' /\ LabelInv'
  BY <1>1 DEF Inv, TypeOK, StampRuns, RunInv, LabelInv, OtsAdd, Holds, Committing, Committed, Labelled, events, rows
<1> QED
  BY <1>4, <1>5, RowsStay, CheckStays DEF Inv, OtsAdd, events, rows

LEMMA OtsCommitKeeps == ASSUME Inv, OtsCommit PROVE Inv'
<1>1. stamp' \in StampRuns
  BY NextStampStep DEF Inv, TypeOK, OtsCommit, StampSteps
<1>2. TypeOK'
  BY <1>1 DEF Inv, TypeOK, OtsCommit, events, rows, world
<1>3. RunInv' /\ LabelInv'
  BY DEF Inv, TypeOK, StampRuns, RunInv, LabelInv, OtsCommit, Holds, Committing, Committed, Labelled, events, rows
<1> QED
  BY <1>2, <1>3, RowsStay, CheckStays DEF Inv, OtsCommit, events, rows

LEMMA RecordKeeps == ASSUME Inv, Record PROVE Inv'
<1> DEFINE l == stamp.label
           b == [commit |-> stamp.commit, ots |-> work[l], verified |-> FALSE, block |-> FALSE]
<1>1. /\ l \in Labels /\ l # 0 /\ text[l] = stamp.commit /\ batch[l] = NoBatch
      /\ work[l] \in {"pending", "complete"}
  BY DEF Inv, TypeOK, StampRuns, LabelInv, Labelled, Record
<1>2. /\ stamp.commit \in 1 .. Len(trees) /\ Holds(trees[stamp.commit], stamp.paths)
      /\ \A p \in stamp.pending : PathOf[p] \in stamp.paths
  BY DEF Inv, RunInv, Committing, Committed, Record
<1>3. /\ batch' = [batch EXCEPT ![l] = b]
      /\ batchOf' = [p \in Proofs |-> IF p \in stamp.pending THEN l ELSE batchOf[p]]
      /\ stamp' = [stamp EXCEPT !.at = "push"]
  BY DEF Record, Linked
<1>4. b \in Batches /\ b # NoBatch
  BY <1>1, <1>2 DEF Inv, TypeOK, Batches, NoBatch
<1>5. b.commit = stamp.commit
  OBVIOUS
<1> HIDE DEF b, l
<1>6. batch' \in [Labels -> Batches] /\ batchOf' \in [Proofs -> {0} \cup Labels] /\ stamp' \in StampRuns
  BY <1>1, <1>3, <1>4, NextStampStep DEF Inv, TypeOK, StampSteps
<1>7. TypeOK'
  BY <1>6 DEF Inv, TypeOK, Record, events, public, world
<1>8. RunInv'
  BY <1>3 DEF Inv, TypeOK, StampRuns, RunInv, Record, Holds, Committing, Committed, events
<1>9. LabelInv'
  BY <1>1, <1>3 DEF Inv, TypeOK, StampRuns, LabelInv, Record, Labelled, public
<1>10. CheckInv'
  BY <1>1, <1>3, <1>4 DEF Inv, TypeOK, CheckInv, Record
<1>11. FilesInv'
  BY DEF Inv, FilesInv, Belongs, Record, events
<1>12. ASSUME NEW p \in Proofs, batchOf'[p] # 0
       PROVE  /\ batch'[batchOf'[p]] # NoBatch /\ batch'[batchOf'[p]].commit \in 1 .. Len(trees)
              /\ text[batchOf'[p]] = batch'[batchOf'[p]].commit
              /\ trees[batch'[batchOf'[p]].commit][PathOf[p]] # 0
              /\ PathOf[trees[batch'[batchOf'[p]].commit][PathOf[p]]] = PathOf[p]
  <2>1. CASE p \in stamp.pending
    <3>1. batchOf'[p] = l /\ batch'[l] = b
      BY <2>1, <1>1, <1>3 DEF Inv, TypeOK
    <3>2. PathOf[p] \in Paths /\ trees[stamp.commit][PathOf[p]] # 0
      BY <2>1, <1>2, AnchoringAssumption DEF Holds
    <3>3. PathOf[trees[stamp.commit][PathOf[p]]] = PathOf[p]
      BY <1>2, <3>2 DEF Inv, FilesInv, Belongs
    <3> QED
      BY <1>1, <1>2, <1>4, <1>5, <3>1, <3>2, <3>3
  <2>2. CASE p \notin stamp.pending
    <3>1. batchOf'[p] = batchOf[p] /\ batchOf[p] # l
      BY <2>2, <1>1, <1>3, <1>12 DEF Inv, CommitsExist
    <3>2. batch'[batchOf[p]] = batch[batchOf[p]]
      BY <3>1, <1>3, <1>12 DEF Inv, TypeOK
    <3> QED
      BY <3>1, <3>2, <1>12 DEF Inv, CommitsExist, BatchHoldsItsEvents
  <2> QED
    BY <2>1, <2>2
<1>13. CommitsExist' /\ BatchHoldsItsEvents'
  BY <1>12 DEF CommitsExist, BatchHoldsItsEvents, Record, events, public
<1> QED
  BY <1>7, <1>8, <1>9, <1>10, <1>11, <1>13 DEF Inv

LEMMA StampPushKeeps == ASSUME Inv, StampPush PROVE Inv'
<1>1. TypeOK'
  BY NoRuns DEF Inv, TypeOK, StampPush, events, rows, world
<1> QED
  BY <1>1, RowsStay, CheckStays, StampEnds DEF Inv, StampPush, events, rows

-----------------------------------------------------------------------------
(* verify_ots_batches *)

LEMMA CheckedTodo ==
    ASSUME Inv, check.at \in {"upgrade", "save", "verify"}
    PROVE  Checked \in check.todo /\ Checked \in Labels /\ batch[Checked] # NoBatch
<1>1. check.todo \in SUBSET Labels /\ check.todo # {}
  BY DEF Inv, TypeOK, CheckRuns, CheckInv
<1>2. Checked \in check.todo
  BY <1>1, FirstIn DEF Checked, Labels
<1> QED
  BY <1>1, <1>2 DEF Inv, CheckInv

LEMMA CheckStartKeeps == ASSUME Inv, CheckStart PROVE Inv'
<1>1. check' \in CheckRuns
  BY NoRuns DEF CheckStart, Checkable, Unverified, CheckRuns, CheckSteps
<1>2. TypeOK'
  BY <1>1 DEF Inv, TypeOK, CheckStart, LocksCleared, events, public, rows, world
<1>3. CheckInv'
  BY DEF CheckStart, Checkable, Unverified, CheckInv, NoCheck, rows
<1> QED
  BY <1>2, <1>3, RowsStay, StampStays DEF Inv, CheckStart, events, public, rows

LEMMA UpgradeKeeps == ASSUME Inv, Upgrade PROVE Inv'
<1>1. Checked \in Labels /\ batch[Checked] # NoBatch /\ check.at = "upgrade"
  BY CheckedTodo DEF Upgrade
<1>2. PICK x \in {"save", "verify"} : check' = [check EXCEPT !.at = x]
  BY DEF Upgrade
<1>3. \/ UNCHANGED work
      \/ work' = [work EXCEPT ![Checked] = "complete"]
  BY DEF Upgrade
<1>4. work' \in [Labels -> Versions] /\ check' \in CheckRuns
  BY <1>2, <1>3, NextCheckStep DEF Inv, TypeOK, Versions, CheckSteps
<1>5. TypeOK'
  BY <1>4 DEF Inv, TypeOK, Upgrade, events, rows, world
<1>6. RunInv'
  BY DEF Inv, RunInv, Upgrade, events
<1>7. LabelInv'
  <2>1. \A l \in Labels : l # Checked => work'[l] = work[l]
    BY <1>3 DEF Inv, TypeOK
  <2>2. \A l \in Labels : work'[l] = "none" => work[l] = "none"
    BY <1>1, <1>3 DEF Inv, TypeOK
  <2>3. stamp.at \in Labelled => stamp.label \in Labels /\ stamp.label # Checked
    BY <1>1 DEF Inv, TypeOK, StampRuns, LabelInv
  <2> QED
    BY <2>1, <2>2, <2>3 DEF Inv, LabelInv, Labelled, Upgrade, rows
<1>8. CheckInv'
  BY <1>1, <1>2 DEF Inv, TypeOK, CheckRuns, CheckInv, Upgrade, rows
<1> QED
  BY <1>5, <1>6, <1>7, <1>8, RowsStay DEF Inv, Upgrade, events, rows

\* A row that is updated in place keeps its commit.
LEMMA RowUpdateKeeps ==
    ASSUME Inv, NEW l \in Labels, batch[l] # NoBatch, NEW b \in Batches, b # NoBatch,
           b.commit = batch[l].commit, batch' = [batch EXCEPT ![l] = b],
           check' \in CheckRuns, check'.todo \subseteq check.todo,
           check'.at \in {"upgrade", "save", "verify"} => check'.todo # {},
           UNCHANGED <<events, public, batchOf, world, lock, stamp>>
    PROVE  Inv'
<1>1. TypeOK'
  BY DEF Inv, TypeOK, events, public, world
<1>2. FilesInv' /\ RunInv'
  BY DEF Inv, FilesInv, Belongs, RunInv, events
<1>3. LabelInv'
  BY DEF Inv, TypeOK, StampRuns, LabelInv, Labelled, public
<1>4. CheckInv'
  BY DEF Inv, TypeOK, CheckInv
<1>5. \A k \in Labels : /\ batch'[k].commit = batch[k].commit
                         /\ batch[k] # NoBatch => batch'[k] # NoBatch
  BY DEF Inv, TypeOK
<1>6. \A p \in Proofs : batchOf[p] # 0 => batchOf[p] \in Labels
  BY DEF Inv, TypeOK
<1>7. CommitsExist' /\ BatchHoldsItsEvents'
  BY <1>5, <1>6 DEF Inv, CommitsExist, BatchHoldsItsEvents, events, public
<1> QED
  BY <1>1, <1>2, <1>3, <1>4, <1>7 DEF Inv

LEMMA SaveProofKeeps == ASSUME Inv, SaveProof PROVE Inv'
<1>1. Checked \in Labels /\ batch[Checked] # NoBatch /\ Checked \in check.todo
  BY CheckedTodo DEF SaveProof
<1> DEFINE b == [batch[Checked] EXCEPT !.ots = "complete"]
<1>2. b \in Batches /\ b # NoBatch /\ b.commit = batch[Checked].commit
  BY <1>1 DEF Inv, TypeOK, Batches, NoBatch
<1>3. batch' = [batch EXCEPT ![Checked] = b]
  BY <1>1 DEF SaveProof
<1>4. check' \in CheckRuns /\ check'.todo = check.todo /\ check.todo # {}
  <2>1. check' = [check EXCEPT !.at = "verify", !.changed = check.changed \cup {Checked}]
    BY DEF SaveProof
  <2>2. check \in CheckRuns /\ check.changed \cup {Checked} \in SUBSET Labels
    BY <1>1 DEF Inv, TypeOK, CheckRuns
  <2>3. "verify" \in CheckSteps
    BY DEF CheckSteps
  <2> QED
    BY <1>1, <2>1, <2>2, <2>3 DEF CheckRuns
<1> HIDE DEF b
<1> QED
  BY <1>1, <1>2, <1>3, <1>4, RowUpdateKeeps DEF SaveProof

LEMMA VerifyKeeps == ASSUME Inv, Verify PROVE Inv'
<1>1. Checked \in Labels /\ batch[Checked] # NoBatch /\ Checked \in check.todo
  BY CheckedTodo DEF Verify
<1>2. PICK node \in BOOLEAN :
        batch' = [batch EXCEPT
          ![Checked].verified = node /\ Checked \in attested,
          ![Checked].block = @ \/ (node /\ Checked \in attested) \/ work[Checked] = "complete"]
  BY DEF Verify
<1> DEFINE v == node /\ Checked \in attested
           k == batch[Checked].block \/ v \/ work[Checked] = "complete"
           b == [batch[Checked] EXCEPT !.verified = v, !.block = k]
<1>3. v \in BOOLEAN /\ k \in BOOLEAN
  BY Zenon
<1>4. batch' = [batch EXCEPT ![Checked] = b]
  BY <1>1, <1>2 DEF Inv, TypeOK, Batches, NoBatch
<1> HIDE DEF v, k
<1>5. b \in Batches /\ b # NoBatch /\ b.commit = batch[Checked].commit
  BY <1>1, <1>3 DEF Inv, TypeOK, Batches, NoBatch
<1>6. /\ check' \in CheckRuns /\ check'.todo \subseteq check.todo
      /\ check'.at \in {"upgrade", "save", "verify"} => check'.todo # {}
  BY DEF Inv, TypeOK, CheckRuns, CheckSteps, Verify, AfterCheck
<1> HIDE DEF b
<1> QED
  BY <1>1, <1>4, <1>5, <1>6, RowUpdateKeeps DEF Verify

LEMMA CheckAddKeeps == ASSUME Inv, CheckAdd PROVE Inv'
<1>1. PICK x \in {"commit", "push"} : check' = [check EXCEPT !.at = x]
  BY DEF CheckAdd
<1>2. index' \in [Labels -> Versions]
  BY AddTyped DEF Inv, TypeOK, CheckAdd
<1>3. check' \in CheckRuns
  BY <1>1, NextCheckStep DEF Inv, TypeOK, CheckSteps
<1>4. TypeOK'
  BY <1>2, <1>3 DEF Inv, TypeOK, CheckAdd, events, rows, world
<1>5. CheckInv'
  BY <1>1 DEF Inv, TypeOK, CheckRuns, CheckInv, CheckAdd, rows
<1> QED
  BY <1>4, <1>5, RowsStay, StampStays DEF Inv, CheckAdd, events, rows

LEMMA CheckCommitKeeps == ASSUME Inv, CheckCommit PROVE Inv'
<1>1. check' \in CheckRuns
  BY NextCheckStep DEF Inv, TypeOK, CheckCommit, CheckSteps
<1>2. TypeOK'
  BY <1>1 DEF Inv, TypeOK, CheckCommit, events, rows, world
<1>3. CheckInv'
  BY DEF Inv, TypeOK, CheckRuns, CheckInv, CheckCommit, rows
<1> QED
  BY <1>2, <1>3, RowsStay, StampStays DEF Inv, CheckCommit, events, rows

LEMMA CheckPushKeeps == ASSUME Inv, CheckPush PROVE Inv'
<1>1. TypeOK'
  BY NoRuns DEF Inv, TypeOK, CheckPush, events, rows, world
<1>2. CheckInv'
  BY DEF CheckInv, NoCheck, CheckPush
<1> QED
  BY <1>1, <1>2, RowsStay, StampStays DEF Inv, CheckPush, events, rows

-----------------------------------------------------------------------------
(* Failures, deaths and everybody else *)

LEMMA StampDiesKeeps == ASSUME Inv, StampDies PROVE Inv'
<1>1. named' \subseteq Proofs
  <2>1. stamp.todo \in SUBSET Proofs
    BY DEF Inv, TypeOK, StampRuns
  <2>2. stamp.todo # {} => First(stamp.todo) \in Proofs
    BY <2>1, FirstIn DEF Proofs
  <2> QED
    BY <2>2 DEF Inv, TypeOK, StampDies
<1>2. lock' \in [Repos -> {"free", "left", "stale"}]
  BY DEF Inv, TypeOK, StampDies, Repos
<1>3. /\ stamp' = NoStamp /\ faults' \in 0 .. MaxFaults
      /\ UNCHANGED <<files, staged, trees, public, rows, made, attested, check>>
  BY AnchoringAssumption DEF Inv, TypeOK, StampDies, Fault
<1>4. TypeOK'
  BY <1>1, <1>2, <1>3, NoRuns DEF Inv, TypeOK, public, rows
<1> QED
  BY <1>3, <1>4, RowsStay, CheckStays, StampEnds DEF Inv, public, rows

LEMMA CheckDiesKeeps == ASSUME Inv, CheckDies PROVE Inv'
<1>1. lock' \in [Repos -> {"free", "left", "stale"}]
  BY DEF Inv, TypeOK, CheckDies, Repos
<1>2. /\ check' = NoCheck /\ faults' \in 0 .. MaxFaults
      /\ UNCHANGED <<events, public, rows, made, attested, stamp>>
  BY AnchoringAssumption DEF Inv, TypeOK, CheckDies, Fault
<1>3. TypeOK'
  BY <1>1, <1>2, NoRuns DEF Inv, TypeOK, events, public, rows
<1>4. CheckInv'
  BY <1>2 DEF CheckInv, NoCheck
<1> QED
  BY <1>2, <1>3, <1>4, RowsStay, StampStays DEF Inv, events, public, rows

LEMMA OtsFailsKeeps == ASSUME Inv, OtsFails PROVE Inv'
<1>1. TypeOK'
  BY AnchoringAssumption, NoRuns DEF Inv, TypeOK, OtsFails, Fault, events, public, rows
<1> QED
  BY <1>1, RowsStay, CheckStays, StampEnds DEF Inv, OtsFails, events, public, rows

LEMMA StampGitFailsKeeps == ASSUME Inv, StampGitFails PROVE Inv'
<1>1. /\ faults' \in 0 .. MaxFaults
      /\ UNCHANGED <<events, public, rows, made, attested, lock, check>>
  BY AnchoringAssumption DEF Inv, TypeOK, StampGitFails, Fault
<1>2. CASE stamp' = NoStamp
  <2>1. TypeOK'
    BY <1>1, <1>2, NoRuns DEF Inv, TypeOK, events, public, rows
  <2> QED
    BY <1>1, <1>2, <2>1, RowsStay, CheckStays, StampEnds DEF Inv, events, public, rows
<1>3. CASE /\ stamp.at \in {"sweep", "sweepCommit"}
           /\ \E x \in {"push", "files"} : stamp' = [stamp EXCEPT !.at = x]
  <2>1. PICK x \in {"push", "files"} : stamp' = [stamp EXCEPT !.at = x]
    BY <1>3
  <2>2. stamp' \in StampRuns
    BY <2>1, NextStampStep DEF Inv, TypeOK, StampSteps
  <2>3. TypeOK'
    BY <1>1, <2>2 DEF Inv, TypeOK, events, public, rows
  <2>4. RunInv' /\ LabelInv'
    BY <1>1, <1>3, <2>1 DEF Inv, TypeOK, StampRuns, RunInv, LabelInv, Holds, Committing, Committed, Labelled, events, public, rows
  <2> QED
    BY <1>1, <2>3, <2>4, RowsStay, CheckStays DEF Inv, events, public, rows
<1>4. CASE stamp.at \in {"otsAdd", "otsCommit"} /\ stamp' = [stamp EXCEPT !.at = "record"]
  <2>1. stamp' \in StampRuns
    BY <1>4, NextStampStep DEF Inv, TypeOK, StampSteps
  <2>2. TypeOK'
    BY <1>1, <2>1 DEF Inv, TypeOK, events, public, rows
  <2>3. RunInv' /\ LabelInv'
    BY <1>1, <1>4 DEF Inv, TypeOK, StampRuns, RunInv, LabelInv, Holds, Committing, Committed, Labelled, events, public, rows
  <2> QED
    BY <1>1, <2>2, <2>3, RowsStay, CheckStays DEF Inv, events, public, rows
<1> QED
  BY <1>2, <1>3, <1>4 DEF StampGitFails, Sweeping, AfterSweep

LEMMA CheckGitFailsKeeps == ASSUME Inv, CheckGitFails PROVE Inv'
<1>1. /\ faults' \in 0 .. MaxFaults
      /\ UNCHANGED <<events, public, rows, made, attested, lock, stamp>>
  BY AnchoringAssumption DEF Inv, TypeOK, CheckGitFails, Fault
<1>2. check' \in CheckRuns
  BY NoRuns, NextCheckStep DEF Inv, TypeOK, CheckGitFails, CheckSteps
<1>3. TypeOK'
  BY <1>1, <1>2 DEF Inv, TypeOK, events, public, rows
<1>4. CheckInv'
  <2>1. CASE check' = NoCheck
    BY <2>1 DEF CheckInv, NoCheck
  <2>2. CASE check' = [check EXCEPT !.at = "push"]
    <3>1. check'.at = "push" /\ check'.todo = check.todo
      BY <2>2 DEF Inv, TypeOK, CheckRuns
    <3> QED
      BY <1>1, <3>1 DEF Inv, CheckInv, rows
  <2> QED
    BY <2>1, <2>2 DEF CheckGitFails
<1> QED
  BY <1>1, <1>3, <1>4, RowsStay, StampStays DEF Inv, events, public, rows

LEMMA OthersKeep ==
    ASSUME Inv, Create \/ OthersCommit \/ OthersDie \/ (\E l \in Labels : Attest(l))
                \/ (\E r \in Repos : LockAges(r))
    PROVE  Inv'
<1>1. UNCHANGED <<events, rows, work, index, remote, text, stamp, check>>
  BY DEF Create, OthersCommit, OthersDie, Attest, LockAges, events, public, rows
<1>2. /\ made' \in 0 .. N /\ attested' \subseteq Labels /\ faults' \in 0 .. MaxFaults
      /\ head' \in [Labels -> Versions]
  BY AnchoringAssumption
     DEF Inv, TypeOK, Create, OthersCommit, OthersDie, Attest, LockAges, Fault, public, world
<1>3. lock' \in [Repos -> {"free", "left", "stale"}]
  BY DEF Inv, TypeOK, Create, OthersCommit, OthersDie, Attest, LockAges, Repos
<1>4. TypeOK'
  BY <1>1, <1>2, <1>3 DEF Inv, TypeOK, events, rows
<1> QED
  BY <1>1, <1>4, RowsStay, StampStays, CheckStays DEF Inv, events, rows

-----------------------------------------------------------------------------
(* The theorems *)

LEMMA InitInv == ASSUME Init PROVE Inv
<1>1. TypeOK
  BY AnchoringAssumption, NoRuns
     DEF Init, TypeOK, Proofs, Labels, Repos, Versions, Contents, Batches, Nowhere, Empty
<1>2. FilesInv /\ RunInv
  BY DEF Init, FilesInv, Belongs, RunInv, Holds, Empty, NoStamp, Committing, Committed
<1>3. LabelInv /\ CheckInv /\ CommitsExist /\ BatchHoldsItsEvents
  BY DEF Init, LabelInv, CheckInv, CommitsExist, BatchHoldsItsEvents, NoStamp, NoCheck, Labelled
<1> QED
  BY <1>1, <1>2, <1>3 DEF Inv

LEMMA NextInv == ASSUME Inv, [Next]_vars PROVE Inv'
<1>1. CASE StampStep
  BY <1>1, StampStartKeeps, SweepKeeps, SweepCommitKeeps, WriteEventKeeps, FilesWrittenKeeps,
     AddEventsKeeps, CommitEventsKeeps, WriteHashKeeps, OtsKeeps, OtsAddKeeps, OtsCommitKeeps,
     RecordKeeps, StampPushKeeps DEF StampStep
<1>2. CASE CheckStep
  BY <1>2, CheckStartKeeps, UpgradeKeeps, SaveProofKeeps, VerifyKeeps, CheckAddKeeps,
     CheckCommitKeeps, CheckPushKeeps DEF CheckStep
<1>3. CASE StampDies \/ CheckDies \/ OtsFails \/ StampGitFails \/ CheckGitFails
  BY <1>3, StampDiesKeeps, CheckDiesKeeps, OtsFailsKeeps, StampGitFailsKeeps, CheckGitFailsKeeps
<1>4. CASE Create \/ OthersCommit \/ OthersDie \/ (\E l \in Labels : Attest(l))
           \/ (\E r \in Repos : LockAges(r))
  BY <1>4, OthersKeep
<1>5. CASE UNCHANGED vars
  <2>1. TypeOK'
    BY <1>5 DEF Inv, TypeOK, vars, events, public, rows, world
  <2> QED
    BY <1>5, <2>1, RowsStay, StampStays, CheckStays DEF Inv, vars, events, public, rows
<1> QED
  BY <1>1, <1>2, <1>3, <1>4, <1>5 DEF Next

\* The inductive invariant of the anchoring jobs holds, whoever fails or dies.
THEOREM AnchoringInvHolds == Spec => []Inv
<1> QED
  BY InitInv, NextInv, PTL DEF Spec

\* The state stays well typed: a batch never carries a stamp that is none.
THEOREM AnchoringTypeCorrect == Spec => []TypeOK
<1>1. Inv => TypeOK
  BY DEF Inv
<1> QED
  BY <1>1, AnchoringInvHolds, PTL

\* For every number of proofs, files, failures and deaths, at any step: what the
\* stamp of a batch covers contains the event of every proof linked to it.
THEOREM BatchesAreComplete == Spec => []BatchHoldsItsEvents
<1>1. Inv => BatchHoldsItsEvents
  BY DEF Inv
<1> QED
  BY <1>1, AnchoringInvHolds, PTL
==============================================================================
