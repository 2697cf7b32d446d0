------------------------------- MODULE Anchoring -------------------------------
(***************************************************************************)
(* The anchoring of audit events in Bitcoin. Signed contracts, debts,      *)
(* verifications and polls leave pending proofs in the database. A timer   *)
(* runs batch_ots_stamp: it writes an event file for each pending proof,   *)
(* commits the files to the local events repository, stamps the hash of    *)
(* the commit with OpenTimestamps, commits the stamp to the public         *)
(* repository, and only then records the batch. A second timer runs        *)
(* verify_ots_batches, which completes the stamps.                         *)
(*                                                                         *)
(* Either job may fail or die anywhere; git leaves index.lock behind when  *)
(* it dies while it writes the index. Nothing is resumed: the next run     *)
(* starts from the database and the working tree. A version of a public    *)
(* file is what it says: the hash only ("text"), with a stamp that waits   *)
(* for Bitcoin ("pending"), with one that needs nobody any more.           *)
(***************************************************************************)
EXTENDS Integers, Sequences, FiniteSets

CONSTANTS
    N,          \* bound: proofs; they are numbered in the order of created_at
    Paths,      \* the event files
    PathOf,     \* the file of each proof, by day, model and object
    Limit,      \* most proofs of a batch
    CheckLimit, \* most batches a run of verify_ots_batches looks at
    MaxFaults   \* bound: failures and deaths

Proofs == 1 .. N
Labels == 1 .. (N + MaxFaults)      \* batch labels; each is written by one run
Repos == {"events", "public"}
Versions == {"none", "text", "pending", "complete"}

ASSUME AnchoringAssumption ==
    /\ {N, Limit, CheckLimit} \subseteq Nat \ {0} /\ MaxFaults \in Nat
    /\ PathOf \in [Proofs -> Paths]

VARIABLES
    made,       \* proofs created so far
    named,      \* proofs with a git_event_path
    batchOf,    \* the batch of each proof, 0 for none
    batch,      \* the AuditBatch rows, by label
    files,      \* events/: the proof whose data each file holds, 0 for no file
    staged,     \* the index of the events repository
    trees,      \* its commits
    text,       \* the commit named in each batch_commits/ file
    work,       \* the versions in the working tree of the public repository
    index,      \* in its index
    head,       \* in its last commit
    remote,     \* on the remote
    lock,       \* index.lock of each repository: free, left by the dead, stale
    stamp,      \* the run of batch_ots_stamp
    check,      \* the run of verify_ots_batches
    attested,   \* stamps that a Bitcoin block covers
    faults      \* history: failures and deaths so far

events == <<named, files, staged, trees>>
public == <<work, index, head, remote, text>>
rows == <<batchOf, batch>>
world == <<made, attested, faults>>
vars == <<events, public, rows, world, lock, stamp, check>>

Contents == [Paths -> 0 .. N]
NoBatch == [commit |-> 0, ots |-> "none", verified |-> FALSE, block |-> FALSE]
Batches == {NoBatch} \cup
    [commit : Nat \ {0}, ots : {"pending", "complete"}, verified : BOOLEAN, block : BOOLEAN]

StampSteps == {"idle", "sweep", "sweepCommit", "files", "add", "commit", "hash", "ots",
               "otsAdd", "otsCommit", "record", "push"}
CheckSteps == {"idle", "upgrade", "save", "verify", "add", "commit", "push"}
StampRuns == [at : StampSteps, pending : SUBSET Proofs, todo : SUBSET Proofs,
              paths : SUBSET Paths, commit : Nat, label : {0} \cup Labels]
CheckRuns == [at : CheckSteps, todo : SUBSET Labels, changed : SUBSET Labels]
NoStamp == [at |-> "idle", pending |-> {}, todo |-> {}, paths |-> {}, commit |-> 0, label |-> 0]
NoCheck == [at |-> "idle", todo |-> {}, changed |-> {}]

TypeOK ==
    /\ made \in 0 .. N
    /\ named \subseteq Proofs
    /\ batchOf \in [Proofs -> {0} \cup Labels]
    /\ batch \in [Labels -> Batches]
    /\ files \in Contents /\ staged \in Contents
    /\ trees \in Seq(Contents)
    /\ text \in [Labels -> Nat]
    /\ work \in [Labels -> Versions] /\ index \in [Labels -> Versions]
    /\ head \in [Labels -> Versions] /\ remote \in [Labels -> Versions]
    /\ lock \in [Repos -> {"free", "left", "stale"}]
    /\ stamp \in StampRuns
    /\ check \in CheckRuns
    /\ attested \subseteq Labels
    /\ faults \in 0 .. MaxFaults

Nowhere == [l \in Labels |-> "none"]
Empty == [f \in Paths |-> 0]

Init ==
    /\ made = 0 /\ named = {}
    /\ batchOf = [p \in Proofs |-> 0]
    /\ batch = [l \in Labels |-> NoBatch]
    /\ files = Empty /\ staged = Empty /\ trees = <<>>
    /\ text = [l \in Labels |-> 0]
    /\ work = Nowhere /\ index = Nowhere /\ head = Nowhere /\ remote = Nowhere
    /\ lock = [r \in Repos |-> "free"]
    /\ stamp = NoStamp /\ check = NoCheck
    /\ attested = {} /\ faults = 0

First(S) == CHOOSE x \in S : \A y \in S : x <= y

-----------------------------------------------------------------------------
(* batch_ots_stamp *)

Unbatched == {p \in 1 .. made : batchOf[p] = 0}

\* The oldest pending proofs
Batchful == {p \in Unbatched : Cardinality({q \in Unbatched : q < p}) < Limit}

\* Every job opens the repositories and removes a stale index.lock first.
LocksCleared == [r \in Repos |-> IF lock[r] = "stale" THEN "free" ELSE lock[r]]

StampStart ==
    /\ stamp.at = "idle"
    /\ stamp' = [NoStamp EXCEPT !.at = "sweep", !.pending = Batchful, !.todo = Batchful]
    /\ lock' = LocksCleared
    /\ UNCHANGED <<events, public, rows, world, check>>

\* (faulty variant: only the untracked ones)
Untracked == {l \in Labels : work[l] # "none" /\ index[l] = "none"}

\* Files of batch_commits/ that are untracked or differ from the index
Stragglers == {l \in Labels : work[l] # index[l]}

Sweeping == stamp.at = "sweep" /\ Stragglers # {}

AfterSweep == IF stamp.pending = {} THEN "push" ELSE "files"

Add(S) == index' = [l \in Labels |-> IF l \in S THEN work[l] ELSE index[l]]

Sweep ==
    /\ stamp.at = "sweep"
    /\ IF Sweeping /\ lock["public"] = "free"
         THEN Add(Stragglers) /\ stamp' = [stamp EXCEPT !.at = "sweepCommit"]
         ELSE UNCHANGED index /\ stamp' = [stamp EXCEPT !.at = AfterSweep]
    /\ UNCHANGED <<events, work, head, remote, text, rows, world, lock, check>>

\* A commit takes the whole index.
SweepCommit ==
    /\ stamp.at = "sweepCommit"
    /\ head' = index
    /\ stamp' = [stamp EXCEPT !.at = AfterSweep]
    /\ UNCHANGED <<events, work, index, remote, text, rows, world, lock, check>>

\* (faulty variant: a proof with a path is taken for done)
GatheredOnce(p) == IF p \in named THEN {} ELSE {PathOf[p]}

\* The file of a proof is to be committed whether or not an earlier run named it.
Gathered(p) == {PathOf[p]}

\* A file that exists is not written again. It is taken to be written whole: a death
\* inside write_text, after which an empty file would be kept, is left out.
WriteEvent ==
    /\ stamp.at = "files" /\ stamp.todo # {}
    /\ LET p == First(stamp.todo)
           f == PathOf[p]
       IN  /\ named' = named \cup {p}
           /\ files' = IF files[f] = 0 THEN [files EXCEPT ![f] = p] ELSE files
           /\ stamp' = [stamp EXCEPT !.todo = @ \ {p}, !.paths = @ \cup Gathered(p)]
    /\ UNCHANGED <<staged, trees, public, rows, world, lock, check>>

FilesWritten ==
    /\ stamp.at = "files" /\ stamp.todo = {}
    /\ stamp' = IF stamp.paths = {} THEN NoStamp ELSE [stamp EXCEPT !.at = "add"]
    /\ UNCHANGED <<events, public, rows, world, lock, check>>

AddEvents ==
    /\ stamp.at = "add"
    /\ IF lock["events"] = "free"
         THEN /\ staged' = [f \in Paths |-> IF f \in stamp.paths THEN files[f] ELSE staged[f]]
              /\ stamp' = [stamp EXCEPT !.at = "commit"]
         ELSE UNCHANGED staged /\ stamp' = NoStamp
    /\ UNCHANGED <<named, files, trees, public, rows, world, lock, check>>

CommitEvents ==
    /\ stamp.at = "commit"
    /\ trees' = Append(trees, staged)
    /\ stamp' = [stamp EXCEPT !.at = "hash", !.commit = Len(trees) + 1]
    /\ UNCHANGED <<named, files, staged, public, rows, world, lock, check>>

WriteHash ==
    /\ stamp.at = "hash"
    /\ \E l \in Labels :
           /\ work[l] = "none" /\ \A k \in Labels : k < l => work[k] # "none"
           /\ work' = [work EXCEPT ![l] = "text"]
           /\ text' = [text EXCEPT ![l] = stamp.commit]
           /\ stamp' = [stamp EXCEPT !.at = "ots", !.label = l]
    /\ UNCHANGED <<events, index, head, remote, rows, world, lock, check>>

Ots ==
    /\ stamp.at = "ots"
    /\ work' = [work EXCEPT ![stamp.label] = "pending"]
    /\ stamp' = [stamp EXCEPT !.at = "otsAdd"]
    /\ UNCHANGED <<events, index, head, remote, text, rows, world, lock, check>>

\* Failures of this commit are only logged.
OtsAdd ==
    /\ stamp.at = "otsAdd"
    /\ IF lock["public"] = "free"
         THEN Add({stamp.label}) /\ stamp' = [stamp EXCEPT !.at = "otsCommit"]
         ELSE UNCHANGED index /\ stamp' = [stamp EXCEPT !.at = "record"]
    /\ UNCHANGED <<events, work, head, remote, text, rows, world, lock, check>>

OtsCommit ==
    /\ stamp.at = "otsCommit"
    /\ head' = index
    /\ stamp' = [stamp EXCEPT !.at = "record"]
    /\ UNCHANGED <<events, work, index, remote, text, rows, world, lock, check>>

\* (faulty variant: all that have no batch when the batch is recorded)
LinkedLate == Unbatched

\* The proofs of the batch: those the run began with
Linked == stamp.pending

Record ==
    /\ stamp.at = "record"
    /\ batch' = [batch EXCEPT ![stamp.label] =
          [commit |-> stamp.commit, ots |-> work[stamp.label], verified |-> FALSE, block |-> FALSE]]
    /\ batchOf' = [p \in Proofs |-> IF p \in Linked THEN stamp.label ELSE batchOf[p]]
    /\ stamp' = [stamp EXCEPT !.at = "push"]
    /\ UNCHANGED <<events, public, world, lock, check>>

StampPush ==
    /\ stamp.at = "push"
    /\ remote' = head
    /\ stamp' = NoStamp
    /\ UNCHANGED <<events, work, index, head, text, rows, world, lock, check>>

-----------------------------------------------------------------------------
(* verify_ots_batches *)

Unverified == {l \in Labels : batch[l] # NoBatch /\ ~batch[l].verified}

\* The oldest of them, verifiable or not: newer ones wait.
Checkable == {l \in Unverified : Cardinality({k \in Unverified : k < l}) < CheckLimit}

CheckStart ==
    /\ check.at = "idle"
    /\ check' = IF Checkable = {} THEN NoCheck
                 ELSE [at |-> "upgrade", todo |-> Checkable, changed |-> {}]
    /\ lock' = LocksCleared
    /\ UNCHANGED <<events, public, rows, world, stamp>>

Checked == First(check.todo)

Upgrade ==
    /\ check.at = "upgrade"
    /\ IF Checked \in attested /\ work[Checked] = "pending"
         THEN /\ work' = [work EXCEPT ![Checked] = "complete"]
              /\ check' = [check EXCEPT !.at = "save"]
         ELSE UNCHANGED work /\ check' = [check EXCEPT !.at = "verify"]
    /\ UNCHANGED <<events, index, head, remote, text, rows, world, lock, stamp>>

SaveProof ==
    /\ check.at = "save"
    /\ batch' = [batch EXCEPT ![Checked].ots = "complete"]
    /\ check' = [check EXCEPT !.at = "verify", !.changed = @ \cup {Checked}]
    /\ UNCHANGED <<events, public, batchOf, world, lock, stamp>>

AfterCheck ==
    LET rest == check.todo \ {Checked} IN
    [check EXCEPT !.todo = rest,
                  !.at = IF rest # {} THEN "upgrade" ELSE IF check.changed # {} THEN "add" ELSE "push"]

\* The local node verifies the stamp, unless it is behind; the block that a
\* complete stamp attests is stored anyway.
Verify ==
    /\ check.at = "verify"
    /\ \E node \in BOOLEAN :
          LET verified == node /\ Checked \in attested IN
          batch' = [batch EXCEPT ![Checked].verified = verified,
                                 ![Checked].block = @ \/ verified \/ work[Checked] = "complete"]
    /\ check' = AfterCheck
    /\ UNCHANGED <<events, public, batchOf, world, lock, stamp>>

CheckAdd ==
    /\ check.at = "add"
    /\ IF lock["public"] = "free"
         THEN Add(check.changed) /\ check' = [check EXCEPT !.at = "commit"]
         ELSE UNCHANGED index /\ check' = [check EXCEPT !.at = "push"]
    /\ UNCHANGED <<events, work, head, remote, text, rows, world, lock, stamp>>

CheckCommit ==
    /\ check.at = "commit"
    /\ head' = index
    /\ check' = [check EXCEPT !.at = "push"]
    /\ UNCHANGED <<events, work, index, remote, text, rows, world, lock, stamp>>

CheckPush ==
    /\ check.at = "push"
    /\ remote' = head
    /\ check' = NoCheck
    /\ UNCHANGED <<events, work, index, head, text, rows, world, lock, stamp>>

-----------------------------------------------------------------------------
(* Failures and deaths *)

Fault == faults < MaxFaults /\ faults' = faults + 1

\* A run that dies in an add may leave the lock, one that dies over an event
\* file may have named it.
StampDies ==
    /\ stamp.at # "idle"
    /\ Fault
    /\ \/ UNCHANGED <<lock, named>>
       \/ /\ stamp.at \in {"add", "otsAdd"} \/ Sweeping
          /\ LET r == IF stamp.at = "add" THEN "events" ELSE "public" IN
             lock[r] = "free" /\ lock' = [lock EXCEPT ![r] = "left"]
          /\ UNCHANGED named
       \/ /\ stamp.at = "files" /\ stamp.todo # {}
          /\ named' = named \cup {First(stamp.todo)}
          /\ UNCHANGED lock
    /\ stamp' = NoStamp
    /\ UNCHANGED <<files, staged, trees, public, rows, made, attested, check>>

CheckDies ==
    /\ check.at # "idle"
    /\ Fault
    /\ \/ UNCHANGED lock
       \/ check.at = "add" /\ lock["public"] = "free" /\ lock' = [lock EXCEPT !["public"] = "left"]
    /\ check' = NoCheck
    /\ UNCHANGED <<events, public, rows, made, attested, stamp>>

\* (faulty variant: the run goes on without a stamp)
OtsFailsUnseen ==
    /\ stamp.at = "ots"
    /\ Fault
    /\ stamp' = [stamp EXCEPT !.at = "otsAdd"]
    /\ UNCHANGED <<events, public, rows, made, attested, lock, check>>

\* No calendar answers: the run ends without a batch.
OtsFails ==
    /\ stamp.at = "ots"
    /\ Fault
    /\ stamp' = NoStamp
    /\ UNCHANGED <<events, public, rows, made, attested, lock, check>>

\* A git command fails: the events commit ends the run, the others are logged.
StampGitFails ==
    /\ Fault
    /\ \/ /\ stamp.at = "sweepCommit" \/ Sweeping
          /\ stamp' = [stamp EXCEPT !.at = AfterSweep]
       \/ stamp.at \in {"add", "commit", "push"} /\ stamp' = NoStamp
       \/ stamp.at \in {"otsAdd", "otsCommit"} /\ stamp' = [stamp EXCEPT !.at = "record"]
    /\ UNCHANGED <<events, public, rows, made, attested, lock, check>>

CheckGitFails ==
    /\ Fault
    /\ \/ check.at \in {"add", "commit"} /\ check' = [check EXCEPT !.at = "push"]
       \/ check.at = "push" /\ check' = NoCheck
    /\ UNCHANGED <<events, public, rows, made, attested, lock, stamp>>

-----------------------------------------------------------------------------
(* Everybody else *)

\* A signal handler creates a pending proof.
Create ==
    /\ made < N
    /\ made' = made + 1
    /\ UNCHANGED <<events, public, rows, attested, faults, lock, stamp, check>>

Attest(l) ==
    /\ work[l] = "pending"
    /\ attested' = attested \cup {l}
    /\ UNCHANGED <<events, public, rows, made, faults, lock, stamp, check>>

\* The keyring or the federation registry commits to the public repository.
OthersCommit ==
    /\ lock["public"] # "left"
    /\ lock' = [lock EXCEPT !["public"] = "free"]
    /\ head' = index
    /\ UNCHANGED <<events, work, index, remote, text, rows, world, stamp, check>>

OthersDie ==
    /\ lock["public"] = "free"
    /\ Fault
    /\ lock' = [lock EXCEPT !["public"] = "left"]
    /\ UNCHANGED <<events, public, rows, made, attested, stamp, check>>

\* Ten minutes later
LockAges(r) ==
    /\ lock[r] = "left"
    /\ lock' = [lock EXCEPT ![r] = "stale"]
    /\ UNCHANGED <<events, public, rows, world, stamp, check>>

-----------------------------------------------------------------------------
StampStep ==
    \/ StampStart \/ Sweep \/ SweepCommit
    \/ WriteEvent \/ FilesWritten \/ AddEvents \/ CommitEvents
    \/ WriteHash \/ Ots \/ OtsAdd \/ OtsCommit \/ Record \/ StampPush

CheckStep ==
    CheckStart \/ Upgrade \/ SaveProof \/ Verify \/ CheckAdd \/ CheckCommit \/ CheckPush

Next ==
    \/ StampStep
    \/ CheckStep
    \/ StampDies \/ CheckDies \/ OtsFails \/ StampGitFails \/ CheckGitFails
    \/ Create \/ OthersCommit \/ OthersDie
    \/ \E l \in Labels : Attest(l)
    \/ \E r \in Repos : LockAges(r)

\* The timers start the jobs again and again, every command has a timeout, and
\* a lock that nobody holds grows old.
Fairness ==
    /\ WF_vars(StampStep)
    /\ WF_vars(CheckStep)
    /\ \A r \in Repos : WF_vars(LockAges(r))

Spec == Init /\ [][Next]_vars /\ Fairness

-----------------------------------------------------------------------------
(* Properties *)

\* A batch anchors every proof that is linked to it: the stamped file names the
\* commit of the batch, and the tree of that commit has the proof's event file.
\* (A file shared by two proofs of one object and day holds the first one's data.)
BatchHoldsItsEvents ==
    \A p \in Proofs : batchOf[p] # 0 =>
        LET b == batch[batchOf[p]] IN
        /\ text[batchOf[p]] = b.commit
        /\ trees[b.commit][PathOf[p]] # 0
        /\ PathOf[trees[b.commit][PathOf[p]]] = PathOf[p]

\* Whatever fails or dies a bounded number of times, at any step, no proof stays
\* pending for ever: the next runs take it up again.
EventuallyAnchored == \A p \in Proofs : [](p <= made => <>(batchOf[p] # 0))

\* What a failed run left in the working tree is added by a later one, and what
\* is committed is pushed.
NothingLeftBehind ==
    \A l \in Labels : []<>(index[l] = work[l]) /\ []<>(remote[l] = head[l])

-----------------------------------------------------------------------------
(* The inductive invariant *)

\* A file holds data of a proof it belongs to, in every copy.
Belongs(tree) == \A f \in Paths : tree[f] # 0 => PathOf[tree[f]] = f

FilesInv == Belongs(files) /\ Belongs(staged) /\ \A c \in 1 .. Len(trees) : Belongs(trees[c])

Holds(tree, S) == \A f \in S : tree[f] # 0

Committing == {"add", "commit", "hash", "ots", "otsAdd", "otsCommit", "record"}
Committed == {"hash", "ots", "otsAdd", "otsCommit", "record"}
Labelled == {"ots", "otsAdd", "otsCommit", "record"}

\* How far the files of the run have come
RunInv ==
    /\ Holds(files, stamp.paths)
    /\ \A p \in stamp.pending \ stamp.todo : PathOf[p] \in stamp.paths
    /\ stamp.at \in Committing => stamp.todo = {}
    /\ stamp.at = "commit" => Holds(staged, stamp.paths)
    /\ stamp.at \in Committed =>
          stamp.commit \in 1 .. Len(trees) /\ Holds(trees[stamp.commit], stamp.paths)

\* The label of the run is its own until the batch is recorded.
LabelInv ==
    /\ \A l \in Labels : work[l] = "none" => batch[l] = NoBatch
    /\ stamp.at \in Labelled =>
          /\ stamp.label # 0 /\ work[stamp.label] # "none"
          /\ text[stamp.label] = stamp.commit /\ batch[stamp.label] = NoBatch
    /\ stamp.at \in {"otsAdd", "otsCommit", "record"} => work[stamp.label] \in {"pending", "complete"}

CheckInv ==
    /\ check.at \in {"upgrade", "save", "verify"} => check.todo # {}
    /\ \A l \in check.todo : batch[l] # NoBatch

CommitsExist ==
    \A p \in Proofs : batchOf[p] # 0 =>
        batch[batchOf[p]] # NoBatch /\ batch[batchOf[p]].commit \in 1 .. Len(trees)

Inv ==
    /\ TypeOK /\ FilesInv /\ RunInv /\ LabelInv /\ CheckInv
    /\ CommitsExist /\ BatchHoldsItsEvents

=============================================================================
