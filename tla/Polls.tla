-------------------------------- MODULE Polls --------------------------------
(***************************************************************************)
(* One identified poll of the governance app: ballots, per-poll            *)
(* delegations, the hash-chained audit log and the closing of the poll.    *)
(*                                                                         *)
(* PostgreSQL runs at READ COMMITTED and no request is wrapped in a        *)
(* transaction by default, so a request handler is three steps:            *)
(*   - the reads it makes before it opens its transaction,                 *)
(*   - the opening of the transaction: row locks, checks, the read of the  *)
(*     previous log entry, all against committed rows,                     *)
(*   - the commit, which makes its writes visible.                         *)
(* cast_vote and create_delegation hold the poll's row lock from the       *)
(* second step to the third; revoke_delegation does not.                   *)
(***************************************************************************)
EXTENDS PollTally

CONSTANTS
    Requests,   \* request handlers that may run at the same time
    Closers,    \* page reads and timer runs that close overdue polls
    MaxLog      \* bound: log entries ever started

ASSUME MaxLogAssumption == MaxLog \in Nat \ {0}

VARIABLES
    status,     \* Poll.status; create_poll stores ACTIVE at once
    overdue,    \* timezone.now() > Poll.end_time
    ballot,     \* PollVote rows: the option each profile voted for
    delegate,   \* PollVoteDelegation rows with is_active = True
    log,        \* PollAuditLog rows; id is the order of their timestamps
    clock,      \* timestamps handed out so far
    root,       \* Poll.merkle_root
    req,        \* what each request handler is doing
    closer      \* what each closing handler is doing

vars == <<status, overdue, ballot, delegate, log, clock, root, req, closer>>

Kinds == {"vote", "delegate", "revoke"}

\* 0 is "no entry": the previous_log_hash of the first entry, an unset root.
LogId == 0 .. MaxLog

LogEntry == [id : LogId, prev : LogId, kind : Kinds \cup {"poll_created"}]

Request == [pc : {"idle", "read", "tx"}, kind : Kinds, voter : Voters \cup {NoOne},
            arg : Voters \cup Options \cup {NoOne}, prev : LogId, id : LogId]

Closer == [pc : {"idle", "read", "ended", "snapshot"}, root : LogId]

TypeOK ==
    /\ status \in {"active", "ended"}
    /\ overdue \in BOOLEAN
    /\ ballot \in [Voters -> Options \cup {NoOne}]
    /\ delegate \in [Voters -> Voters \cup {NoOne}]
    /\ log \in SUBSET LogEntry
    /\ clock \in LogId
    /\ root \in LogId
    /\ req \in [Requests -> Request]
    /\ closer \in [Closers -> Closer]

-----------------------------------------------------------------------------
(* Rows and locks *)

\* The poll's row is held by an open vote or delegation transaction.
Locked(r) == req[r].pc = "tx" /\ req[r].kind \in {"vote", "delegate"}

PollRowLocked == \E r \in Requests : Locked(r)

\* (faulty variant: no row lock)
NoPollRowLock == TRUE

\* select_for_update waits for the row; so does every UPDATE of it.
PollRowFree == ~PollRowLocked

\* The delegation row of v is held by an open transaction that writes it.
DelegationRowFree(v) ==
    \A r \in Requests :
        ~ (req[r].pc = "tx" /\ req[r].voter = v /\ req[r].kind \in {"delegate", "revoke"})

\* PollAuditLog.objects.filter(poll=poll).order_by('-timestamp').first()
Latest == CHOOSE i \in {e.id : e \in log} : \A e \in log : e.id <= i

-----------------------------------------------------------------------------
(* check_can_vote and check_can_delegate; the status they test was read    *)
(* before the lock, so it is a guard of the read step.                     *)

\* (faulty variant: the delegation is not looked up)
CanVoteWithDelegation(v) ==
    /\ ~overdue
    /\ ballot[v] = NoOne

\* (faulty variant: only the status read before the lock closes the poll)
CanVoteLate(v) ==
    /\ ballot[v] = NoOne
    /\ delegate[v] = NoOne

CanVote(v) ==
    /\ ~overdue
    /\ ballot[v] = NoOne
    /\ delegate[v] = NoOne

\* (faulty variant: the chain is not walked)
CanDelegateInCircle(v, d) ==
    /\ ~overdue
    /\ v # d
    /\ ballot[v] = NoOne

CanDelegate(v, d) ==
    /\ ~overdue
    /\ v # d
    /\ ballot[v] = NoOne
    /\ ChainEnds([delegate EXCEPT ![v] = d], v)

-----------------------------------------------------------------------------
(* Requests *)

Idle == [pc |-> "idle", kind |-> "vote", voter |-> NoOne, arg |-> NoOne, prev |-> 0, id |-> 0]

\* The handler loads the poll, and revoke_delegation its delegation row too.
Read(r, v, kind, arg) ==
    /\ req[r].pc = "idle"
    /\ status = "active"
    /\ kind = "revoke" => delegate[v] # NoOne
    /\ req' = [req EXCEPT ![r] =
                 [pc |-> "read", kind |-> kind, voter |-> v, arg |-> arg, prev |-> 0, id |-> 0]]
    /\ UNCHANGED <<status, overdue, ballot, delegate, log, clock, root, closer>>

\* A transaction opens: what it will write is fixed, with its log entry's
\* predecessor and timestamp, and nothing is visible before the commit.
Open(r) ==
    /\ clock < MaxLog
    /\ clock' = clock + 1
    /\ req' = [req EXCEPT ![r].pc = "tx", ![r].prev = Latest, ![r].id = clock + 1]
    /\ UNCHANGED <<status, overdue, ballot, delegate, log, root, closer>>

OpenVote(r) ==
    /\ req[r].pc = "read" /\ req[r].kind = "vote"
    /\ PollRowFree
    /\ CanVote(req[r].voter)
    /\ Open(r)

OpenDelegate(r) ==
    /\ req[r].pc = "read" /\ req[r].kind = "delegate"
    /\ PollRowFree
    /\ DelegationRowFree(req[r].voter)
    /\ CanDelegate(req[r].voter, req[r].arg)
    /\ Open(r)

OpenRevoke(r) ==
    /\ req[r].pc = "read" /\ req[r].kind = "revoke"
    /\ DelegationRowFree(req[r].voter)
    /\ Open(r)

\* A failed check answers 400; a dropped connection or a killed worker rolls
\* the transaction back. Either way nothing was written.
GiveUp(r) ==
    /\ req[r].pc # "idle"
    /\ req' = [req EXCEPT ![r] = Idle]
    /\ UNCHANGED <<status, overdue, ballot, delegate, log, clock, root, closer>>

\* (faulty variant: the timestamp is taken again when the row is saved)
RestampedEntry(r) == [id |-> clock + 1, prev |-> req[r].prev, kind |-> req[r].kind]

NewEntry(r) == [id |-> req[r].id, prev |-> req[r].prev, kind |-> req[r].kind]

CommitVote(r) ==
    /\ req[r].pc = "tx" /\ req[r].kind = "vote"
    /\ ballot' = [ballot EXCEPT ![req[r].voter] = req[r].arg]
    /\ log' = log \cup {NewEntry(r)}
    /\ req' = [req EXCEPT ![r] = Idle]
    /\ UNCHANGED <<status, overdue, delegate, clock, root, closer>>

\* update_or_create: one row per (poll, delegator), switched on again.
CommitDelegate(r) ==
    /\ req[r].pc = "tx" /\ req[r].kind = "delegate"
    /\ delegate' = [delegate EXCEPT ![req[r].voter] = req[r].arg]
    /\ log' = log \cup {NewEntry(r)}
    /\ req' = [req EXCEPT ![r] = Idle]
    /\ UNCHANGED <<status, overdue, ballot, clock, root, closer>>

\* Its log row refers to the poll: the deferred foreign-key check waits for the
\* poll's row at commit.
CommitRevoke(r) ==
    /\ req[r].pc = "tx" /\ req[r].kind = "revoke"
    /\ PollRowFree
    /\ delegate' = [delegate EXCEPT ![req[r].voter] = NoOne]
    /\ log' = log \cup {NewEntry(r)}
    /\ req' = [req EXCEPT ![r] = Idle]
    /\ UNCHANGED <<status, overdue, ballot, clock, root, closer>>

-----------------------------------------------------------------------------
(* Closing: get_poll, _maybe_update_poll_statuses and governance_tick      *)

Expire ==
    /\ ~overdue
    /\ overdue' = TRUE
    /\ UNCHANGED <<status, ballot, delegate, log, clock, root, req, closer>>

\* (faulty variant: end_time is compared the wrong way round)
CloserReadSwapped(c) ==
    /\ closer[c].pc = "idle"
    /\ status = "active" /\ ~overdue
    /\ closer' = [closer EXCEPT ![c].pc = "read"]
    /\ UNCHANGED <<status, overdue, ballot, delegate, log, clock, root, req>>

\* The list of polls to end is read first ...
CloserRead(c) ==
    /\ closer[c].pc = "idle"
    /\ status = "active" /\ overdue
    /\ closer' = [closer EXCEPT ![c].pc = "read"]
    /\ UNCHANGED <<status, overdue, ballot, delegate, log, clock, root, req>>

\* ... and their status updated after, once the row is free.
CloserEnd(c) ==
    /\ closer[c].pc = "read"
    /\ PollRowFree
    /\ status' = "ended"
    /\ closer' = [closer EXCEPT ![c].pc = "ended"]
    /\ UNCHANGED <<overdue, ballot, delegate, log, clock, root, req>>

\* finalize_poll: verify_merkle_chain only logs a warning.
CloserSnapshot(c) ==
    /\ closer[c].pc = "ended"
    /\ closer' = [closer EXCEPT ![c] =
                    IF root # 0 THEN [pc |-> "idle", root |-> 0]
                                ELSE [pc |-> "snapshot", root |-> Latest]]
    /\ UNCHANGED <<status, overdue, ballot, delegate, log, clock, root, req>>

\* "Only set if still empty (atomic CAS)"
CloserCommit(c) ==
    /\ closer[c].pc = "snapshot"
    /\ PollRowFree
    /\ root' = IF root = 0 THEN closer[c].root ELSE root
    /\ closer' = [closer EXCEPT ![c] = [pc |-> "idle", root |-> 0]]
    /\ UNCHANGED <<status, overdue, ballot, delegate, log, clock, req>>

\* The worker dies between two of its statements, each its own transaction.
CloserCrash(c) ==
    /\ closer[c].pc # "idle"
    /\ closer' = [closer EXCEPT ![c] = [pc |-> "idle", root |-> 0]]
    /\ UNCHANGED <<status, overdue, ballot, delegate, log, clock, root, req>>

-----------------------------------------------------------------------------
\* create_poll: the rows and the first log entry commit together.
Init ==
    /\ status = "active"
    /\ overdue = FALSE
    /\ ballot = [v \in Voters |-> NoOne]
    /\ delegate = [v \in Voters |-> NoOne]
    /\ log = {[id |-> 1, prev |-> 0, kind |-> "poll_created"]}
    /\ clock = 1
    /\ root = 0
    /\ req = [r \in Requests |-> Idle]
    /\ closer = [c \in Closers |-> [pc |-> "idle", root |-> 0]]

ReadVote(r) == \E v \in Voters, o \in Options : Read(r, v, "vote", o)
ReadDelegate(r) == \E v, d \in Voters : Read(r, v, "delegate", d)
ReadRevoke(r) == \E v \in Voters : Read(r, v, "revoke", NoOne)

RequestStep(r) ==
    \/ ReadVote(r) \/ ReadDelegate(r) \/ ReadRevoke(r)
    \/ OpenVote(r) \/ OpenDelegate(r) \/ OpenRevoke(r)
    \/ CommitVote(r) \/ CommitDelegate(r) \/ CommitRevoke(r)
    \/ GiveUp(r)

CloserStep(c) ==
    \/ CloserRead(c) \/ CloserEnd(c) \/ CloserSnapshot(c) \/ CloserCommit(c)
    \/ CloserCrash(c)

Next ==
    \/ \E r \in Requests : RequestStep(r)
    \/ \E c \in Closers : CloserStep(c)
    \/ Expire

Spec == Init /\ [][Next]_vars

\* A transaction ends, one way or the other; the timer comes back, and with it
\* the UPDATE that waits for the poll's row, which its holders give up in turn.
Fairness ==
    /\ \A r \in Requests :
          WF_vars(CommitVote(r) \/ CommitDelegate(r) \/ CommitRevoke(r) \/ GiveUp(r))
    /\ \A c \in Closers : WF_vars(CloserRead(c)) /\ SF_vars(CloserEnd(c))

FairSpec == Spec /\ Fairness

-----------------------------------------------------------------------------
(* Properties *)

\* No profile speaks twice: check_can_vote and check_can_delegate test the
\* other table inside the poll's row lock, so concurrent vote and delegation
\* requests of one profile leave it with a ballot or a delegate, never both.
OneVoice == \A v \in Voters : ballot[v] = NoOne \/ delegate[v] = NoOne

\* Delegations never close a circle, however create_delegation requests
\* interleave with each other and with revocations.
NoCircle == Acyclic(delegate)

\* Two entries written under the poll's row lock never share a predecessor:
\* the later one follows the earlier one, or something logged after it.
LockedEntriesNeverFork ==
    \A e, f \in log :
        e.kind # "revoke" /\ f.kind # "revoke" /\ e.id < f.id => e.id <= f.prev

\* The root that finalize_poll stores covers every ballot and delegation of
\* the poll: none was still uncommitted when the root was read, and none is
\* added afterwards, although cast_vote tests a status it read before.
RootCoversBallots ==
    root # 0 => \A e \in log : e.kind \in {"vote", "delegate"} => e.id <= root

\* Once a poll is ended its ballots are fixed.
BallotsFixedAfterEnd == [][status = "ended" => UNCHANGED <<ballot, status>>]_vars

\* A poll whose time is up is ended, though workers die on the way and requests
\* that began in time keep taking its row lock.
OverduePollEnds == overdue ~> status = "ended"

\* What verify_merkle_chain tests: each entry follows the one before it.
ChainIsLinear ==
    \A e \in log : e.prev = IF \E f \in log : f.id < e.id
                            THEN CHOOSE i \in {f.id : f \in log} :
                                    i < e.id /\ \A f \in log : f.id < e.id => f.id <= i
                            ELSE 0

-----------------------------------------------------------------------------
(* The inductive invariant *)

\* At most one transaction holds the poll's row.
RowLockInv == \A r, s \in Requests : Locked(r) /\ Locked(s) => r = s

\* What check_can_vote and check_can_delegate established still holds when the
\* transaction commits.
ChecksInv ==
    \A r \in Requests :
        /\ req[r].pc # "idle" =>
              /\ req[r].voter \in Voters
              /\ req[r].kind = "vote" => req[r].arg \in Options
              /\ req[r].kind = "delegate" => req[r].arg \in Voters
        /\ req[r].pc = "tx" => req[r].id # 0
        /\ Locked(r) =>
              /\ ballot[req[r].voter] = NoOne
              /\ req[r].kind = "vote" => delegate[req[r].voter] = NoOne

LogInv ==
    /\ \E m \in log : \A e \in log : e.id <= m.id
    /\ \A e \in log : e.id # 0 /\ e.id <= clock
    /\ \A r \in Requests : req[r].id <= clock
    /\ \A r \in Requests, e \in log :
          Locked(r) /\ e.kind # "revoke" => e.id < req[r].id /\ e.id <= req[r].prev

\* The graph a delegation was checked in only loses edges until it commits.
CircleInv ==
    \A r \in Requests :
        Locked(r) /\ req[r].kind = "delegate" =>
            Acyclic([delegate EXCEPT ![req[r].voter] = req[r].arg])

ClosingInv ==
    /\ \A c \in Closers : closer[c].pc = "read" => overdue
    /\ \A c \in Closers : closer[c].pc \in {"ended", "snapshot"} => status = "ended"
    /\ \A c \in Closers : closer[c].pc = "snapshot" =>
          \A e \in log : e.kind \in {"vote", "delegate"} => e.id <= closer[c].root
    /\ root # 0 => status = "ended"
    /\ status = "ended" => overdue /\ ~PollRowLocked

Inv ==
    /\ TypeOK /\ OneVoice /\ RowLockInv /\ ChecksInv /\ LogInv
    /\ ClosingInv /\ LockedEntriesNeverFork /\ RootCoversBallots
=============================================================================
