----------------------------- MODULE PollsProofs -----------------------------
(***************************************************************************)
(* Inv is an inductive invariant of Polls, for every set of profiles,      *)
(* options, request handlers and closing handlers and every bound.         *)
(***************************************************************************)
EXTENDS Polls, WellFoundedInduction, TLAPS

USE DEF LogId, Kinds

\* In every state of Inv the log has a latest entry, and it is an upper bound.
LEMMA LatestIsMax ==
    ASSUME TypeOK, LogInv
    PROVE  /\ Latest \in LogId \ {0} /\ Latest <= clock
           /\ \A e \in log : e.id <= Latest
<1>1. PICK m \in log : \A e \in log : e.id <= m.id
  BY DEF LogInv
<1>2. m.id \in {e.id : e \in log} /\ \A e \in log : e.id <= m.id
  BY <1>1
<1>3. Latest \in {e.id : e \in log} /\ \A e \in log : e.id <= Latest
  BY <1>2 DEF Latest
<1>4. \A e \in log : e.id \in LogId /\ e.id # 0 /\ e.id <= clock
  BY DEF TypeOK, LogInv, LogEntry
<1> QED
  BY <1>3, <1>4

\* create_poll leaves a poll, and its audit log, in order.
LEMMA InitInv == Init => Inv
<1> SUFFICES ASSUME Init PROVE Inv
  OBVIOUS
<1> USE DEF Init, Idle
<1>0. 0 \in LogId /\ 1 \in LogId
  BY MaxLogAssumption
<1>1. TypeOK
  <2>1. ballot \in [Voters -> Options \cup {NoOne}] /\ delegate \in [Voters -> Voters \cup {NoOne}]
    OBVIOUS
  <2>2. log \in SUBSET LogEntry
    BY <1>0 DEF LogEntry
  <2>3. req \in [Requests -> Request]
    BY <1>0 DEF Request
  <2>4. closer \in [Closers -> Closer]
    BY <1>0 DEF Closer
  <2> QED
    BY <1>0, <2>1, <2>2, <2>3, <2>4 DEF TypeOK
<1>2. OneVoice
  BY DEF OneVoice
<1>3. RowLockInv /\ ChecksInv
  BY DEF RowLockInv, ChecksInv, Locked
<1>4. LogInv
  BY DEF LogInv, Locked
<1>5. ClosingInv
  BY DEF ClosingInv
<1>6. LockedEntriesNeverFork /\ RootCoversBallots
  BY DEF LockedEntriesNeverFork, RootCoversBallots
<1> QED
  BY <1>1, <1>2, <1>3, <1>4, <1>5, <1>6 DEF Inv

\* A read starts a request that holds nothing yet.
LEMMA ReadKeepsInv ==
    ASSUME Inv, NEW r \in Requests, ReadVote(r) \/ ReadDelegate(r) \/ ReadRevoke(r)
    PROVE  Inv'
<1>1. PICK v \in Voters, kind \in Kinds, arg \in Voters \cup Options \cup {NoOne} :
        /\ Read(r, v, kind, arg)
        /\ kind = "vote" => arg \in Options
        /\ kind = "delegate" => arg \in Voters
  BY DEF ReadVote, ReadDelegate, ReadRevoke
<1>2. /\ UNCHANGED <<status, overdue, ballot, delegate, log, clock, root, closer>>
      /\ req' = [req EXCEPT ![r] =
                 [pc |-> "read", kind |-> kind, voter |-> v, arg |-> arg, prev |-> 0, id |-> 0]]
  BY <1>1 DEF Read
<1>3. TypeOK'
  <2>1. 0 \in LogId
    BY MaxLogAssumption
  <2>2. [pc |-> "read", kind |-> kind, voter |-> v, arg |-> arg, prev |-> 0, id |-> 0] \in Request
    BY <2>1 DEF Request
  <2>3. req' \in [Requests -> Request]
    BY <1>2, <2>2 DEF Inv, TypeOK
  <2> QED
    BY <1>2, <2>3 DEF Inv, TypeOK
<1>4. \A s \in Requests : Locked(s)' => s # r /\ Locked(s) /\ req'[s] = req[s]
  BY <1>2 DEF Inv, TypeOK, Locked
<1>5. RowLockInv' /\ OneVoice'
  BY <1>2, <1>4 DEF Inv, RowLockInv, OneVoice
<1>6. ChecksInv'
  BY <1>1, <1>2 DEF Inv, TypeOK, ChecksInv, Locked
<1>7. LogInv'
  BY <1>2, <1>4 DEF Inv, TypeOK, LogInv
<1>8. ClosingInv'
  <2>1. (status = "ended" => ~PollRowLocked)'
    BY <1>2, <1>4 DEF Inv, ClosingInv, PollRowLocked
  <2> QED
    BY <1>2, <2>1 DEF Inv, ClosingInv
<1>9. LockedEntriesNeverFork' /\ RootCoversBallots'
  BY <1>2 DEF Inv, LockedEntriesNeverFork, RootCoversBallots
<1> QED
  BY <1>3, <1>5, <1>6, <1>7, <1>8, <1>9 DEF Inv

\* A transaction that opens under the poll's row lock is alone, and its log
\* entry will follow everything committed so far.
LEMMA OpenKeepsInv ==
    ASSUME Inv, NEW r \in Requests, OpenVote(r) \/ OpenDelegate(r) \/ OpenRevoke(r)
    PROVE  Inv'
<1> USE DEF Open
<1>1. /\ UNCHANGED <<status, overdue, ballot, delegate, log, root, closer>>
      /\ clock < MaxLog /\ clock' = clock + 1
      /\ req' = [req EXCEPT ![r].pc = "tx", ![r].prev = Latest, ![r].id = clock + 1]
      /\ req[r].pc = "read"
  BY DEF OpenVote, OpenDelegate, OpenRevoke
<1>2. \/ /\ req[r].kind \in {"vote", "delegate"} /\ ~PollRowLocked /\ ~overdue
         /\ ballot[req[r].voter] = NoOne
         /\ req[r].kind = "vote" => delegate[req[r].voter] = NoOne
      \/ req[r].kind = "revoke"
  BY DEF OpenVote, OpenDelegate, OpenRevoke, PollRowFree, CanVote, CanDelegate
<1>3. /\ Latest \in LogId \ {0} /\ Latest <= clock
      /\ \A e \in log : e.id <= Latest
  BY LatestIsMax DEF Inv
<1>4. clock \in Nat /\ clock + 1 \in LogId
  BY <1>1, MaxLogAssumption DEF Inv, TypeOK
<1>5. /\ req'[r].pc = "tx" /\ req'[r].kind = req[r].kind /\ req'[r].voter = req[r].voter
      /\ req'[r].arg = req[r].arg /\ req'[r].prev = Latest /\ req'[r].id = clock + 1
      /\ \A s \in Requests \ {r} : req'[s] = req[s]
  BY <1>1 DEF Inv, TypeOK, Request
<1>6. TypeOK'
  <2>1. [req[r] EXCEPT !.pc = "tx", !.prev = Latest, !.id = clock + 1] \in Request
    BY <1>3, <1>4 DEF Inv, TypeOK, Request
  <2>2. req' \in [Requests -> Request]
    BY <1>1, <2>1 DEF Inv, TypeOK
  <2> QED
    BY <1>1, <1>4, <2>2 DEF Inv, TypeOK
<1>7. /\ \A s \in Requests \ {r} : Locked(s)' <=> Locked(s)
      /\ Locked(r)' => \A s \in Requests : ~Locked(s)
  BY <1>2, <1>5 DEF Locked, PollRowLocked
<1>8. RowLockInv' /\ OneVoice'
  BY <1>1, <1>7 DEF Inv, RowLockInv, OneVoice
<1>9. ChecksInv'
  <2> SUFFICES ASSUME NEW s \in Requests
               PROVE  ChecksInv!(s)'
    BY DEF ChecksInv
  <2>1. CASE s = r
    BY <1>1, <1>2, <1>4, <1>5, <2>1 DEF Inv, ChecksInv, Locked
  <2>2. CASE s # r
    BY <1>1, <1>5, <2>2 DEF Inv, ChecksInv, Locked
  <2> QED
    BY <2>1, <2>2
<1>10. LogInv'
  <2>1. \A e \in log : e.id \in Nat
    BY DEF Inv, TypeOK, LogEntry
  <2>2. \A s \in Requests : req[s].id \in Nat
    BY DEF Inv, TypeOK, Request
  <2>3. \A e \in log : e.id <= Latest /\ e.id < clock + 1
    BY <1>3, <1>4, <2>1 DEF Inv, LogInv
  <2>4. (\E m \in log : \A e \in log : e.id <= m.id)' /\ (\A e \in log : e.id # 0 /\ e.id <= clock)'
    BY <1>1, <1>4, <2>1 DEF Inv, LogInv
  <2>5. (\A s \in Requests : req[s].id <= clock)'
    <3> SUFFICES ASSUME NEW s \in Requests PROVE req'[s].id <= clock + 1
      BY <1>1
    <3>1. req[s].id <= clock
      BY DEF Inv, LogInv
    <3> QED
      BY <1>4, <1>5, <2>2, <3>1
  <2>6. (\A s \in Requests, e \in log :
           Locked(s) /\ e.kind # "revoke" => e.id < req[s].id /\ e.id <= req[s].prev)'
    BY <1>1, <1>5, <1>7, <2>3 DEF Inv, LogInv
  <2> QED
    BY <2>4, <2>5, <2>6 DEF LogInv
<1>11. ClosingInv'
  <2>1. (status = "ended" => ~PollRowLocked)'
    BY <1>1, <1>2, <1>5, <1>7 DEF Inv, ClosingInv, PollRowLocked, Locked
  <2> QED
    BY <1>1, <2>1 DEF Inv, ClosingInv
<1>12. LockedEntriesNeverFork' /\ RootCoversBallots'
  BY <1>1 DEF Inv, LockedEntriesNeverFork, RootCoversBallots
<1> QED
  BY <1>6, <1>8, <1>9, <1>10, <1>11, <1>12 DEF Inv

\* A rollback drops what the request held.
LEMMA GiveUpKeepsInv ==
    ASSUME Inv, NEW r \in Requests, GiveUp(r)
    PROVE  Inv'
<1>1. /\ UNCHANGED <<status, overdue, ballot, delegate, log, clock, root, closer>>
      /\ req' = [req EXCEPT ![r] = Idle]
  BY DEF GiveUp
<1>2. TypeOK'
  BY <1>1, MaxLogAssumption DEF Inv, TypeOK, Request, Idle
<1>3. \A s \in Requests : Locked(s)' => s # r /\ Locked(s) /\ req'[s] = req[s]
  BY <1>1 DEF Inv, TypeOK, Locked, Idle
<1>4. \A s \in Requests : req'[s] = req[s] \/ req'[s] = Idle
  BY <1>1 DEF Inv, TypeOK
<1>5. RowLockInv' /\ OneVoice' /\ ChecksInv'
  BY <1>1, <1>3, <1>4 DEF Inv, RowLockInv, OneVoice, ChecksInv, Idle
<1>6. LogInv'
  BY <1>1, <1>3, <1>4 DEF Inv, TypeOK, LogInv, Idle
<1>7. ClosingInv'
  BY <1>1, <1>3 DEF Inv, ClosingInv, PollRowLocked
<1>8. LockedEntriesNeverFork' /\ RootCoversBallots'
  BY <1>1 DEF Inv, LockedEntriesNeverFork, RootCoversBallots
<1> QED
  BY <1>2, <1>5, <1>6, <1>7, <1>8 DEF Inv

\* What a commit does to the requests and the log, whoever commits.
LEMMA CommitKeepsLog ==
    ASSUME Inv, NEW r \in Requests, req[r].pc = "tx",
           req' = [req EXCEPT ![r] = Idle],
           log' = log \cup {NewEntry(r)},
           UNCHANGED <<status, overdue, clock, root, closer>>
    PROVE  /\ req' \in [Requests -> Request] /\ log' \in SUBSET LogEntry
           /\ \A s \in Requests : req'[s] = (IF s = r THEN Idle ELSE req[s])
           /\ RowLockInv' /\ LogInv' /\ LockedEntriesNeverFork'
<1>1. Idle \in Request
  BY MaxLogAssumption DEF Idle, Request
<1>2. req' \in [Requests -> Request]
  BY <1>1 DEF Inv, TypeOK
<1>3. NewEntry(r) \in LogEntry
  BY DEF Inv, TypeOK, NewEntry, LogEntry, Request
<1>4. log' \in SUBSET LogEntry
  BY <1>3 DEF Inv, TypeOK
<1>5. \A s \in Requests : req'[s] = (IF s = r THEN Idle ELSE req[s])
  BY DEF Inv, TypeOK
<1>6. \A s \in Requests : Locked(s)' => s # r /\ Locked(s)
  BY <1>5 DEF Locked, Idle
<1>7. RowLockInv'
  BY <1>6 DEF Inv, RowLockInv
<1>8. /\ NewEntry(r).id = req[r].id /\ NewEntry(r).prev = req[r].prev
      /\ NewEntry(r).kind = req[r].kind
      /\ req[r].id \in Nat /\ req[r].prev \in Nat /\ req[r].kind \in Kinds
  BY DEF NewEntry, Inv, TypeOK, Request
<1>9. \A e \in log : e.id \in Nat /\ e.prev \in Nat
  BY DEF Inv, TypeOK, LogEntry
<1>10. clock \in Nat /\ \A s \in Requests : req[s].id \in Nat /\ req[s].prev \in Nat
  BY DEF Inv, TypeOK, Request
<1>11. req[r].id # 0
  BY DEF Inv, ChecksInv
<1>12. LogInv'
  <2>1. (\E m \in log : \A e \in log : e.id <= m.id)'
    <3>1. PICK m \in log : \A e \in log : e.id <= m.id
      BY DEF Inv, LogInv
    <3>2. CASE m.id <= req[r].id
      BY <3>1, <3>2, <1>8, <1>9
    <3>3. CASE req[r].id <= m.id
      BY <3>1, <3>3, <1>8, <1>9
    <3> QED
      BY <3>1, <3>2, <3>3, <1>8, <1>9
  <2>2. (\A e \in log : e.id # 0 /\ e.id <= clock)'
    BY <1>8, <1>11 DEF Inv, LogInv
  <2>3. (\A s \in Requests : req[s].id <= clock)'
    BY <1>5, <1>10 DEF Inv, LogInv, Idle
  <2>4. (\A s \in Requests, e \in log :
           Locked(s) /\ e.kind # "revoke" => e.id < req[s].id /\ e.id <= req[s].prev)'
    <3> SUFFICES ASSUME NEW s \in Requests, NEW e \in log', Locked(s)', e.kind # "revoke"
                 PROVE  e.id < req'[s].id /\ e.id <= req'[s].prev
      OBVIOUS
    <3>1. s # r /\ Locked(s) /\ req'[s] = req[s]
      BY <1>5, <1>6
    <3>2. CASE e \in log
      BY <3>1, <3>2 DEF Inv, LogInv
    <3>3. CASE e = NewEntry(r)
      <4>1. Locked(r)
        BY <1>8, <3>3 DEF Locked
      <4> QED
        BY <3>1, <4>1 DEF Inv, RowLockInv
    <3> QED
      BY <3>2, <3>3
  <2> QED
    BY <2>1, <2>2, <2>3, <2>4 DEF LogInv
<1>13. LockedEntriesNeverFork'
  <2> SUFFICES ASSUME NEW e \in log', NEW f \in log',
                      e.kind # "revoke", f.kind # "revoke", e.id < f.id
               PROVE  e.id <= f.prev
    BY DEF LockedEntriesNeverFork
  <2>1. CASE e \in log /\ f \in log
    BY <2>1 DEF Inv, LockedEntriesNeverFork
  <2>2. CASE f = NewEntry(r)
    <3>1. Locked(r) /\ f.id = req[r].id /\ f.prev = req[r].prev
      BY <1>8, <2>2 DEF Locked
    <3>2. e \in log
      BY <3>1, <1>8, <2>2
    <3> QED
      BY <3>1, <3>2 DEF Inv, LogInv
  <2>3. CASE e = NewEntry(r) /\ f \in log
    <3>1. Locked(r)
      BY <1>8, <2>3 DEF Locked
    <3>2. f.id < req[r].id
      BY <3>1, <2>3 DEF Inv, LogInv
    <3> QED
      BY <3>2, <1>8, <1>9, <2>3
  <2> QED
    BY <2>1, <2>2, <2>3
<1> QED
  BY <1>2, <1>4, <1>5, <1>7, <1>12, <1>13

\* A commit writes what the checks allowed: nobody else could hold the row.
LEMMA CommitKeepsInv ==
    ASSUME Inv, NEW r \in Requests, CommitVote(r) \/ CommitDelegate(r) \/ CommitRevoke(r)
    PROVE  Inv'
<1>1. /\ req[r].pc = "tx" /\ log' = log \cup {NewEntry(r)}
      /\ req' = [req EXCEPT ![r] = Idle]
      /\ UNCHANGED <<status, overdue, clock, root, closer>>
  BY DEF CommitVote, CommitDelegate, CommitRevoke
<1>2. /\ req' \in [Requests -> Request] /\ log' \in SUBSET LogEntry
      /\ \A s \in Requests : req'[s] = (IF s = r THEN Idle ELSE req[s])
      /\ RowLockInv' /\ LogInv' /\ LockedEntriesNeverFork'
  BY <1>1, CommitKeepsLog
<1>3. /\ req[r].voter \in Voters
      /\ req[r].kind = "vote" => req[r].arg \in Options
      /\ req[r].kind = "delegate" => req[r].arg \in Voters
      /\ req[r].kind \in {"vote", "delegate"} => Locked(r) /\ ballot[req[r].voter] = NoOne
      /\ req[r].kind = "vote" => delegate[req[r].voter] = NoOne
  BY <1>1 DEF Inv, ChecksInv, Locked
<1>4. \/ /\ req[r].kind = "vote" /\ ballot' = [ballot EXCEPT ![req[r].voter] = req[r].arg]
         /\ delegate' = delegate
      \/ /\ req[r].kind = "delegate" /\ delegate' = [delegate EXCEPT ![req[r].voter] = req[r].arg]
         /\ ballot' = ballot
      \/ /\ req[r].kind = "revoke" /\ delegate' = [delegate EXCEPT ![req[r].voter] = NoOne]
         /\ ballot' = ballot
  BY DEF CommitVote, CommitDelegate, CommitRevoke
<1>5. /\ ballot' \in [Voters -> Options \cup {NoOne}]
      /\ delegate' \in [Voters -> Voters \cup {NoOne}]
  BY <1>3, <1>4 DEF Inv, TypeOK
<1>6. TypeOK'
  BY <1>1, <1>2, <1>5 DEF Inv, TypeOK
<1>7. OneVoice'
  BY <1>3, <1>4 DEF Inv, TypeOK, OneVoice
<1>8. ChecksInv'
  <2> SUFFICES ASSUME NEW s \in Requests PROVE ChecksInv!(s)'
    BY DEF ChecksInv
  <2>1. CASE s = r
    BY <1>2, <2>1 DEF Idle, Locked
  <2>2. CASE s # r
    <3>1. req'[s] = req[s]
      BY <1>2, <2>2
    <3>2. CASE ~Locked(s)
      BY <3>1, <3>2 DEF Inv, ChecksInv, Locked
    <3>3. CASE Locked(s)
      <4>1. req[r].kind = "revoke"
        BY <1>3, <2>2, <3>3 DEF Inv, RowLockInv, TypeOK, Request
      <4>2. ballot' = ballot /\ (\A v \in Voters : delegate[v] = NoOne => delegate'[v] = NoOne)
        BY <1>4, <4>1 DEF Inv, TypeOK
      <4> QED
        BY <3>1, <3>3, <4>2 DEF Inv, ChecksInv, Locked
    <3> QED
      BY <3>2, <3>3
  <2> QED
    BY <2>1, <2>2
<1>9. NewEntry(r).kind \in {"vote", "delegate"} => status # "ended"
  BY <1>3 DEF NewEntry, Inv, ClosingInv, PollRowLocked
<1>10. ClosingInv'
  <2>1. (status = "ended" => ~PollRowLocked)'
    BY <1>1, <1>2 DEF Inv, ClosingInv, PollRowLocked, Locked, Idle
  <2> QED
    BY <1>1, <1>9, <2>1 DEF Inv, ClosingInv
<1>11. RootCoversBallots'
  BY <1>1, <1>9 DEF Inv, ClosingInv, RootCoversBallots
<1> QED
  BY <1>2, <1>6, <1>7, <1>8, <1>10, <1>11 DEF Inv

\* Closing steps and the passing of time touch no request and no row but the
\* poll's own.
LEMMA ClosingKeepsInv ==
    ASSUME Inv, Expire \/ \E c \in Closers : CloserStep(c)
    PROVE  Inv'
<1>1. UNCHANGED <<ballot, delegate, log, clock, req>>
  BY DEF Expire, CloserStep, CloserRead, CloserEnd, CloserSnapshot, CloserCommit, CloserCrash
<1>2. 0 \in LogId
  BY MaxLogAssumption
<1>3. Latest \in LogId /\ \A e \in log : e.id <= Latest
  BY LatestIsMax DEF Inv
<1>4. /\ OneVoice' /\ RowLockInv' /\ ChecksInv' /\ LogInv' /\ LockedEntriesNeverFork'
      /\ PollRowLocked' = PollRowLocked
  BY <1>1 DEF Inv, OneVoice, RowLockInv, ChecksInv, LogInv, LockedEntriesNeverFork, Locked,
              PollRowLocked
<1>5. CASE Expire
  <2>1. TypeOK'
    BY <1>5, <1>1 DEF Expire, Inv, TypeOK
  <2>2. ClosingInv' /\ RootCoversBallots'
    BY <1>5, <1>4 DEF Expire, Inv, ClosingInv, RootCoversBallots
  <2> QED
    BY <1>4, <2>1, <2>2 DEF Inv
<1>6. ASSUME NEW c \in Closers, CloserStep(c)
      PROVE  TypeOK' /\ ClosingInv' /\ RootCoversBallots'
  <2>1. CASE CloserRead(c)
    BY <2>1, <1>4 DEF CloserRead, Inv, TypeOK, Closer, ClosingInv, RootCoversBallots
  <2>2. CASE CloserEnd(c)
    BY <2>2, <1>4 DEF CloserEnd, PollRowFree, Inv, TypeOK, Closer, ClosingInv, RootCoversBallots
  <2>3. CASE CloserSnapshot(c)
    BY <2>3, <1>2, <1>3, <1>4
       DEF CloserSnapshot, Inv, TypeOK, Closer, ClosingInv, RootCoversBallots
  <2>4. CASE CloserCommit(c)
    BY <2>4, <1>2, <1>4 DEF CloserCommit, Inv, TypeOK, Closer, ClosingInv, RootCoversBallots
  <2>5. CASE CloserCrash(c)
    BY <2>5, <1>2, <1>4 DEF CloserCrash, Inv, TypeOK, Closer, ClosingInv, RootCoversBallots
  <2> QED
    BY <1>6, <2>1, <2>2, <2>3, <2>4, <2>5 DEF CloserStep
<1> QED
  BY <1>4, <1>5, <1>6 DEF Inv

\* Every step of a handler, a closer or the clock keeps Inv.
LEMMA NextInv == Inv /\ [Next]_vars => Inv'
<1> SUFFICES ASSUME Inv, [Next]_vars PROVE Inv'
  OBVIOUS
<1>1. CASE UNCHANGED vars
  BY <1>1 DEF vars, Inv, TypeOK, OneVoice, RowLockInv, ChecksInv, LogInv, ClosingInv,
              LockedEntriesNeverFork, RootCoversBallots, Locked, PollRowLocked
<1>2. CASE Expire \/ \E c \in Closers : CloserStep(c)
  BY <1>2, ClosingKeepsInv
<1>3. ASSUME NEW r \in Requests, RequestStep(r) PROVE Inv'
  BY <1>3, ReadKeepsInv, OpenKeepsInv, GiveUpKeepsInv, CommitKeepsInv DEF RequestStep
<1> QED
  BY <1>1, <1>2, <1>3 DEF Next

\* In every reachable state of a poll: its rows, locks, audit log and root are
\* as Inv says.
THEOREM InvHolds == Spec => []Inv
<1> QED
  BY InitInv, NextInv, PTL DEF Spec

\* A set of naturals that is not empty has a least element.
LEMMA LeastNatural ==
    ASSUME NEW T \in SUBSET Nat, T # {}
    PROVE  \E x \in T : \A y \in T : ~ (y < x)
<1>1. IsWellFoundedOn(OpToRel(<, Nat), Nat)
  BY NatLessThanWellFounded
<1>2. PICK x \in T : \A y \in T : ~ (<<y, x>> \in OpToRel(<, Nat))
  BY <1>1, WFMin, Zenon
<1>3. \A y \in Nat : y < x => <<y, x>> \in OpToRel(<, Nat)
  BY DEF OpToRel
<1>4. \A y \in T : ~ (y < x)
  BY <1>2, <1>3
<1> QED
  BY <1>4

\* The walk of check_can_delegate finds every circle a new delegation closes.
LEMMA CheckedWalkClosesNoCircle ==
    ASSUME NEW g \in [Voters -> Voters \cup {NoOne}], Acyclic(g),
           NEW v \in Voters, NEW d \in Voters,
           ChainEnds([g EXCEPT ![v] = d], v)
    PROVE  Acyclic([g EXCEPT ![v] = d])
<1> DEFINE h == [g EXCEPT ![v] = d]
<1> SUFFICES ASSUME NEW S \in SUBSET Voters, S # {}, \A u \in S : h[u] \in S
             PROVE  FALSE
  BY DEF Acyclic
<1>1. PICK w \in Walks(h, v) : h[w[MaxChain]] = NoOne
  BY DEF ChainEnds
<1> HIDE DEF h
<1>2. /\ w \in [0 .. MaxChain -> Voters] /\ w[0] = v
      /\ \A n \in 1 .. MaxChain :
            w[n] = IF h[w[n - 1]] = NoOne THEN w[n - 1] ELSE h[w[n - 1]]
  BY <1>1 DEF Walks
<1>3. v \in S
  <2>1. PICK u \in S : g[u] \notin S
    BY DEF Acyclic
  <2> QED
    BY <2>1 DEF h
<1> DEFINE Out == {n \in 0 .. MaxChain : w[n] \notin S}
<1>4. MaxChain \in Out
  BY <1>1, <1>2, MaxChainAssumption, NoOneAssumption
<1>5. PICK m \in Out : \A n \in Out : ~ (n < m)
  <2>1. Out \in SUBSET Nat /\ Out # {}
    BY <1>4
  <2> QED
    BY <2>1, LeastNatural
<1>6. m \in 1 .. MaxChain /\ w[m - 1] \in S
  BY <1>2, <1>3, <1>5, MaxChainAssumption
<1>7. w[m] = h[w[m - 1]] /\ h[w[m - 1]] \in S
  BY <1>2, <1>6, NoOneAssumption
<1> QED
  BY <1>5, <1>7

\* Taking delegations away closes no circle.
LEMMA FewerDelegations ==
    ASSUME NEW g \in [Voters -> Voters \cup {NoOne}], Acyclic(g), NEW v \in Voters
    PROVE  Acyclic([g EXCEPT ![v] = NoOne])
  BY NoOneAssumption DEF Acyclic

\* For every number of profiles and concurrent requests: the state stays well
\* typed.
THEOREM TypeCorrect == Spec => []TypeOK
<1>1. Inv => TypeOK
  BY DEF Inv
<1> QED
  BY <1>1, InvHolds, PTL

\* For every number of profiles and concurrent requests: no profile ends up
\* with both a ballot and an active delegation, because check_can_vote and
\* check_can_delegate run under the poll's row lock.
THEOREM NobodySpeaksTwice == Spec => []OneVoice
<1>1. Inv => OneVoice
  BY DEF Inv
<1> QED
  BY <1>1, InvHolds, PTL

\* The root that finalize_poll stores covers every ballot and delegation.
THEOREM RootIsComplete == Spec => []RootCoversBallots
<1>1. Inv => RootCoversBallots
  BY DEF Inv
<1> QED
  BY <1>1, InvHolds, PTL

\* Entries written under the poll's row lock form one chain.
THEOREM LockedChain == Spec => []LockedEntriesNeverFork
<1>1. Inv => LockedEntriesNeverFork
  BY DEF Inv
<1> QED
  BY <1>1, InvHolds, PTL

\* An ended poll keeps its ballots and stays ended.
THEOREM BallotsAreFixed == Spec => BallotsFixedAfterEnd
<1>1. Inv /\ [Next]_vars => [status = "ended" => UNCHANGED <<ballot, status>>]_vars
  <2> SUFFICES ASSUME Inv, Next, status = "ended" PROVE UNCHANGED <<ballot, status>>
    BY DEF vars
  <2>1. \A r \in Requests : ~Locked(r)
    BY DEF Inv, ClosingInv, PollRowLocked
  <2>2. CASE Expire \/ \E c \in Closers : CloserStep(c)
    BY <2>2 DEF Expire, CloserStep, CloserRead, CloserEnd, CloserSnapshot, CloserCommit,
                CloserCrash
  <2>3. ASSUME NEW r \in Requests, RequestStep(r) PROVE UNCHANGED <<ballot, status>>
    BY <2>1, <2>3 DEF RequestStep, ReadVote, ReadDelegate, ReadRevoke, Read, OpenVote,
         OpenDelegate, OpenRevoke, Open, CommitVote, CommitDelegate, CommitRevoke, GiveUp, Locked
  <2> QED
    BY <2>2, <2>3 DEF Next
<1> QED
  BY <1>1, InvHolds, PTL DEF Spec, BallotsFixedAfterEnd

\* A delegation checked under the row lock closes no circle when it commits:
\* meanwhile delegations were only taken away.
LEMMA CircleStep ==
    ASSUME Inv, NoCircle, CircleInv, [Next]_vars
    PROVE  NoCircle' /\ CircleInv'
<1>1. delegate \in [Voters -> Voters \cup {NoOne}]
  BY DEF Inv, TypeOK
<1>2. ASSUME UNCHANGED delegate,
             \A r \in Requests : Locked(r)' /\ req'[r].kind = "delegate" =>
                                    Locked(r) /\ req'[r] = req[r]
      PROVE  NoCircle' /\ CircleInv'
  BY <1>2 DEF NoCircle, CircleInv
<1>3. CASE UNCHANGED vars \/ Expire \/ \E c \in Closers : CloserStep(c)
  <2>1. UNCHANGED <<delegate, req>>
    BY <1>3 DEF vars, Expire, CloserStep, CloserRead, CloserEnd, CloserSnapshot, CloserCommit,
                CloserCrash
  <2> QED
    BY <2>1, <1>2 DEF Locked
<1>4. ASSUME NEW r \in Requests,
             \/ ReadVote(r) \/ ReadDelegate(r) \/ ReadRevoke(r) \/ GiveUp(r)
             \/ CommitVote(r) \/ OpenVote(r) \/ OpenRevoke(r)
      PROVE  NoCircle' /\ CircleInv'
  <2>1. UNCHANGED delegate
    BY <1>4 DEF ReadVote, ReadDelegate, ReadRevoke, Read, GiveUp, CommitVote, OpenVote,
                OpenRevoke, Open
  <2>2. \A s \in Requests \ {r} : req'[s] = req[s]
    BY <1>4 DEF Inv, TypeOK, ReadVote, ReadDelegate, ReadRevoke, Read, GiveUp, CommitVote,
                OpenVote, OpenRevoke, Open
  <2>3. ~ (req'[r].pc = "tx" /\ req'[r].kind = "delegate")
    <3>1. CASE ReadVote(r) \/ ReadDelegate(r) \/ ReadRevoke(r)
      BY <3>1 DEF Inv, TypeOK, ReadVote, ReadDelegate, ReadRevoke, Read
    <3>2. CASE GiveUp(r) \/ CommitVote(r)
      BY <3>2 DEF Inv, TypeOK, GiveUp, CommitVote, Idle
    <3>3. CASE OpenVote(r) \/ OpenRevoke(r)
      BY <3>3 DEF Inv, TypeOK, Request, OpenVote, OpenRevoke, Open
    <3> QED
      BY <1>4, <3>1, <3>2, <3>3
  <2> QED
    BY <1>2, <2>1, <2>2, <2>3 DEF Locked
<1>5. ASSUME NEW r \in Requests, OpenDelegate(r)
      PROVE  NoCircle' /\ CircleInv'
  <2>1. /\ UNCHANGED delegate /\ req[r].voter \in Voters /\ req[r].arg \in Voters
        /\ ChainEnds([delegate EXCEPT ![req[r].voter] = req[r].arg], req[r].voter)
    BY <1>5 DEF OpenDelegate, Open, CanDelegate, Inv, ChecksInv
  <2>2. Acyclic([delegate EXCEPT ![req[r].voter] = req[r].arg])
    BY <1>1, <2>1, CheckedWalkClosesNoCircle DEF NoCircle
  <2>3. /\ req'[r].voter = req[r].voter /\ req'[r].arg = req[r].arg
        /\ \A s \in Requests \ {r} : req'[s] = req[s]
    BY <1>5 DEF OpenDelegate, Open, Inv, TypeOK, Request
  <2> QED
    BY <2>1, <2>2, <2>3 DEF NoCircle, CircleInv, Locked
<1>6. ASSUME NEW r \in Requests, CommitDelegate(r)
      PROVE  NoCircle' /\ CircleInv'
  <2>1. /\ delegate' = [delegate EXCEPT ![req[r].voter] = req[r].arg]
        /\ Locked(r) /\ req[r].kind = "delegate"
        /\ req' = [req EXCEPT ![r] = Idle]
    BY <1>6 DEF CommitDelegate, Locked
  <2>2. NoCircle'
    BY <2>1 DEF CircleInv, NoCircle
  <2>3. \A s \in Requests : ~Locked(s)'
    BY <2>1 DEF Inv, TypeOK, RowLockInv, Locked, Idle
  <2> QED
    BY <2>2, <2>3 DEF CircleInv
<1>7. ASSUME NEW r \in Requests, CommitRevoke(r)
      PROVE  NoCircle' /\ CircleInv'
  <2>1. /\ delegate' = [delegate EXCEPT ![req[r].voter] = NoOne]
        /\ req' = [req EXCEPT ![r] = Idle]
        /\ req[r].voter \in Voters
    BY <1>7 DEF CommitRevoke, Inv, ChecksInv
  <2>2. NoCircle'
    BY <1>1, <2>1, FewerDelegations DEF NoCircle
  <2>3. ASSUME NEW s \in Requests, Locked(s)', req'[s].kind = "delegate"
        PROVE  Acyclic([delegate' EXCEPT ![req'[s].voter] = req'[s].arg])
    <3>1. /\ req'[s] = req[s] /\ Locked(s) /\ req[s].kind = "delegate"
          /\ req[s].voter \in Voters /\ req[s].arg \in Voters
      BY <2>1, <2>3 DEF Inv, TypeOK, ChecksInv, Locked, Idle
    <3> DEFINE g == [delegate EXCEPT ![req[s].voter] = req[s].arg]
    <3>2. Acyclic(g) /\ g \in [Voters -> Voters \cup {NoOne}]
      BY <1>1, <3>1 DEF CircleInv
    <3>3. Acyclic([g EXCEPT ![req[r].voter] = NoOne])
      BY <2>1, <3>2, FewerDelegations
    <3>4. CASE req[s].voter = req[r].voter
      BY <1>1, <2>1, <3>1, <3>2, <3>4
    <3>5. CASE req[s].voter # req[r].voter
      <4>1. [delegate' EXCEPT ![req[s].voter] = req[s].arg] = [g EXCEPT ![req[r].voter] = NoOne]
        BY <1>1, <2>1, <3>1, <3>5
      <4> QED
        BY <3>1, <3>3, <4>1
    <3> QED
      BY <3>4, <3>5
  <2> QED
    BY <2>2, <2>3 DEF CircleInv
<1> QED
  BY <1>3, <1>4, <1>5, <1>6, <1>7 DEF Next, RequestStep

\* Delegations of one poll never close a circle: the walk of
\* check_can_delegate, its row lock, and the fact that a concurrent
\* revocation only takes delegations away.
THEOREM DelegationsNeverCircle == Spec => []NoCircle
<1>1. Init => NoCircle /\ CircleInv
  BY NoOneAssumption DEF Init, NoCircle, CircleInv, Acyclic, Locked, Idle
<1>2. Inv /\ (NoCircle /\ CircleInv) /\ [Next]_vars => (NoCircle /\ CircleInv)'
  BY CircleStep
<1> QED
  BY <1>1, <1>2, InvHolds, PTL DEF Spec
=============================================================================
