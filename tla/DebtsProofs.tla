----------------------------- MODULE DebtsProofs -----------------------------
(***************************************************************************)
(* Inv is an inductive invariant of Debts, for every amount, every number  *)
(* of request threads and every bound on the requests.                     *)
(***************************************************************************)
EXTENDS Debts, TLAPS

\* Debt.save leaves a row whose status fits its remaining amount, if the
\* caller's status did not already claim too much.
LEMMA SaveMakesConsistent ==
    ASSUME NEW d \in Debt, d.status = "FULLY_SETTLED" => d.remaining = 0,
           d.status = "PARTIALLY_SETTLED" => d.remaining < Amount
    PROVE  /\ Saved(d) \in Debt /\ Consistent(Saved(d))
           /\ Saved(d).remaining = d.remaining
<1>1. d.remaining \in 0 .. Amount /\ d.status \in Statuses
  BY DEF Debt
<1>2. /\ Saved(d) \in Debt /\ Saved(d).remaining = d.remaining
      /\ Saved(d).status = (IF d.remaining = 0 THEN "FULLY_SETTLED"
                            ELSE IF d.remaining < Amount /\ d.status = "ACTIVE"
                                 THEN "PARTIALLY_SETTLED" ELSE d.status)
  BY DEF Saved, Debt, Statuses
<1>3. Consistent(Saved(d))
  BY <1>1, <1>2, AmountAssumption DEF Consistent
<1> QED
  BY <1>2, <1>3

\* Confirming or rejecting a copy keeps its amount and leaves it consistent.
LEMMA ConfirmationKeepsAmount ==
    ASSUME NEW d \in Debt, Consistent(d), NEW p \in Parties
    PROVE  /\ AfterConfirmation(d, p) \in Debt /\ Consistent(AfterConfirmation(d, p))
           /\ AfterConfirmation(d, p).remaining = d.remaining
<1> DEFINE c == [d EXCEPT !.byCreditor = @ \/ p = "creditor", !.byDebtor = @ \/ p = "debtor"]
<1> DEFINE e == IF c.byCreditor /\ c.byDebtor THEN [c EXCEPT !.status = "ACTIVE"] ELSE c
<1>1. c \in Debt /\ c.remaining = d.remaining /\ c.status = d.status
  BY DEF Debt
<1>2. e \in Debt /\ e.remaining = d.remaining /\ (e.status = d.status \/ e.status = "ACTIVE")
  <2> HIDE DEF c
  <2> QED
    BY <1>1 DEF Debt, Statuses
<1>3. AfterConfirmation(d, p) = Saved(e)
  BY DEF AfterConfirmation
<1> HIDE DEF e
<1> QED
  BY <1>2, <1>3, SaveMakesConsistent DEF Consistent

\* Rejecting a copy keeps its amount and leaves it consistent.
LEMMA RejectionKeepsAmount ==
    ASSUME NEW d \in Debt
    PROVE  LET r == Saved([d EXCEPT !.status = "CANCELLED"])
           IN  r \in Debt /\ Consistent(r) /\ r.remaining = d.remaining
<1> DEFINE c == [d EXCEPT !.status = "CANCELLED"]
<1>1. c \in Debt /\ c.remaining = d.remaining /\ c.status = "CANCELLED"
  BY DEF Debt, Statuses
<1> HIDE DEF c
<1>2. Saved(c) \in Debt /\ Consistent(Saved(c)) /\ Saved(c).remaining = d.remaining
  BY <1>1, SaveMakesConsistent
<1> QED
  BY <1>2 DEF c

\* A repayment takes exactly its amount off.
LEMMA RepaymentTakesAmount ==
    ASSUME NEW d \in Debt, NEW a \in 1 .. Amount, a <= d.remaining
    PROVE  /\ AfterRepayment(d, a) \in Debt /\ Consistent(AfterRepayment(d, a))
           /\ AfterRepayment(d, a).remaining = d.remaining - a
<1> DEFINE c == [d EXCEPT
      !.status = IF d.remaining <= a THEN "FULLY_SETTLED" ELSE "PARTIALLY_SETTLED",
      !.remaining = d.remaining - a]
<1>1. d.remaining \in 0 .. Amount
  BY DEF Debt
<1>2. /\ c \in Debt /\ c.remaining = d.remaining - a
      /\ c.status = IF d.remaining <= a THEN "FULLY_SETTLED" ELSE "PARTIALLY_SETTLED"
  <2>1. d.remaining - a \in 0 .. Amount
    BY <1>1, AmountAssumption
  <2> DEFINE s == IF d.remaining <= a THEN "FULLY_SETTLED" ELSE "PARTIALLY_SETTLED"
  <2>2. s \in Statuses
    BY DEF Statuses
  <2> HIDE DEF s
  <2>3. ASSUME NEW r \in 0 .. Amount
        PROVE  LET e == [d EXCEPT !.status = s, !.remaining = r]
               IN  e \in Debt /\ e.remaining = r /\ e.status = s
    BY <2>2 DEF Debt
  <2> QED
    BY <2>1, <2>3 DEF s
<1>3. AfterRepayment(d, a) = Saved(c)
  BY DEF AfterRepayment
<1> HIDE DEF c
<1> QED
  BY <1>1, <1>2, <1>3, AmountAssumption, SaveMakesConsistent

\* The job of a saved debt will write what the graph ought to hold.
LEMMA SyncJobFits ==
    ASSUME NEW d, NEW n
    PROVE  /\ SyncJob(n, d).kind \in {"sync", "write"}
           /\ SyncJob(n, d).kind = "sync" => IsActive(d)
           /\ SyncJob(n, d).kind = "write" => ~IsActive(d) /\ SyncJob(n, d).value = NoNode
  BY DEF SyncJob

\* A request that is served clears the way: nobody else was at work, and the
\* jobs it leaves are its own.
LEMMA AloneWhenBusy ==
    ASSUME CalmInv, calm, NEW h \in Handlers, Busy(h),
           \A g \in Handlers : g # h => handler'[g] = handler[g],
           ~Busy(h)'
    PROVE  jobs = {} /\ \A g \in Handlers : ~Busy(g)'
  BY DEF CalmInv, Busy

\* A debt just created is in order.
LEMMA InitInv == Init => Inv
<1> SUFFICES ASSUME Init PROVE Inv
  OBVIOUS
<1>1. PICK creator \in Parties \cup {"other"} :
          /\ debt = [status |-> IF creator = "debtor" THEN "ACTIVE" ELSE "PENDING_CONFIRMATION",
                     remaining |-> Amount,
                     byCreditor |-> creator = "creditor", byDebtor |-> creator = "debtor"]
          /\ jobs = IF creator = "debtor" THEN {[id |-> 1, kind |-> "sync", value |-> NoNode]}
                                          ELSE {}
  BY DEF Init
<1>2. debt \in Debt
  BY <1>1, AmountAssumption DEF Debt, Statuses
<1>3. Consistent(debt) /\ debt.remaining = Amount
  BY <1>1, AmountAssumption DEF Consistent
<1>4. jobs \subseteq Job
  BY <1>1, AmountAssumption DEF Job, NoNode
<1>5. handler \in [Handlers -> [request : Requests \cup {None}, copy : Debt]]
  BY <1>2 DEF Init
<1>6. TypeOK
  BY <1>2, <1>4, <1>5, AmountAssumption, MaxRequestsAssumption DEF Init, TypeOK, NoNode
<1>7. CopiesInv /\ NothingForgiven
  BY <1>3, AmountAssumption DEF Init, CopiesInv, NothingForgiven
<1>8. CalmInv
  <2>1. \A h \in Handlers : ~Busy(h)
    BY DEF Init, Busy
  <2>2. debt.status \in {"ACTIVE", "PENDING_CONFIRMATION"} /\ (jobs # {} <=> debt.status = "ACTIVE")
    BY <1>1
  <2>3. (debt.status = "ACTIVE" => IsActive(debt)) /\ (debt.status # "ACTIVE" => ~IsActive(debt))
    BY <1>3, <2>2, AmountAssumption DEF IsActive
  <2>4. \A j \in jobs : j.kind = "sync"
    BY <1>1
  <2> QED
    BY <2>1, <2>2, <2>3, <2>4 DEF Init, CalmInv, InGraph
<1> QED
  BY <1>3, <1>6, <1>7, <1>8 DEF Inv, StatusMatchesRemaining

\* A handler copies the row as it is.
LEMMA BeginKeepsInv ==
    ASSUME Inv, NEW h \in Handlers, NEW request \in Requests, Begin(h, request)
    PROVE  Inv'
<1>1. /\ handler' = [handler EXCEPT ![h] = [request |-> request, copy |-> debt]]
      /\ UNCHANGED <<debt, repaid, jobs, graph, spawned>>
      /\ requests' = requests + 1 /\ requests < MaxRequests /\ calm' \in BOOLEAN
  BY DEF Begin
<1>2. TypeOK'
  BY <1>1, MaxRequestsAssumption DEF Inv, TypeOK
<1>3. CopiesInv'
  BY <1>1 DEF Inv, TypeOK, CopiesInv, Consistent, StatusMatchesRemaining, NothingForgiven
<1>4. CalmInv'
  <2> SUFFICES ASSUME calm' PROVE CalmInv'
    BY DEF CalmInv
  <2>1. calm /\ jobs = {} /\ \A g \in Handlers : ~Busy(g)
    BY DEF Begin
  <2>2. \A g \in Handlers : g # h => ~Busy(g)'
    BY <1>1, <2>1 DEF Inv, TypeOK, Busy
  <2> QED
    BY <1>1, <2>1, <2>2 DEF Inv, CalmInv, InGraph, IsActive
<1> QED
  BY <1>1, <1>2, <1>3, <1>4 DEF Inv, StatusMatchesRemaining, NothingForgiven, Consistent

\* Confirming or rejecting writes back an old copy: the amount may rise again,
\* never fall.
LEMMA SaveKeepsInv ==
    ASSUME Inv, NEW h \in Handlers, Confirm(h) \/ Reject(h)
    PROVE  Inv'
<1>1. PICK d : Save(h, d) /\ \/ d = AfterConfirmation(handler[h].copy, handler[h].request.by)
                             \/ d = Saved([handler[h].copy EXCEPT !.status = "CANCELLED"])
  BY DEF Confirm, Reject
<1>2. /\ handler[h].copy \in Debt /\ Consistent(handler[h].copy)
      /\ handler[h].copy.remaining + repaid >= Amount
      /\ handler[h].request.by \in Parties
  BY DEF Inv, TypeOK, CopiesInv, Requests, None, Parties
<1>3. d \in Debt /\ Consistent(d) /\ d.remaining = handler[h].copy.remaining
  BY <1>1, <1>2, ConfirmationKeepsAmount, RejectionKeepsAmount
<1>4. /\ debt' = d /\ jobs' = jobs \cup {SyncJob(spawned + 1, d)} /\ spawned' = spawned + 1
      /\ handler' = [handler EXCEPT ![h].request = None]
      /\ UNCHANGED <<repaid, graph, requests, calm>>
  BY <1>1 DEF Save, Finish
<1>5. SyncJob(spawned + 1, d) \in Job
  BY AmountAssumption DEF SyncJob, Job, NoNode, Inv, TypeOK
<1>6. TypeOK'
  BY <1>3, <1>4, <1>5 DEF Inv, TypeOK
<1>7. CopiesInv'
  BY <1>4 DEF Inv, TypeOK, CopiesInv
<1>8. CalmInv'
  <2> SUFFICES ASSUME calm' PROVE CalmInv'
    BY DEF CalmInv
  <2>1. jobs = {} /\ \A g \in Handlers : ~Busy(g)'
    <3>1. Busy(h) /\ ~Busy(h)' /\ \A g \in Handlers : g # h => handler'[g] = handler[g]
      BY <1>4 DEF Inv, TypeOK, Busy, Confirm, Reject, None
    <3> QED
      BY <1>4, <3>1, AloneWhenBusy DEF Inv
  <2>2. jobs' = {SyncJob(spawned + 1, d)}
    BY <1>4, <2>1
  <2> QED
    BY <1>4, <2>1, <2>2, SyncJobFits DEF CalmInv, InGraph, IsActive
<1> QED
  BY <1>2, <1>3, <1>4, <1>6, <1>7, <1>8 DEF Inv, StatusMatchesRemaining, NothingForgiven

\* A repayment moves its amount from the debt to the repayments.
LEMMA RepayKeepsInv ==
    ASSUME Inv, NEW h \in Handlers, Repay(h)
    PROVE  Inv'
<1> DEFINE a == handler[h].request.amount
<1>1. a \in 1 .. Amount /\ a <= debt.remaining
  BY DEF Repay, Constraint, Inv, TypeOK, Requests, None
<1>2. /\ debt' = AfterRepayment(debt, a) /\ repaid' = repaid + a
      /\ jobs' = jobs \cup {[id |-> spawned + 1, kind |-> "refetch", value |-> NoNode],
                            SyncJob(spawned + 2, debt')}
      /\ spawned' = spawned + 2
      /\ handler' = [handler EXCEPT ![h].request = None]
      /\ UNCHANGED <<graph, requests, calm>>
  BY DEF Repay, Finish
<1> HIDE DEF a
<1>3. /\ debt' \in Debt /\ Consistent(debt') /\ debt'.remaining = debt.remaining - a
  BY <1>1, <1>2, RepaymentTakesAmount DEF Inv, TypeOK
<1>4. jobs' \subseteq Job
  <2>1. SyncJob(spawned + 2, debt') \in Job
    BY AmountAssumption DEF SyncJob, Job, NoNode, Inv, TypeOK
  <2>2. [id |-> spawned + 1, kind |-> "refetch", value |-> NoNode] \in Job
    BY AmountAssumption DEF Job, NoNode, Inv, TypeOK
  <2> QED
    BY <1>2, <2>1, <2>2 DEF Inv, TypeOK
<1>5. repaid' \in Nat /\ debt.remaining \in Nat /\ repaid \in Nat
  BY <1>1, <1>2 DEF Inv, TypeOK, Debt
<1>6. TypeOK'
  BY <1>2, <1>3, <1>4, <1>5 DEF Inv, TypeOK
<1>7. CopiesInv'
  <2> SUFFICES ASSUME NEW g \in Handlers PROVE CopiesInv!(g)'
    BY DEF CopiesInv
  <2>1. handler'[g].copy = handler[g].copy /\ handler[g].copy.remaining \in Nat
    BY <1>2 DEF Inv, TypeOK, Debt
  <2> QED
    BY <1>1, <1>2, <1>5, <2>1, AmountAssumption DEF Inv, CopiesInv
<1>8. NothingForgiven'
  BY <1>1, <1>2, <1>3, <1>5 DEF Inv, NothingForgiven
<1>9. CalmInv'
  <2> SUFFICES ASSUME calm' PROVE CalmInv'
    BY DEF CalmInv
  <2>1. jobs = {} /\ \A g \in Handlers : ~Busy(g)'
    <3>1. Busy(h) /\ ~Busy(h)' /\ \A g \in Handlers : g # h => handler'[g] = handler[g]
      BY <1>2 DEF Inv, TypeOK, Busy, Repay, None
    <3> QED
      BY <1>2, <3>1, AloneWhenBusy DEF Inv
  <2>2. \A j \in jobs' : j.kind = "refetch" \/ j = SyncJob(spawned + 2, debt')
    BY <1>2, <2>1
  <2>3. jobs' # {}
    BY <1>2
  <2>4. (\A j \in jobs' : j.kind = "sync" => IsActive(debt')) /\
        (\A j \in jobs' : j.kind = "write" => ~IsActive(debt') /\ j.value = NoNode)
    BY <2>2, SyncJobFits
  <2> QED
    BY <2>1, <2>3, <2>4 DEF CalmInv, InGraph, IsActive
<1> QED
  BY <1>3, <1>6, <1>7, <1>8, <1>9 DEF Inv, StatusMatchesRemaining

\* A failed request and the background jobs leave the books alone.
LEMMA OthersKeepInv ==
    ASSUME Inv, (\E h \in Handlers : Fail(h)) \/ (\E j \in jobs : JobStep(j))
    PROVE  Inv'
<1>1. UNCHANGED <<debt, repaid, spawned, requests>>
  BY DEF Fail, JobStep, FetchForSync, FetchAfterRepayment, Write, Lose
<1>2. \A h \in Handlers : handler'[h].copy = handler[h].copy
  BY DEF Inv, TypeOK, Fail, Finish, JobStep, FetchForSync, FetchAfterRepayment, Write, Lose
<1>3. TypeOK'
  <2>1. CASE \E h \in Handlers : Fail(h)
    BY <2>1 DEF Fail, Finish, Inv, TypeOK
  <2>2. ASSUME NEW j \in jobs, FetchForSync(j) \/ FetchAfterRepayment(j)
        PROVE  TypeOK'
    <3>1. PICK value \in NoNode .. Amount : Becomes(j, value)
      BY <2>2, AmountAssumption DEF FetchForSync, FetchAfterRepayment, Inv, TypeOK, Debt, NoNode
    <3>2. jobs' \subseteq Job
      BY <3>1 DEF Becomes, Inv, TypeOK, Job
    <3> QED
      BY <2>2, <3>2 DEF FetchForSync, FetchAfterRepayment, Inv, TypeOK
  <2>3. ASSUME NEW j \in jobs, Write(j) \/ Lose(j)
        PROVE  TypeOK'
    BY <2>3 DEF Write, Lose, Inv, TypeOK, Job
  <2> QED
    BY <2>1, <2>2, <2>3 DEF JobStep
<1>4. CalmInv'
  <2> SUFFICES ASSUME calm' PROVE CalmInv'
    BY DEF CalmInv
  <2>1. calm /\ CalmInv /\ InGraph' = InGraph /\ IsActive(debt)' = IsActive(debt)
    BY <1>1 DEF Inv, InGraph, IsActive, Fail, JobStep, FetchForSync, FetchAfterRepayment, Write, Lose
  <2>2. CASE \E h \in Handlers : Fail(h)
    <3>1. \A g \in Handlers : Busy(g)' => Busy(g)
      BY <2>2 DEF Fail, Finish, Inv, TypeOK, Busy
    <3> QED
      BY <2>1, <2>2, <3>1 DEF CalmInv, Fail
  <2>3. ASSUME NEW j \in jobs, FetchForSync(j) \/ FetchAfterRepayment(j)
        PROVE  CalmInv'
    <3>1. Becomes(j, InGraph)
      BY <2>1, <2>3 DEF CalmInv, InGraph, FetchForSync, FetchAfterRepayment
    <3>2. \A i \in jobs' : i \in jobs \/ (i.kind = "write" /\ i.value = InGraph)
      BY <3>1 DEF Becomes, Inv, TypeOK, Job
    <3>3. jobs' # {} /\ UNCHANGED <<debt, handler, graph, calm>>
      BY <2>3, <3>1 DEF FetchForSync, FetchAfterRepayment, Becomes
    <3>4. \A g \in Handlers : ~Busy(g)'
      BY <2>1, <3>3 DEF CalmInv, Busy
    <3> QED
      BY <2>1, <3>2, <3>3, <3>4 DEF CalmInv
  <2>4. ASSUME NEW j \in jobs, Write(j) PROVE CalmInv'
    <3>1. \A g \in Handlers : ~Busy(g)'
      BY <2>1, <2>4 DEF CalmInv, Busy, Write
    <3> QED
      BY <2>1, <2>4, <3>1 DEF CalmInv, Write
  <2> QED
    BY <2>2, <2>3, <2>4 DEF JobStep, Lose
<1> QED
  BY <1>1, <1>2, <1>3, <1>4
     DEF Inv, StatusMatchesRemaining, Consistent, NothingForgiven, CopiesInv

\* Every step keeps Inv.
LEMMA NextInv == Inv /\ [Next]_vars => Inv'
<1> SUFFICES ASSUME Inv, [Next]_vars PROVE Inv'
  OBVIOUS
<1>1. CASE UNCHANGED vars
  BY <1>1 DEF vars, Inv, TypeOK, StatusMatchesRemaining, Consistent, NothingForgiven, CopiesInv,
             CalmInv, InGraph, IsActive, Busy
<1>2. ASSUME NEW h \in Handlers, HandlerStep(h) PROVE Inv'
  BY <1>2, BeginKeepsInv, SaveKeepsInv, RepayKeepsInv, OthersKeepInv DEF HandlerStep
<1>3. CASE \E j \in jobs : JobStep(j)
  BY <1>3, OthersKeepInv
<1> QED
  BY <1>1, <1>2, <1>3 DEF Next

\* In every reachable state the row, the repayments and the handlers' copies
\* are as Inv says.
THEOREM DebtInvHolds == Spec => []Inv
<1> QED
  BY InitInv, NextInv, PTL DEF Spec

\* For every amount and number of request threads: a debt is settled exactly
\* when nothing remains of it, because Debt.save and DebtRepayment.save adjust
\* the status at every write, also at the write of an old copy.
THEOREM StatusFollowsAmount == Spec => []StatusMatchesRemaining
<1>1. Inv => StatusMatchesRemaining
  BY DEF Inv
<1> QED
  BY <1>1, DebtInvHolds, PTL

\* For every amount and number of request threads: what has been taken off the
\* debt never exceeds the repayments recorded.
THEOREM NoMoneyForgiven == Spec => []NothingForgiven
<1>1. Inv => NothingForgiven
  BY DEF Inv
<1> QED
  BY <1>1, DebtInvHolds, PTL

\* The row, the copies, the repayments and the jobs keep their types.
THEOREM DebtTypeCorrect == Spec => []TypeOK
<1>1. Inv => TypeOK
  BY DEF Inv
<1> QED
  BY <1>1, DebtInvHolds, PTL

\* For every amount and number of request threads: once requests that came one at a
\* time have had their jobs done, in whatever order, the barter graph holds
\* what is left of an active debt, and nothing of any other.
THEOREM GraphFollowsDebt == Spec => []GraphMatchesDebt
<1>1. Inv => GraphMatchesDebt
  <2> SUFFICES ASSUME Inv, calm, jobs = {} PROVE
          graph = IF debt.status \in {"ACTIVE", "PARTIALLY_SETTLED"} THEN debt.remaining ELSE NoNode
    BY DEF GraphMatchesDebt
  <2>1. graph = InGraph
    BY DEF Inv, CalmInv
  <2>2. IsActive(debt) <=> debt.status \in {"ACTIVE", "PARTIALLY_SETTLED"}
    BY DEF IsActive, Inv, TypeOK, Debt, StatusMatchesRemaining, Consistent
  <2> QED
    BY <2>1, <2>2 DEF InGraph
<1> QED
  BY <1>1, DebtInvHolds, PTL
=============================================================================
