-------------------------------- MODULE Debts --------------------------------
(***************************************************************************)
(* One debt of the debts app: its row in PostgreSQL, the repayment rows,   *)
(* and its virtual item in the Neo4j barter graph, which background jobs   *)
(* keep in step after each commit.                                         *)
(*                                                                         *)
(* The handlers are transactions, but at READ COMMITTED and without a row  *)
(* lock: a handler reads the row, and the row may change before it writes. *)
(* The write and what follows it up to the commit hold the row and are one *)
(* step.                                                                   *)
(***************************************************************************)
EXTENDS Integers, FiniteSets

CONSTANTS
    Amount,         \* Debt.amount, in smallest units
    Handlers,       \* request threads
    MaxRequests     \* bound: requests served after the creation

ASSUME AmountAssumption == Amount \in Nat \ {0}
ASSUME MaxRequestsAssumption == MaxRequests \in Nat

VARIABLES
    debt,       \* the Debt row
    repaid,     \* sum of the amounts of the DebtRepayment rows
    handler,    \* what each request thread is doing
    jobs,       \* tasks in background.spawn's pools, of all processes
    graph,      \* remaining_amount of the item DEBT-{id}, NoNode without one
    spawned,    \* jobs begun so far
    requests,   \* requests begun so far
    calm        \* history: nothing overlapped and no job was lost

vars == <<debt, repaid, handler, jobs, graph, spawned, requests, calm>>

NoNode == -1

Statuses == {"PENDING_CONFIRMATION", "ACTIVE", "PARTIALLY_SETTLED", "FULLY_SETTLED", "CANCELLED"}

Debt == [status : Statuses, remaining : 0 .. Amount, byCreditor : BOOLEAN, byDebtor : BOOLEAN]

Parties == {"creditor", "debtor"}

Requests ==
    [kind : {"confirm", "reject"}, by : Parties, amount : {0}]
        \cup [kind : {"repay"}, by : {"creditor"}, amount : 1 .. Amount]

None == [kind |-> "none", by |-> "creditor", amount |-> 0]

Job == [id : Nat, kind : {"sync", "refetch", "write"},
        value : NoNode .. Amount]

TypeOK ==
    /\ debt \in Debt
    /\ repaid \in Nat
    /\ handler \in [Handlers -> [request : Requests \cup {None}, copy : Debt]]
    /\ jobs \subseteq Job
    /\ graph \in NoNode .. Amount
    /\ spawned \in Nat
    /\ requests \in 0 .. MaxRequests
    /\ calm \in BOOLEAN

-----------------------------------------------------------------------------
(* The model's methods *)

\* (faulty variant: the status is left to the caller)
SavedAsIs(d) == d

\* Debt.save
Saved(d) ==
    [d EXCEPT !.status =
        IF d.remaining = 0 THEN "FULLY_SETTLED"
        ELSE IF d.remaining < Amount /\ d.status = "ACTIVE" THEN "PARTIALLY_SETTLED"
        ELSE d.status]

\* Debt.is_active
IsActive(d) == d.status \in {"ACTIVE", "PARTIALLY_SETTLED"} /\ d.remaining > 0

\* (faulty variant: the amount is taken off again when the debt is saved)
AfterDoubleRepayment(d, amount) ==
    Saved([d EXCEPT !.status = IF d.remaining <= 2 * amount THEN "FULLY_SETTLED" ELSE "PARTIALLY_SETTLED",
                    !.remaining = IF d.remaining <= 2 * amount THEN 0 ELSE d.remaining - 2 * amount])

\* DebtRepayment.save: F('remaining_amount') - amount, a refresh, Debt.save
AfterRepayment(d, amount) ==
    Saved([d EXCEPT !.status = IF d.remaining <= amount THEN "FULLY_SETTLED" ELSE "PARTIALLY_SETTLED",
                    !.remaining = d.remaining - amount])

\* (faulty variant: no constraint on the table)
Unconstrained(d, amount) == TRUE

\* debt_remaining_non_negative, when remaining_amount - amount is written
Constraint(d, amount) == amount <= d.remaining

\* confirm_debt, on the copy it has read
AfterConfirmation(d, party) ==
    LET c == [d EXCEPT !.byCreditor = @ \/ party = "creditor", !.byDebtor = @ \/ party = "debtor"]
    IN  Saved(IF c.byCreditor /\ c.byDebtor THEN [c EXCEPT !.status = "ACTIVE"] ELSE c)

-----------------------------------------------------------------------------
(* Request handlers *)

Busy(h) == handler[h].request # None

\* The handler's checks, all against the row as it is read here.
Begin(h, request) ==
    /\ ~Busy(h)
    /\ requests < MaxRequests
    /\ request.amount <= debt.remaining
    /\ handler' = [handler EXCEPT ![h] = [request |-> request, copy |-> debt]]
    /\ requests' = requests + 1
    /\ calm' = (calm /\ jobs = {} /\ \A g \in Handlers : ~Busy(g))
    /\ UNCHANGED <<debt, repaid, jobs, graph, spawned>>

\* (faulty variant: is_active is not asked)
SyncJobAlways(id, d) == [id |-> id, kind |-> "sync", value |-> NoNode]

\* post_save of the debt: what the job will do is decided by the saved object.
SyncJob(id, d) ==
    IF IsActive(d) THEN [id |-> id, kind |-> "sync", value |-> NoNode]
                   ELSE [id |-> id, kind |-> "write", value |-> NoNode]

Finish(h) == handler' = [handler EXCEPT ![h].request = None]

\* confirm_debt writes every column of its copy back.
Save(h, d) ==
    /\ debt' = d
    /\ jobs' = jobs \cup {SyncJob(spawned + 1, d)}
    /\ spawned' = spawned + 1
    /\ Finish(h)
    /\ UNCHANGED <<repaid, graph, requests, calm>>

Confirm(h) ==
    /\ handler[h].request.kind = "confirm"
    /\ Save(h, AfterConfirmation(handler[h].copy, handler[h].request.by))

Reject(h) ==
    /\ handler[h].request.kind = "reject"
    /\ Save(h, Saved([handler[h].copy EXCEPT !.status = "CANCELLED"]))

\* The repayment's own post_save queues a second job, which reads the row.
Repay(h) ==
    LET amount == handler[h].request.amount IN
    /\ handler[h].request.kind = "repay"
    /\ Constraint(debt, amount)
    /\ debt' = AfterRepayment(debt, amount)
    /\ repaid' = repaid + amount
    /\ jobs' = jobs \cup {[id |-> spawned + 1, kind |-> "refetch", value |-> NoNode],
                          SyncJob(spawned + 2, debt')}
    /\ spawned' = spawned + 2
    /\ Finish(h)
    /\ UNCHANGED <<graph, requests, calm>>

\* The CHECK constraint refuses what has become too much, or the request dies:
\* the transaction is rolled back.
Fail(h) ==
    /\ Busy(h)
    /\ Finish(h)
    /\ UNCHANGED <<debt, repaid, jobs, graph, spawned, requests, calm>>

-----------------------------------------------------------------------------
(* Background jobs: any pool thread, in any order *)

Becomes(j, value) == jobs' = (jobs \ {j}) \cup {[j EXCEPT !.kind = "write", !.value = value]}

\* do_neo4j_sync: the amount is read again, whether it is active is not.
FetchForSync(j) ==
    /\ j.kind = "sync"
    /\ Becomes(j, debt.remaining)
    /\ UNCHANGED <<debt, repaid, handler, graph, spawned, requests, calm>>

\* do_sync after a repayment
FetchAfterRepayment(j) ==
    /\ j.kind = "refetch"
    /\ Becomes(j, IF IsActive(debt) THEN debt.remaining ELSE NoNode)
    /\ UNCHANGED <<debt, repaid, handler, graph, spawned, requests, calm>>

\* sync_debt_to_graph or delete_debt_from_graph
Write(j) ==
    /\ j.kind = "write"
    /\ graph' = j.value
    /\ jobs' = jobs \ {j}
    /\ UNCHANGED <<debt, repaid, handler, spawned, requests, calm>>

\* The queue is full, Neo4j is down (the error is logged) or the process dies.
Lose(j) ==
    /\ jobs' = jobs \ {j}
    /\ calm' = FALSE
    /\ UNCHANGED <<debt, repaid, handler, graph, spawned, requests>>

-----------------------------------------------------------------------------
\* create_debt has committed. Its creator need not be one of the parties.
Init ==
    /\ \E creator \in Parties \cup {"other"} :
          /\ debt = [status |-> IF creator = "debtor" THEN "ACTIVE" ELSE "PENDING_CONFIRMATION",
                     remaining |-> Amount,
                     byCreditor |-> creator = "creditor", byDebtor |-> creator = "debtor"]
          /\ jobs = IF creator = "debtor" THEN {[id |-> 1, kind |-> "sync", value |-> NoNode]}
                                          ELSE {}
    /\ repaid = 0
    /\ handler = [h \in Handlers |-> [request |-> None, copy |-> debt]]
    /\ graph = NoNode
    /\ spawned = 1
    /\ requests = 0
    /\ calm = TRUE

HandlerStep(h) ==
    \/ \E request \in Requests : Begin(h, request)
    \/ Confirm(h) \/ Reject(h) \/ Repay(h) \/ Fail(h)

JobStep(j) == FetchForSync(j) \/ FetchAfterRepayment(j) \/ Write(j) \/ Lose(j)

Next ==
    \/ \E h \in Handlers : HandlerStep(h)
    \/ \E j \in jobs : JobStep(j)

Spec == Init /\ [][Next]_vars

-----------------------------------------------------------------------------
(* Properties *)

Consistent(d) ==
    /\ d.status = "FULLY_SETTLED" <=> d.remaining = 0
    /\ d.status = "ACTIVE" => d.remaining = Amount
    /\ d.status = "PARTIALLY_SETTLED" => d.remaining < Amount

\* Status and remaining amount tell the same story after any interleaving of
\* confirmations, rejections and repayments, each writing its own old copy.
StatusMatchesRemaining == Consistent(debt)

\* The debtor is never let off money nobody recorded as repaid: a stale copy
\* may bring a repaid amount back, none takes an amount off twice.
NothingForgiven == debt.remaining + repaid >= Amount

\* When requests come one at a time and their jobs get done, in any order, the
\* barter graph holds the debt exactly while it can take part in a clearing,
\* with the amount that is left.
GraphMatchesDebt ==
    calm /\ jobs = {} /\ (\A h \in Handlers : ~Busy(h)) =>
        graph = IF debt.status \in {"ACTIVE", "PARTIALLY_SETTLED"} THEN debt.remaining ELSE NoNode

-----------------------------------------------------------------------------
(* The inductive invariant *)

\* The copies that handlers will write back are old, but each was the row once.
CopiesInv ==
    \A h \in Handlers :
        /\ Consistent(handler[h].copy)
        /\ handler[h].copy.remaining + repaid >= Amount

\* What the graph ought to hold for the row as it is.
InGraph == IF IsActive(debt) THEN debt.remaining ELSE NoNode

\* As long as nothing has overlapped, every job will write what the graph ought
\* to hold, and whoever handles a request is alone.
CalmInv ==
    calm =>
        /\ jobs = {} => graph = InGraph
        /\ \A j \in jobs :
              /\ j.kind = "sync" => IsActive(debt)
              /\ j.kind = "write" => j.value = InGraph
        /\ \A h \in Handlers : Busy(h) => jobs = {} /\ \A g \in Handlers : Busy(g) => g = h

Inv == TypeOK /\ StatusMatchesRemaining /\ NothingForgiven /\ CopiesInv /\ CalmInv
=============================================================================
