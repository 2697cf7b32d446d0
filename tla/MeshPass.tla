------------------------------- MODULE MeshPass -------------------------------
(***************************************************************************)
(* The pass for full speed on the mesh guest network: Lightning invoices   *)
(* and their credits, renewal for hosting a node, the devices bound to a   *)
(* pass, and the list of fast clients on the island's terminating router.  *)
(*                                                                         *)
(* A transaction that locks rows (select_for_update) is two steps, one     *)
(* that takes the lock and reads, one that writes and commits. Days are    *)
(* the unit of time.                                                       *)
(***************************************************************************)
EXTENDS Naturals, FiniteSets

CONSTANTS
    Profiles,
    Invoices,       \* payment hashes LNbits may issue
    Buyer,          \* the profile that asked for each of them
    Granted,        \* days the staff gave each profile at the start
    InvoiceDays,    \* MESH_SUBSCRIPTION_DURATION_DAYS
    HostDays,       \* MESH_HOST_PASS_DAYS
    RenewBelow,     \* MESH_HOST_PASS_RENEW_BELOW_DAYS
    MaxDevices,     \* MeshPass.max_devices
    Macs,           \* client devices on the guest network
    RowIds,         \* bound: primary keys that tell the rows of one MAC apart
    Handlers,       \* request threads
    Nodes,          \* mesh routers, a heartbeat at a time each
    Owner,          \* the profile of a node, Nobody in the unclaimed pool
    Terminator,     \* the node that hands out the guest leases
    Nobody,
    MaxTime         \* bound: days

ASSUME PassAssumption ==
    /\ Buyer \in [Invoices -> Profiles]
    /\ Granted \in [Profiles -> Nat]
    /\ Owner \in [Nodes -> Profiles \cup {Nobody}]
    /\ Nobody \notin Profiles
    /\ Terminator \in Nodes
    /\ Handlers \cap Nodes = {} /\ IsFiniteSet(Macs)
    /\ {InvoiceDays, HostDays, RenewBelow, MaxDevices, MaxTime} \subseteq Nat

VARIABLES
    time,       \* today
    covered,    \* expires_at of each profile's pass; 0 also while it has no row
    invoice,    \* status of each MeshPassCredit row, NONE before it exists
    paid,       \* invoices LNbits reports as paid
    renewals,   \* credit rows each profile got for hosting
    rows,       \* the MeshDevice row of each MAC
    speed,      \* MACs the terminator lets through at full speed
    actor       \* what each thread or node is in the middle of

vars == <<time, covered, invoice, paid, renewals, rows, speed, actor>>

Actors == Handlers \cup Nodes
NoRow == [pass |-> Nobody, id |-> Nobody]
Rows == [pass : Profiles, id : RowIds]

HandlerSteps == {"checking", "crediting", "granting", "extending",
                 "binding", "writing", "activating", "unbinding"}
NodeSteps == {"renewing", "topping", "listing", "replying"}

\* What an actor remembers: the profile and the invoice or device it works for,
\* the clock it read, the expiry, the row or the list it saw.
Memory == [at : {"idle"} \cup HandlerSteps \cup NodeSteps,
           pass : Profiles \cup {Nobody},
           of : Invoices \cup Macs \cup {Nobody},
           clock : 0 .. MaxTime,
           seen : Nat,
           row : Rows \cup {NoRow},
           list : SUBSET Macs]

Idle == [at |-> "idle", pass |-> Nobody, of |-> Nobody, clock |-> 0, seen |-> 0, row |-> NoRow, list |-> {}]

TypeOK ==
    /\ time \in 0 .. MaxTime
    /\ covered \in [Profiles -> Nat]
    /\ invoice \in [Invoices -> {"NONE", "PENDING", "APPLIED", "EXPIRED"}]
    /\ paid \subseteq {i \in Invoices : invoice[i] # "NONE"}
    /\ renewals \in [Profiles -> Nat]
    /\ rows \in [Macs -> Rows \cup {NoRow}]
    /\ speed \subseteq Macs
    /\ actor \in [Actors -> Memory]

At(a, step) == actor[a].at = step
Goto(a, memory) == actor' = [actor EXCEPT ![a] = memory]
Finish(a) == Goto(a, Idle)

Init ==
    /\ time = 0
    /\ covered = Granted
    /\ invoice = [i \in Invoices |-> "NONE"]
    /\ paid = {}
    /\ renewals = [p \in Profiles |-> 0]
    /\ rows = [m \in Macs |-> NoRow]
    /\ speed = {}
    /\ actor = [a \in Actors |-> Idle]

\* (faulty variant: the rows are read without a lock)
NeverLocked(p) == FALSE

\* Rows a transaction holds until it commits.
PassLocked(p) == \E a \in Actors : actor[a].at \in {"extending", "writing", "topping"} /\ actor[a].pass = p
CreditLocked(i) == \E a \in Actors : actor[a].at \in {"granting", "extending"} /\ actor[a].of = i

Tick ==
    /\ time < MaxTime
    /\ time' = time + 1
    /\ UNCHANGED <<covered, invoice, paid, renewals, rows, speed, actor>>

\* The process dies or the connection breaks: an open transaction rolls back.
Die(a) ==
    /\ actor[a].at \notin {"idle", "replying"}
    /\ Finish(a)
    /\ UNCHANGED <<time, covered, invoice, paid, renewals, rows, speed>>

-----------------------------------------------------------------------------
(* Invoices *)

\* LNbits issues the invoice, its PENDING credit row is stored.
AskInvoice(i) ==
    /\ invoice[i] = "NONE"
    /\ invoice' = [invoice EXCEPT ![i] = "PENDING"]
    /\ UNCHANGED <<time, covered, paid, renewals, rows, speed, actor>>

PayInvoice(i) ==
    /\ invoice[i] # "NONE" /\ i \notin paid
    /\ paid' = paid \cup {i}
    /\ UNCHANGED <<time, covered, invoice, renewals, rows, speed, actor>>

\* expire_mesh_invoices: the row is an hour old; LNbits is not asked.
ExpireInvoice(i) ==
    /\ invoice[i] = "PENDING" /\ ~CreditLocked(i)
    /\ invoice' = [invoice EXCEPT ![i] = "EXPIRED"]
    /\ UNCHANGED <<time, covered, paid, renewals, rows, speed, actor>>

\* The page polls the invoice.
CheckInvoice(h, i) ==
    /\ At(h, "idle") /\ invoice[i] = "PENDING"
    /\ Goto(h, [Idle EXCEPT !.at = "checking", !.of = i, !.pass = Buyer[i]])
    /\ UNCHANGED <<time, covered, invoice, paid, renewals, rows, speed>>

\* (faulty variant: any answer counts as paid)
SaysPaidAlways(i) == TRUE

SaysPaid(i) == i \in paid

\* An answer that is late, negative or an error ends the request.
Answer(h) ==
    /\ At(h, "checking")
    /\ \/ SaysPaid(actor[h].of) /\ Goto(h, [actor[h] EXCEPT !.at = "crediting"])
       \/ Finish(h)
    /\ UNCHANGED <<time, covered, invoice, paid, renewals, rows, speed>>

\* (faulty variant: the status read before the lock is trusted)
StillPendingUnread(i) == TRUE

StillPending(i) == invoice[i] = "PENDING"

LockCredit(h) ==
    LET i == actor[h].of IN
    /\ At(h, "crediting") /\ ~CreditLocked(i)
    /\ IF StillPending(i)
         THEN Goto(h, [actor[h] EXCEPT !.at = "granting", !.clock = time])
         ELSE Finish(h)
    /\ UNCHANGED <<time, covered, invoice, paid, renewals, rows, speed>>

LockPass(h) ==
    /\ At(h, "granting") /\ ~PassLocked(actor[h].pass)
    /\ Goto(h, [actor[h] EXCEPT !.at = "extending", !.seen = covered[actor[h].pass]])
    /\ UNCHANGED <<time, covered, invoice, paid, renewals, rows, speed>>

Later(a, b) == IF a > b THEN a ELSE b

\* (faulty variant: the row is given the status of the answer)
AppliedAsAnswered == "paid"

Applied == "APPLIED"

\* grant_mesh_pass
Extend(h) ==
    LET p == actor[h].pass IN
    /\ At(h, "extending")
    /\ covered' = [covered EXCEPT ![p] = Later(actor[h].seen, actor[h].clock) + InvoiceDays]
    /\ invoice' = [invoice EXCEPT ![actor[h].of] = Applied]
    /\ Finish(h)
    /\ UNCHANGED <<time, paid, renewals, rows, speed>>

-----------------------------------------------------------------------------
(* Devices *)

BoundTo(p) == {m \in Macs : rows[m].pass = p}

\* The pass is active; finding the caller's MAC takes several calls over SSH.
BeginBind(h, p, m) ==
    /\ At(h, "idle") /\ covered[p] > time
    /\ Goto(h, [Idle EXCEPT !.at = "binding", !.pass = p, !.of = m])
    /\ UNCHANGED <<time, covered, invoice, paid, renewals, rows, speed>>

LockForBind(h) ==
    LET p == actor[h].pass
        row == rows[actor[h].of]
    IN
    /\ At(h, "binding") /\ ~PassLocked(p)
    /\ IF row.pass = p \/ (row = NoRow /\ Cardinality(BoundTo(p)) < MaxDevices)
         THEN Goto(h, [actor[h] EXCEPT !.at = "writing", !.row = row])
         ELSE Finish(h)      \* bound elsewhere, or the pass is full
    /\ UNCHANGED <<time, covered, invoice, paid, renewals, rows, speed>>

\* A key no request still remembers for this MAC
FreshIds(m) == RowIds \ {actor[a].row.id : a \in {b \in Actors : actor[b].of = m}}

\* A row it saw is saved, and inserted again when it was deleted meanwhile; a
\* row of somebody else's under the same MAC fails the unique constraint.
Bind(h) ==
    LET m == actor[h].of
        saw == actor[h].row
    IN
    /\ At(h, "writing")
    /\ \/ /\ saw = NoRow /\ rows[m] = NoRow /\ FreshIds(m) # {}
          /\ rows' = [rows EXCEPT ![m] = [pass |-> actor[h].pass, id |-> CHOOSE id \in FreshIds(m) : TRUE]]
          /\ Goto(h, [actor[h] EXCEPT !.at = "activating", !.row = NoRow])
       \/ /\ saw # NoRow /\ rows[m] \in {saw, NoRow}
          /\ rows' = [rows EXCEPT ![m] = saw]
          /\ Goto(h, [actor[h] EXCEPT !.at = "activating", !.row = NoRow])
       \/ /\ rows[m] \notin {saw, NoRow}
          /\ Finish(h)
          /\ UNCHANGED rows
    /\ UNCHANGED <<time, covered, invoice, paid, renewals, speed>>

\* parahub-speed-control add, which may fail
Activate(h) ==
    /\ At(h, "activating")
    /\ speed' \in {speed, speed \cup {actor[h].of}}
    /\ Finish(h)
    /\ UNCHANGED <<time, covered, invoice, paid, renewals, rows>>

\* parahub-speed-control remove comes first, and may fail
BeginUnbind(h, p, m) ==
    /\ At(h, "idle") /\ rows[m].pass = p
    /\ speed' \in {speed, speed \ {m}}
    /\ Goto(h, [Idle EXCEPT !.at = "unbinding", !.of = m, !.row = rows[m]])
    /\ UNCHANGED <<time, covered, invoice, paid, renewals, rows>>

Unbind(h) ==
    /\ At(h, "unbinding")
    /\ rows' = IF rows[actor[h].of] = actor[h].row THEN [rows EXCEPT ![actor[h].of] = NoRow] ELSE rows
    /\ Finish(h)
    /\ UNCHANGED <<time, covered, invoice, paid, renewals, speed>>

-----------------------------------------------------------------------------
(* Heartbeats *)

RunsLow(p, clock) == covered[p] <= clock + RenewBelow

\* (faulty variant: the unlocked look is believed)
StillLowUnread(p, clock) == TRUE

StillLow(p, clock) == RunsLow(p, clock)

\* The unlocked look of ensure_mesh_pass_floor, for a claimed node
Beat(n) ==
    LET p == Owner[n]
        low == p # Nobody /\ HostDays > 0 /\ RunsLow(p, time)
    IN
    /\ At(n, "idle")
    /\ Goto(n, [Idle EXCEPT !.at = IF low THEN "renewing" ELSE "listing", !.pass = p, !.clock = time])
    /\ UNCHANGED <<time, covered, invoice, paid, renewals, rows, speed>>

LockForRenewal(n) ==
    /\ At(n, "renewing") /\ ~PassLocked(actor[n].pass)
    /\ Goto(n, [actor[n] EXCEPT !.at = IF StillLow(actor[n].pass, actor[n].clock) THEN "topping" ELSE "listing"])
    /\ UNCHANGED <<time, covered, invoice, paid, renewals, rows, speed>>

Renew(n) ==
    LET p == actor[n].pass IN
    /\ At(n, "topping")
    /\ covered' = [covered EXCEPT ![p] = actor[n].clock + HostDays]
    /\ renewals' = [renewals EXCEPT ![p] = @ + 1]
    /\ Goto(n, [actor[n] EXCEPT !.at = "listing"])
    /\ UNCHANGED <<time, invoice, paid, rows, speed>>

ActiveAt(clock) == {m \in Macs : rows[m] # NoRow /\ covered[rows[m].pass] > clock}

\* (faulty variant: every bound device is listed)
PaidClientsOfAnyPass(n, clock) == {m \in Macs : n = Terminator /\ rows[m] # NoRow}

\* The bound devices with an active pass that lease an address from this node
PaidClients(n, clock) == IF n = Terminator THEN ActiveAt(clock) ELSE {}

List(n) ==
    /\ At(n, "listing")
    /\ Goto(n, [actor[n] EXCEPT !.at = "replying", !.list = PaidClients(n, actor[n].clock)])
    /\ UNCHANGED <<time, covered, invoice, paid, renewals, rows, speed>>

\* The router takes the list over as a whole.
Reply(n) ==
    /\ At(n, "replying")
    /\ speed' = IF n = Terminator THEN actor[n].list ELSE speed
    /\ Finish(n)
    /\ UNCHANGED <<time, covered, invoice, paid, renewals, rows>>

\* The answer does not reach the router.
ReplyLost(n) ==
    /\ At(n, "replying")
    /\ Finish(n)
    /\ UNCHANGED <<time, covered, invoice, paid, renewals, rows, speed>>

-----------------------------------------------------------------------------
HandlerStep(h) ==
    \/ \E i \in Invoices : CheckInvoice(h, i)
    \/ \E p \in Profiles, m \in Macs : BeginBind(h, p, m) \/ BeginUnbind(h, p, m)
    \/ Answer(h) \/ LockCredit(h) \/ LockPass(h) \/ Extend(h)
    \/ LockForBind(h) \/ Bind(h) \/ Activate(h) \/ Unbind(h)

NodeStep(n) == Beat(n) \/ LockForRenewal(n) \/ Renew(n) \/ List(n) \/ Reply(n) \/ ReplyLost(n)

Next ==
    \/ Tick
    \/ \E i \in Invoices : AskInvoice(i) \/ PayInvoice(i) \/ ExpireInvoice(i)
    \/ \E h \in Handlers : HandlerStep(h)
    \/ \E n \in Nodes : NodeStep(n)
    \/ \E a \in Actors : Die(a)

\* A transaction ends. The terminator beats every five minutes, waits its turn
\* for the lock of the pass, and not all answers to it are lost.
Fairness ==
    /\ \A h \in Handlers : WF_vars(Extend(h)) /\ WF_vars(Bind(h))
    /\ \A n \in Nodes : WF_vars(Renew(n))
    /\ WF_vars(Beat(Terminator))
    /\ SF_vars(LockForRenewal(Terminator))
    /\ WF_vars(List(Terminator))
    /\ SF_vars(Reply(Terminator))

Spec == Init /\ [][Next]_vars /\ Fairness

-----------------------------------------------------------------------------
(* Properties *)

Ledger == INSTANCE PassLedger WITH credited <- {i \in Invoices : invoice[i] = "APPLIED"}

\* What polls, heartbeats, crashes and the expiry job do to a pass, in any
\* order, is what the ledger allows: a payment credited once, a renewal only of
\* a pass that runs low, never a day taken back.
KeepsLedger == Ledger!Spec

\* Binds that run at once never give a pass more devices than it allows, a
\* deleted row that a slow bind brings back included.
DeviceLimitHolds == \A p \in Profiles : Cardinality(BoundTo(p)) <= MaxDevices

Entitled(m) == rows[m] # NoRow /\ covered[rows[m].pass] > time

\* Once the terminator's heartbeats are no longer cut short, its list follows
\* the passes: a device whose binding or pass is gone loses its speed, one that
\* has both gets it, whatever calls over SSH failed or came late.
SpeedFollowsPass ==
    <>[][~Die(Terminator)]_vars =>
        \A m \in Macs :
            /\ (m \in speed /\ ~Entitled(m)) ~> (m \notin speed \/ Entitled(m))
            /\ (m \notin speed /\ Entitled(m)) ~> (m \in speed \/ ~Entitled(m))
=============================================================================
