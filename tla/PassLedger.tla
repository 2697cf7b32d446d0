------------------------------ MODULE PassLedger ------------------------------
(***************************************************************************)
(* What a mesh pass promises to its holder, whatever the server does       *)
(* inside: an invoice is credited once and only when it is paid, a credit  *)
(* adds its days to whatever is still covered, a hosted node tops the pass *)
(* up only when it runs low, and no step ever shortens a pass.             *)
(***************************************************************************)
EXTENDS Naturals

CONSTANTS
    Profiles,
    Invoices,
    Buyer,          \* the profile each invoice extends the pass of
    Granted,        \* days each profile starts with
    InvoiceDays,    \* days a paid invoice buys
    HostDays,       \* days ahead a live node keeps its owner covered
    RenewBelow      \* days left below which the node renews

VARIABLES
    time,       \* today
    covered,    \* the day each profile's pass expires
    paid,       \* invoices paid over Lightning
    credited,   \* invoices the pass was extended for
    renewals    \* extensions each profile got for hosting

vars == <<time, covered, paid, credited, renewals>>

Later(a, b) == IF a > b THEN a ELSE b

Init ==
    /\ time = 0
    /\ covered = Granted
    /\ paid = {}
    /\ credited = {}
    /\ renewals = [p \in Profiles |-> 0]

Tick ==
    /\ time' = time + 1
    /\ UNCHANGED <<covered, paid, credited, renewals>>

Pay(i) ==
    /\ paid' = paid \cup {i}
    /\ UNCHANGED <<time, covered, credited, renewals>>

\* The clock may have been read a while before the pass was written.
Credit(i) ==
    /\ i \in paid \ credited
    /\ credited' = credited \cup {i}
    /\ \E t \in 0 .. time :
          covered' = [covered EXCEPT ![Buyer[i]] = Later(@, t) + InvoiceDays]
    /\ UNCHANGED <<time, paid, renewals>>

Renew(p) ==
    /\ \E t \in 0 .. time :
          /\ covered[p] <= t + RenewBelow
          /\ covered' = [covered EXCEPT ![p] = t + HostDays]
    /\ renewals' = [renewals EXCEPT ![p] = @ + 1]
    /\ UNCHANGED <<time, paid, credited>>

Next ==
    \/ Tick
    \/ \E i \in Invoices : Pay(i) \/ Credit(i)
    \/ \E p \in Profiles : Renew(p)

Spec == Init /\ [][Next]_vars
=============================================================================
