----------------------------- MODULE PayoutsProofs -----------------------------
(***************************************************************************)
(* Proofs about Payouts.  On the rails where a wallet's answer or a        *)
(* preimage stands for the payment, nobody is credited with sats that      *)
(* never left the wallet, however many calls are lost, processes die and   *)
(* old rows are saved over new ones; one such mishap makes nobody earn     *)
(* more than was paid; each costs at most one more payment of a view, and  *)
(* puts the books out by at most one reward; without one the campaign      *)
(* stays under its ceiling and rows, payments and totals agree.            *)
(***************************************************************************)
EXTENDS Payouts, FiniteSetTheorems, TLAPS

-----------------------------------------------------------------------------
(* The inductive invariant *)

\* A thread that won has paid its view.
ServerInv ==
    \A h \in Threads :
        /\ thread[h].step # "idle" => thread[h].of \in Viewers
        /\ rail # "spark" /\ thread[h].step = "won" => paid[thread[h].of] > 0

\* A browser works on a view that exists; outside Spark it never has to look for
\* a transfer, and what it is about to report has been paid.
BrowserInv ==
    \A d \in Devices :
        /\ device[d].step \notin {"idle", "list"} => device[d].of \in Viewers
        /\ device[d].step \in {"idle", "list", "asked"} => device[d].invoice = 0
        /\ rail # "spark" => device[d].step \notin {"check", "resend"}
        /\ rail = "spark" => device[d].step # "resolved"
        /\ rail # "spark" /\ device[d].step = "paid" => paid[device[d].of] > 0

\* An old copy that says 'sent' brings back what was true.
ClickInv ==
    /\ click.step # "idle" => click.of \in Viewers
    /\ rail # "spark" /\ click.copy.status = "sent" => click.of \in Viewers /\ paid[click.of] > 0

\* An invoice belongs to one viewer, in the cache and in every browser,
Owned ==
    /\ \A u, v \in Viewers : cached[u] # 0 /\ cached[u] = cached[v] => u = v
    /\ \A d \in Devices, v \in Viewers :
          device[d].invoice # 0 /\ device[d].invoice = cached[v] => device[d].of = v
    /\ \A d, e \in Devices :
          device[d].invoice # 0 /\ device[d].invoice = device[e].invoice => device[d].of = device[e].of

\* is one that has been resolved,
Resolved ==
    /\ settled \subseteq 1 .. invoices
    /\ \A v \in Viewers : cached[v] <= invoices
    /\ \A d \in Devices :
          /\ device[d].invoice <= invoices
          /\ device[d].invoice # 0 => device[d].of \in Viewers
          /\ device[d].step = "resolved" => device[d].invoice # 0

\* and its payment has reached that viewer.
SettledMeansPaid ==
    /\ \A v \in Viewers : cached[v] \in settled => paid[v] > 0
    /\ \A d \in Devices : device[d].invoice \in settled => paid[device[d].of] > 0

Inv ==
    /\ TypeOK /\ ServerInv /\ BrowserInv /\ ClickInv
    /\ Owned /\ Resolved /\ SettledMeansPaid /\ ProvenMeansPaid

LEMMA InitInv == Init => Inv
<1> SUFFICES ASSUME Init PROVE Inv
  OBVIOUS
<1>1. view \in [Viewers -> View] /\ click.copy = NoView /\ NoView \in View
  BY DEF Init, View, NoView, NoClick
<1>2. thread \in [Threads -> Thread] /\ device \in [Devices -> Browser]
  BY DEF Init, Thread, Browser, DeviceSteps
<1>3. click \in [step : {"idle", "read", "locked"}, of : Viewers \cup {NoViewer}, copy : View, seen : Nat]
  BY <1>1 DEF Init, NoClick
<1>4. /\ lease \in [Viewers -> Devices \cup {NoDevice}] /\ ledger \in [Devices -> Nat]
      /\ cached \in [Viewers -> Nat] /\ paid \in [Viewers -> Nat] /\ earned \in [Viewers -> Nat]
  BY DEF Init
<1>5. /\ rail \in Rails /\ budget \in Budgets /\ spent \in Nat /\ claims \in Nat /\ invoices \in Nat
      /\ settled \subseteq Nat /\ edit \in Nat \cup {-1} /\ mishaps \in 0 .. MaxMishaps
  BY BoundAssumption DEF Init
<1>6. recent \in BOOLEAN
  BY Zenon DEF Init
<1>7. TypeOK
  BY <1>1, <1>2, <1>3, <1>4, <1>5, <1>6 DEF TypeOK
<1>8. ServerInv /\ BrowserInv /\ ClickInv
  BY DEF Init, ServerInv, BrowserInv, ClickInv, NoClick, NoView
<1>9. Owned /\ Resolved /\ SettledMeansPaid /\ ProvenMeansPaid
  BY DEF Init, Owned, Resolved, SettledMeansPaid, ProvenMeansPaid, SentMeansPaid, NoView
<1> QED
  BY <1>7, <1>8, <1>9 DEF Inv

-----------------------------------------------------------------------------
(* Lemmas about groups of variables *)

\* A browser goes on: it keeps its invoice or drops it.
Moves(d, r) ==
    /\ r \in Browser
    /\ device' = [device EXCEPT ![d] = r]
    /\ r.step \notin {"idle", "list"} => r.of \in Viewers
    /\ r.step \in {"idle", "list", "asked"} => r.invoice = 0
    /\ rail # "spark" => r.step \notin {"check", "resend"}
    /\ rail = "spark" => r.step # "resolved"
    /\ r.invoice = 0 \/ (r.invoice = device[d].invoice /\ r.of = device[d].of)
    /\ r.step = "resolved" => r.invoice # 0

LEMMA StepMoves ==
    ASSUME Inv, NEW d \in Devices, NEW step \in DeviceSteps, Step(d, step),
           device[d].step \notin {"idle", "list"},
           step \notin {"idle", "list", "asked", "resolved"}, rail # "spark" => step \notin {"check", "resend"}
    PROVE  \E r : Moves(d, r) /\ r.step = step /\ r.of = device[d].of
<1> DEFINE r == [device[d] EXCEPT !.step = step]
<1>1. device[d] \in Browser
  BY DEF Inv, TypeOK
<1>2. r \in Browser /\ r.step = step /\ r.of = device[d].of /\ r.invoice = device[d].invoice
  BY <1>1 DEF Browser
<1>3. device' = [device EXCEPT ![d] = r]
  BY DEF Inv, TypeOK, Step
<1> HIDE DEF r
<1>4. Moves(d, r)
  BY <1>2, <1>3 DEF Inv, BrowserInv, Moves
<1> QED
  BY <1>2, <1>4

LEMMA NextMoves ==
    ASSUME Inv, NEW d \in Devices, device' = [device EXCEPT ![d] = Next_(d)]
    PROVE  \E r : Moves(d, r) /\ r.step \in {"idle", "list"}
<1> DEFINE step == IF device[d].todo = {} THEN "idle" ELSE "list"
           seen == IF device[d].todo = {} THEN 0 ELSE device[d].seen
<1>1. device[d] \in Browser /\ device[d].seen \in Nat
  BY DEF Inv, TypeOK, Browser
<1>2. step \in {"idle", "list"} /\ step \in DeviceSteps /\ seen \in Nat
  BY <1>1 DEF DeviceSteps
<1>3. Next_(d) = [device[d] EXCEPT !.step = step, !.seen = seen, !.of = NoViewer, !.invoice = 0]
  BY DEF Next_
<1> HIDE DEF step, seen
<1>4. /\ device[d].todo \in SUBSET Viewers
      /\ Next_(d) = [step |-> step, todo |-> device[d].todo, seen |-> seen, of |-> NoViewer, invoice |-> 0]
  BY <1>1, <1>3 DEF Browser
<1>5. Next_(d) \in Browser /\ Next_(d).invoice = 0 /\ Next_(d).step = step
  BY <1>2, <1>4 DEF Browser
<1> QED
  BY <1>2, <1>5 DEF Moves

LEMMA ResetMoves ==
    ASSUME Inv, NEW d \in Devices, NEW todo \in SUBSET Viewers, NEW n \in Nat, NEW step \in {"idle", "list"},
           device' = [device EXCEPT ![d] = [step |-> step, todo |-> todo, seen |-> n, of |-> NoViewer, invoice |-> 0]]
    PROVE  \E r : Moves(d, r) /\ r.step \in {"idle", "list"}
<1> DEFINE r == [step |-> step, todo |-> todo, seen |-> n, of |-> NoViewer, invoice |-> 0]
<1>1. r \in Browser /\ r.step \in {"idle", "list"} /\ r.invoice = 0
  BY DEF Browser, DeviceSteps
<1> HIDE DEF r
<1>2. device' = [device EXCEPT ![d] = r]
  BY DEF r
<1> QED
  BY <1>1, <1>2 DEF Moves

\* What such a step keeps, when invoices are at most forgotten and payments made.
LEMMA MovesKeep ==
    ASSUME Inv, NEW d \in Devices, NEW r, Moves(d, r), UNCHANGED <<rail, invoices>>,
           cached' \in [Viewers -> Nat], \A v \in Viewers : cached'[v] \in {0, cached[v]},
           paid' \in [Viewers -> Nat], \A v \in Viewers : paid'[v] >= paid[v],
           settled' \subseteq settled \cup {device[d].invoice},
           settled' = settled \/ (device[d].invoice # 0 /\ paid'[device[d].of] > 0),
           rail # "spark" /\ r.step = "paid" => paid'[r.of] > 0
    PROVE  /\ device' \in [Devices -> Browser] /\ settled' \in SUBSET Nat
           /\ BrowserInv' /\ Owned' /\ Resolved' /\ SettledMeansPaid'
<1>1. /\ device' \in [Devices -> Browser]
      /\ device'[d] = r /\ \A e \in Devices : e # d => device'[e] = device[e]
  BY DEF Inv, TypeOK, Moves
<1>2. settled \subseteq 1 .. invoices /\ device[d].invoice \in Nat /\ invoices \in Nat
  BY DEF Inv, TypeOK, Browser, Resolved
<1>3. settled' \subseteq 1 .. invoices
  BY <1>2 DEF Inv, Resolved
<1>4. \A e \in Devices :
        /\ device'[e].invoice = 0 \/ (device'[e].invoice = device[e].invoice /\ device'[e].of = device[e].of)
        /\ device[e].of \in Viewers \/ device[e].invoice = 0
        /\ device[e].invoice \in Nat
  BY <1>1 DEF Inv, TypeOK, Browser, Resolved, Moves
<1>5. BrowserInv'
  <2> SUFFICES ASSUME NEW e \in Devices
               PROVE  /\ device'[e].step \notin {"idle", "list"} => device'[e].of \in Viewers
                      /\ device'[e].step \in {"idle", "list", "asked"} => device'[e].invoice = 0
                      /\ rail # "spark" => device'[e].step \notin {"check", "resend"}
                      /\ rail = "spark" => device'[e].step # "resolved"
                      /\ rail # "spark" /\ device'[e].step = "paid" => paid'[device'[e].of] > 0
    BY DEF BrowserInv
  <2>1. CASE e = d
    BY <1>1, <2>1 DEF Moves
  <2>2. CASE e # d
    BY <1>1, <2>2 DEF Inv, TypeOK, BrowserInv
  <2> QED
    BY <2>1, <2>2
<1>6. Owned'
  BY <1>4 DEF Inv, Owned
<1>7. Resolved'
  BY <1>1, <1>3, <1>4 DEF Inv, TypeOK, Resolved, Moves
<1>8. SettledMeansPaid'
  <2>1. 0 \notin settled'
    BY <1>3
  <2>2. \A v \in Viewers : cached'[v] \in settled' => paid'[v] > 0
    <3> SUFFICES ASSUME NEW v \in Viewers, cached'[v] \in settled' PROVE paid'[v] > 0
      OBVIOUS
    <3>1. cached'[v] = cached[v] /\ cached[v] # 0
      BY <2>1
    <3>2. CASE cached[v] \in settled
      BY <3>2 DEF Inv, TypeOK, SettledMeansPaid
    <3>3. CASE cached[v] = device[d].invoice /\ settled' # settled
      BY <3>1, <3>3 DEF Inv, Owned
    <3> QED
      BY <3>1, <3>2, <3>3
  <2>3. \A e \in Devices : device'[e].invoice \in settled' => paid'[device'[e].of] > 0
    <3> SUFFICES ASSUME NEW e \in Devices, device'[e].invoice \in settled' PROVE paid'[device'[e].of] > 0
      OBVIOUS
    <3>1. device'[e].invoice = device[e].invoice /\ device'[e].of = device[e].of /\ device[e].invoice # 0
      BY <1>4, <2>1
    <3>2. device[e].of \in Viewers
      BY <1>4, <3>1
    <3>3. CASE device[e].invoice \in settled
      BY <3>1, <3>2, <3>3 DEF Inv, TypeOK, SettledMeansPaid
    <3>4. CASE device[e].invoice = device[d].invoice /\ settled' # settled
      BY <3>1, <3>4 DEF Inv, Owned
    <3> QED
      BY <3>1, <3>3, <3>4
  <2> QED
    BY <2>2, <2>3 DEF SettledMeansPaid
<1> QED
  BY <1>1, <1>3, <1>5, <1>6, <1>7, <1>8

\* The same when no browser takes a step.
LEMMA BrowsersStay ==
    ASSUME Inv, UNCHANGED <<rail, device, invoices, settled>>,
           cached' \in [Viewers -> Nat], \A v \in Viewers : cached'[v] \in {0, cached[v]},
           paid' \in [Viewers -> Nat], \A v \in Viewers : paid'[v] >= paid[v]
    PROVE  BrowserInv' /\ Owned' /\ Resolved' /\ SettledMeansPaid'
<1>1. BrowserInv' /\ Owned' /\ Resolved'
  BY DEF Inv, TypeOK, BrowserInv, Owned, Resolved
<1>2. 0 \notin settled /\ \A d \in Devices : device[d].invoice \in settled => device[d].of \in Viewers
  BY DEF Inv, Resolved
<1>3. SettledMeansPaid'
  BY <1>2 DEF Inv, TypeOK, SettledMeansPaid
<1> QED
  BY <1>1, <1>3

\* Threads and saved copies are not disturbed by more payments.
LEMMA ServerStays ==
    ASSUME Inv, UNCHANGED <<rail, thread>>,
           paid' \in [Viewers -> Nat], \A v \in Viewers : paid'[v] >= paid[v]
    PROVE  ServerInv'
BY DEF Inv, TypeOK, ServerInv

LEMMA ClickStays ==
    ASSUME Inv, UNCHANGED <<rail, click>>,
           paid' \in [Viewers -> Nat], \A v \in Viewers : paid'[v] >= paid[v]
    PROVE  ClickInv'
BY DEF Inv, TypeOK, ClickInv

LEMMA BooksStay ==
    ASSUME Inv, UNCHANGED <<rail, earned>>, \A v \in Viewers : view'[v].status = view[v].status,
           paid' \in [Viewers -> Nat], \A v \in Viewers : paid'[v] >= paid[v]
    PROVE  ProvenMeansPaid'
BY DEF Inv, TypeOK, ProvenMeansPaid, SentMeansPaid

\* A credited view has been paid, a failed one may be anything.
LEMMA CreditKeeps ==
    ASSUME Inv, NEW v \in Viewers, Credit(v), UNCHANGED <<rail, paid>>, rail # "spark" => paid[v] > 0
    PROVE  /\ view' \in [Viewers -> View] /\ spent' \in Nat /\ earned' \in [Viewers -> Nat]
           /\ ProvenMeansPaid'
<1>1. view' \in [Viewers -> View]
  BY DEF Inv, TypeOK, View, Credit
<1>2. spent' \in Nat /\ earned' \in [Viewers -> Nat]
  BY RewardAssumption DEF Inv, TypeOK, Credit
<1>3. \A u \in Viewers : u # v => view'[u] = view[u] /\ earned'[u] = earned[u]
  BY DEF Inv, TypeOK, Credit
<1>4. ProvenMeansPaid'
  BY <1>3 DEF Inv, ProvenMeansPaid, SentMeansPaid
<1> QED
  BY <1>1, <1>2, <1>4

LEMMA FailsKeeps ==
    ASSUME Inv, NEW v \in Viewers, Fails(v), UNCHANGED <<rail, paid>>
    PROVE  /\ view' \in [Viewers -> View] /\ spent' \in Nat /\ earned' \in [Viewers -> Nat]
           /\ ProvenMeansPaid'
<1>1. view' \in [Viewers -> View]
  BY DEF Inv, TypeOK, View, Fails
<1>2. \A u \in Viewers : view'[u].status \in {view[u].status, "failed"}
  BY DEF Inv, TypeOK, View, Fails
<1>3. ProvenMeansPaid'
  BY <1>2 DEF Inv, ProvenMeansPaid, SentMeansPaid, Fails
<1> QED
  BY <1>1, <1>3 DEF Inv, TypeOK, Fails

-----------------------------------------------------------------------------
(* Every action keeps the invariant *)

LEMMA ClaimKeeps == ASSUME Inv, NEW v \in Viewers, Claim(v) PROVE Inv'
<1>1. /\ view' \in [Viewers -> View] /\ claims' \in Nat
      /\ \A u \in Viewers : view'[u].status = "sent" => view[u].status = "sent"
  <2> DEFINE s == IF rail = "server" THEN "pending" ELSE "queued"
             w == [view[v] EXCEPT !.status = s, !.fresh = TRUE, !.invoice = 0]
  <2>1. s \in {"pending", "queued"} /\ view[v] \in View
    BY DEF Inv, TypeOK
  <2>2. view' = [view EXCEPT ![v] = w]
    BY DEF Inv, TypeOK, Claim
  <2> HIDE DEF s
  <2>3. w \in View /\ w.status # "sent"
    BY <2>1 DEF View
  <2> HIDE DEF w
  <2>4. claims' \in Nat
    BY DEF Inv, TypeOK, Claim
  <2> QED
    BY <2>2, <2>3, <2>4 DEF Inv, TypeOK
<1>2. thread' \in [Threads -> Thread] /\ ServerInv'
  <2>1. CASE rail = "server"
    <3>1. PICK h \in Threads : thread' = [thread EXCEPT ![h] = [of |-> v, step |-> "paying"]]
      BY <2>1 DEF Claim
    <3>2. [of |-> v, step |-> "paying"] \in Thread
      BY DEF Thread
    <3> QED
      BY <3>1, <3>2 DEF Inv, TypeOK, ServerInv, Claim, campaign, wallet
  <2>2. CASE rail # "server"
    BY <2>2 DEF Inv, TypeOK, ServerInv, Claim, campaign, wallet
  <2> QED
    BY <2>1, <2>2
<1>3. TypeOK'
  BY <1>1, <1>2 DEF Inv, TypeOK, Claim, campaign, browsers, keys, wallet, editing
<1>4. BrowserInv' /\ Owned' /\ Resolved' /\ SettledMeansPaid' /\ ClickInv'
  BY BrowsersStay, ClickStays DEF Inv, TypeOK, Claim, campaign, browsers, keys, wallet, editing
<1>5. ProvenMeansPaid'
  BY <1>1 DEF Inv, ProvenMeansPaid, SentMeansPaid, Claim, campaign, wallet
<1> QED
  BY <1>2, <1>3, <1>4, <1>5 DEF Inv

LEMMA PayKeeps == ASSUME Inv, NEW h \in Threads, Pay(h) PROVE Inv'
<1>1. PICK moved, answered \in BOOLEAN :
        /\ thread' = [thread EXCEPT ![h].step = IF moved /\ answered THEN "won" ELSE "lost"]
        /\ paid' = [paid EXCEPT ![thread[h].of] = IF moved THEN @ + 1 ELSE @]
        /\ Mishap(moved /\ ~answered)
  BY DEF Pay
<1>2. thread[h].of \in Viewers
  BY DEF Inv, ServerInv, Pay
<1>3. /\ paid' \in [Viewers -> Nat] /\ \A v \in Viewers : paid'[v] >= paid[v]
      /\ moved => paid'[thread[h].of] > 0
  BY <1>1, <1>2 DEF Inv, TypeOK
<1>4. /\ thread' \in [Threads -> Thread]
      /\ thread'[h].of = thread[h].of /\ thread'[h].step = "won" => moved
      /\ \A g \in Threads : g # h => thread'[g] = thread[g]
  BY <1>1 DEF Inv, TypeOK, Thread
<1>5. mishaps' \in 0 .. MaxMishaps
  BY <1>1, BoundAssumption DEF Inv, TypeOK, Mishap
<1>6. TypeOK'
  BY <1>3, <1>4, <1>5 DEF Inv, TypeOK, Pay, campaign, books, browsers, keys, editing
<1>7. thread'[h].of = thread[h].of
  BY <1>1 DEF Inv, TypeOK, Thread
<1>8. ServerInv'
  BY <1>2, <1>3, <1>4, <1>7 DEF Inv, TypeOK, ServerInv, Pay, campaign
<1>9. BrowserInv' /\ Owned' /\ Resolved' /\ SettledMeansPaid' /\ ClickInv' /\ ProvenMeansPaid'
  BY <1>3, BrowsersStay, ClickStays, BooksStay
     DEF Inv, TypeOK, Pay, campaign, books, browsers, keys, editing
<1> QED
  BY <1>6, <1>8, <1>9 DEF Inv

LEMMA RecordKeeps == ASSUME Inv, NEW h \in Threads, Record(h) PROVE Inv'
<1>1. thread[h].of \in Viewers /\ rail # "spark" /\ thread[h].step = "won" => paid[thread[h].of] > 0
  BY DEF Inv, ServerInv, Record
<1>2. /\ view' \in [Viewers -> View] /\ spent' \in Nat /\ earned' \in [Viewers -> Nat]
      /\ ProvenMeansPaid'
  BY <1>1, CreditKeeps, FailsKeeps DEF Inv, ServerInv, Record, campaign, wallet
<1>3. thread' \in [Threads -> Thread] /\ ServerInv'
  <2>1. [of |-> NoViewer, step |-> "idle"] \in Thread
    BY DEF Thread
  <2> QED
    BY <2>1 DEF Inv, TypeOK, ServerInv, Record, campaign, wallet
<1>4. TypeOK'
  BY <1>2, <1>3 DEF Inv, TypeOK, Record, campaign, browsers, keys, wallet, editing
<1>5. BrowserInv' /\ Owned' /\ Resolved' /\ SettledMeansPaid' /\ ClickInv'
  BY BrowsersStay, ClickStays DEF Inv, TypeOK, Record, campaign, browsers, keys, wallet, editing
<1> QED
  BY <1>2, <1>3, <1>4, <1>5 DEF Inv

LEMMA WorkerDiesKeeps == ASSUME Inv, NEW h \in Threads, WorkerDies(h) PROVE Inv'
<1>1. thread' \in [Threads -> Thread] /\ ServerInv'
  <2>1. [of |-> NoViewer, step |-> "idle"] \in Thread
    BY DEF Thread
  <2> QED
    BY <2>1 DEF Inv, TypeOK, ServerInv, WorkerDies, campaign, wallet
<1>2. mishaps' \in 0 .. MaxMishaps
  BY BoundAssumption DEF Inv, TypeOK, WorkerDies, Mishap
<1>3. TypeOK'
  BY <1>1, <1>2 DEF Inv, TypeOK, WorkerDies, campaign, books, browsers, keys, wallet, editing
<1>4. BrowserInv' /\ Owned' /\ Resolved' /\ SettledMeansPaid' /\ ClickInv' /\ ProvenMeansPaid'
  BY BrowsersStay, ClickStays, BooksStay
     DEF Inv, TypeOK, WorkerDies, campaign, books, browsers, keys, wallet, editing
<1> QED
  BY <1>1, <1>3, <1>4 DEF Inv

\* What a step keeps that leaves threads, browsers, keys and invoices alone.
LEMMA RowsKeep ==
    ASSUME Inv, TypeOK', UNCHANGED <<campaign, earned, server, browsers, wallet>>, ClickInv',
           rail # "spark" => \A v \in Viewers : view'[v].status = "sent" => paid[v] > 0
    PROVE  Inv'
<1>1. UNCHANGED <<rail, earned, thread, device, cached, invoices, settled, paid>>
  BY DEF campaign, server, browsers, keys, wallet
<1>2. ServerInv' /\ BrowserInv' /\ Owned' /\ Resolved' /\ SettledMeansPaid'
  BY <1>1, ServerStays, BrowsersStay DEF Inv, TypeOK
<1>3. ProvenMeansPaid'
  BY <1>1 DEF Inv, ProvenMeansPaid, SentMeansPaid
<1> QED
  BY <1>2, <1>3 DEF Inv

LEMMA GrowsStaleKeeps == ASSUME Inv, NEW v \in Viewers, GrowsStale(v) PROVE Inv'
<1>1. view' \in [Viewers -> View] /\ \A u \in Viewers : view'[u].status = view[u].status
  BY DEF Inv, TypeOK, View, GrowsStale
<1>2. TypeOK' /\ ClickInv'
  BY <1>1, ClickStays DEF Inv, TypeOK, GrowsStale, campaign, server, browsers, keys, wallet, editing
<1> QED
  BY <1>1, <1>2, RowsKeep DEF Inv, ProvenMeansPaid, SentMeansPaid, GrowsStale

LEMMA ClickReadKeeps == ASSUME Inv, NEW v \in Viewers, ClickRead(v) PROVE Inv'
<1>1. view[v] \in View
  BY DEF Inv, TypeOK
<1>2. click' = [step |-> "read", of |-> v, copy |-> view[v], seen |-> 0]
  BY DEF ClickRead
<1>3. TypeOK'
  BY <1>1, <1>2 DEF Inv, TypeOK, ClickRead, campaign, books, server, browsers, keys, wallet
<1>4. ClickInv'
  BY <1>2 DEF Inv, ClickInv, ProvenMeansPaid, SentMeansPaid, ClickRead, campaign, wallet
<1> QED
  BY <1>3, <1>4, RowsKeep DEF Inv, ProvenMeansPaid, SentMeansPaid, ClickRead, books

LEMMA ClickLockKeeps == ASSUME Inv, ClickLock PROVE Inv'
<1>1. /\ click'.step = "locked" /\ click'.of = click.of /\ click'.copy = click.copy
      /\ click' \in [step : {"idle", "read", "locked"}, of : Viewers \cup {NoViewer}, copy : View, seen : Nat]
  BY DEF Inv, TypeOK, ClickLock
<1>2. TypeOK'
  BY <1>1 DEF Inv, TypeOK, ClickLock, campaign, books, server, browsers, keys, wallet
<1>3. ClickInv'
  BY <1>1 DEF Inv, ClickInv, ClickLock, campaign, wallet
<1> QED
  BY <1>2, <1>3, RowsKeep DEF Inv, ProvenMeansPaid, SentMeansPaid, ClickLock, books

LEMMA ClickCommitKeeps == ASSUME Inv, ClickCommit PROVE Inv'
<1>1. click.of \in Viewers /\ click.copy \in View /\ click.seen \in Nat
  BY DEF Inv, TypeOK, ClickInv, ClickCommit
<1> DEFINE copy == [click.copy EXCEPT !.clicked = TRUE]
<1>2. copy \in View /\ copy.status = click.copy.status
  BY <1>1 DEF View
<1>3. view' = [view EXCEPT ![click.of] = copy] /\ spent' = click.seen
  BY DEF ClickCommit
<1> HIDE DEF copy
<1>4. view' \in [Viewers -> View] /\ \A v \in Viewers :
        view'[v].status = "sent" => view[v].status = "sent" \/ (v = click.of /\ click.copy.status = "sent")
  BY <1>1, <1>2, <1>3 DEF Inv, TypeOK
<1>5. /\ click' = NoClick /\ mishaps' \in 0 .. MaxMishaps
      /\ NoClick \in [step : {"idle", "read", "locked"}, of : Viewers \cup {NoViewer}, copy : View, seen : Nat]
  BY BoundAssumption DEF Inv, TypeOK, ClickCommit, Mishap, NoClick, NoView, View
<1>6. TypeOK'
  BY <1>1, <1>3, <1>4, <1>5 DEF Inv, TypeOK, ClickCommit, campaign, server, browsers, keys, wallet
<1>7. ClickInv'
  BY <1>5 DEF ClickInv, NoClick, NoView
<1> QED
  BY <1>4, <1>6, <1>7, RowsKeep DEF Inv, ClickInv, ProvenMeansPaid, SentMeansPaid, ClickCommit

LEMMA EditKeeps == ASSUME Inv, EditRead \/ EditSave PROVE Inv'
<1>1. view' = view /\ edit' \in Nat \cup {-1} /\ spent' \in Nat /\ mishaps' \in 0 .. MaxMishaps
  BY BoundAssumption DEF Inv, TypeOK, EditRead, EditSave, Mishap, books
<1>2. UNCHANGED <<campaign, view, earned, server, browsers, wallet, click>>
  BY DEF EditRead, EditSave, books
<1>3. TypeOK'
  BY <1>1, <1>2 DEF Inv, TypeOK, campaign, server, browsers, keys, wallet
<1>4. ClickInv'
  BY <1>2 DEF Inv, ClickInv, campaign, wallet
<1> QED
  BY <1>2, <1>3, <1>4, RowsKeep DEF Inv, ProvenMeansPaid, SentMeansPaid

\* What a browser's step keeps that touches no row: it may forget invoices or pay.
LEMMA BrowserStepKeeps ==
    ASSUME Inv, NEW d \in Devices, NEW r, Moves(d, r), UNCHANGED <<campaign, server, editing, invoices>>,
           view' \in [Viewers -> View], spent' \in Nat, earned' \in [Viewers -> Nat], ProvenMeansPaid',
           lease' \in [Viewers -> Devices \cup {NoDevice}], ledger' \in [Devices -> Nat], recent' \in BOOLEAN,
           mishaps' \in 0 .. MaxMishaps,
           cached' \in [Viewers -> Nat], \A v \in Viewers : cached'[v] \in {0, cached[v]},
           paid' \in [Viewers -> Nat], \A v \in Viewers : paid'[v] >= paid[v],
           settled' \subseteq settled \cup {device[d].invoice},
           settled' = settled \/ (device[d].invoice # 0 /\ paid'[device[d].of] > 0),
           rail # "spark" /\ r.step = "paid" => paid'[r.of] > 0
    PROVE  Inv'
<1>1. /\ device' \in [Devices -> Browser] /\ settled' \in SUBSET Nat
      /\ BrowserInv' /\ Owned' /\ Resolved' /\ SettledMeansPaid'
  BY MovesKeep DEF campaign
<1>2. TypeOK'
  BY <1>1 DEF Inv, TypeOK, campaign, server, editing
<1>3. ServerInv' /\ ClickInv'
  BY ServerStays, ClickStays DEF campaign, server, editing
<1> QED
  BY <1>1, <1>2, <1>3 DEF Inv

LEMMA PaidStays ==
    ASSUME Inv, UNCHANGED <<paid, settled>>
    PROVE  /\ paid' \in [Viewers -> Nat] /\ \A v \in Viewers : paid'[v] >= paid[v]
           /\ \A d \in Devices : settled' \subseteq settled \cup {device[d].invoice}
  BY DEF Inv, TypeOK

LEMMA FetchKeeps == ASSUME Inv, NEW d \in Devices, Fetch(d) PROVE Inv'
<1>1. PICK r : Moves(d, r) /\ r.step \in {"idle", "list"}
  <2> DEFINE queued == {v \in Viewers : view[v].status = "queued"}
  <2>1. queued \in SUBSET Viewers /\ spent \in Nat
    BY DEF Inv, TypeOK
  <2>2. device' = [device EXCEPT ![d] = [step |-> "list", todo |-> queued, seen |-> spent,
                                        of |-> NoViewer, invoice |-> 0]]
    BY DEF Fetch
  <2> HIDE DEF queued
  <2> QED
    BY <2>1, <2>2, ResetMoves
<1>2. ProvenMeansPaid'
  BY DEF Inv, ProvenMeansPaid, SentMeansPaid, Fetch, campaign, books, wallet
<1> QED
  BY <1>1, <1>2, PaidStays, BrowserStepKeeps
     DEF Inv, TypeOK, Fetch, campaign, books, server, keys, editing, wallet

LEMMA TakeUpMoves ==
    ASSUME Inv, NEW d \in Devices, NEW v \in Viewers, TakeUp(d, v)
    PROVE  \E r : Moves(d, r) /\ r.step \in {"idle", "list", "asked"}
<1> DEFINE rest == device[d].todo \ {v}
           left == IF rest = {} THEN "idle" ELSE "list"
           seen == IF rest = {} THEN 0 ELSE device[d].seen
<1>1. /\ device[d] \in Browser /\ rest \in SUBSET Viewers /\ seen \in Nat
      /\ device[d].invoice = 0
  BY DEF Inv, TypeOK, Browser, BrowserInv, TakeUp
<1>2. CASE Verified(d) /\ view[v].status = "queued"
  <2> DEFINE r == [device[d] EXCEPT !.step = "asked", !.of = v, !.todo = rest]
  <2>1. r \in Browser /\ r.step = "asked" /\ r.of = v /\ r.invoice = 0
    BY <1>1 DEF Browser, DeviceSteps
  <2>2. device' = [device EXCEPT ![d] = r]
    BY <1>2 DEF Inv, TypeOK, TakeUp
  <2> HIDE DEF r
  <2> QED
    BY <2>1, <2>2 DEF Moves
<1>3. CASE ~(Verified(d) /\ view[v].status = "queued")
  <2> DEFINE r == [device[d] EXCEPT !.step = left, !.seen = seen, !.todo = rest]
  <2>1. left \in {"idle", "list"} /\ left \in DeviceSteps
    BY DEF DeviceSteps
  <2>2. device' = [device EXCEPT ![d] = r]
    BY <1>3 DEF Inv, TypeOK, TakeUp
  <2> HIDE DEF left, seen, rest
  <2>3. r \in Browser /\ r.step = left /\ r.invoice = 0
    BY <1>1, <2>1 DEF Browser
  <2> HIDE DEF r
  <2> QED
    BY <2>1, <2>2, <2>3 DEF Moves
<1> QED
  BY <1>2, <1>3

LEMMA TakeUpKeeps == ASSUME Inv, NEW d \in Devices, NEW v \in Viewers, TakeUp(d, v) PROVE Inv'
<1>1. PICK r : Moves(d, r) /\ r.step \in {"idle", "list", "asked"}
  BY TakeUpMoves
<1>2. ProvenMeansPaid'
  BY DEF Inv, ProvenMeansPaid, SentMeansPaid, TakeUp, campaign, books, wallet
<1> QED
  BY <1>1, <1>2, PaidStays, BrowserStepKeeps
     DEF Inv, TypeOK, TakeUp, campaign, books, server, keys, editing, wallet

LEMMA TakeLeaseKeeps == ASSUME Inv, NEW d \in Devices, TakeLease(d) PROVE Inv'
<1>1. lease' \in [Viewers -> Devices \cup {NoDevice}]
  BY DEF Inv, TypeOK, TakeLease
<1>2. PICK r : Moves(d, r) /\ r.step # "paid"
  <2>1. CASE LeaseFree(device[d].of)
    <3>1. Step(d, "leased")
      BY <2>1 DEF TakeLease, Step
    <3> QED
      BY <3>1, StepMoves DEF TakeLease, DeviceSteps
  <2>2. CASE ~LeaseFree(device[d].of)
    BY <2>2, NextMoves DEF TakeLease
  <2> QED
    BY <2>1, <2>2
<1>3. ProvenMeansPaid'
  BY DEF Inv, ProvenMeansPaid, SentMeansPaid, TakeLease, campaign, books, wallet
<1> QED
  BY <1>1, <1>2, <1>3, PaidStays, BrowserStepKeeps
     DEF Inv, TypeOK, TakeLease, campaign, books, server, editing, wallet

\* What a browser's last steps with a view do to the keys.
LEMMA KeysGo ==
    ASSUME Inv, NEW d \in Devices, DeleteLease(d) \/ DeleteInvoice(d) \/ DeviceDies(d)
    PROVE  /\ lease' \in [Viewers -> Devices \cup {NoDevice}]
           /\ cached' \in [Viewers -> Nat] /\ \A u \in Viewers : cached'[u] \in {0, cached[u]}
           /\ ledger' \in [Devices -> Nat] /\ mishaps' \in 0 .. MaxMishaps
<1>1. lease' \in [Viewers -> Devices \cup {NoDevice}]
  BY DEF Inv, TypeOK, DeleteLease, DeleteInvoice, DeviceDies, LeaseLost
<1>2. cached' \in [Viewers -> Nat] /\ \A u \in Viewers : cached'[u] \in {0, cached[u]}
  <2>1. cached' = cached \/ cached' = [cached EXCEPT ![device[d].of] = 0]
    BY DEF DeleteLease, DeleteInvoice, DeviceDies
  <2> QED
    BY <2>1 DEF Inv, TypeOK
<1>3. ledger' \in [Devices -> Nat] /\ mishaps' \in 0 .. MaxMishaps
  BY RewardAssumption, BoundAssumption
     DEF Inv, TypeOK, DeleteLease, DeleteInvoice, DeviceDies, Answered, LeaseLost, Mishap
<1> QED
  BY <1>1, <1>2, <1>3

LEMMA DeletesKeep == ASSUME Inv, NEW d \in Devices, DeleteLease(d) \/ DeleteInvoice(d) PROVE Inv'
<1>1. PICK r : Moves(d, r) /\ r.step # "paid"
  <2>1. CASE DeleteLease(d)
    <3>1. PICK step \in {"sentUnleased", "failedUnleased"} : Step(d, step)
      BY <2>1 DEF DeleteLease
    <3> QED
      BY <2>1, <3>1, StepMoves DEF DeleteLease, DeviceSteps
  <2>2. CASE DeleteInvoice(d)
    BY <2>2, NextMoves DEF DeleteInvoice, Answered
  <2> QED
    BY <2>1, <2>2
<1>2. ProvenMeansPaid'
  BY DEF Inv, ProvenMeansPaid, SentMeansPaid, DeleteLease, DeleteInvoice, campaign, books, wallet
<1> QED
  BY <1>1, <1>2, KeysGo, PaidStays, BrowserStepKeeps
     DEF Inv, TypeOK, DeleteLease, DeleteInvoice, campaign, books, server, keys, editing, wallet

LEMMA DeviceDiesKeeps == ASSUME Inv, NEW d \in Devices, DeviceDies(d) PROVE Inv'
<1>1. PICK r : Moves(d, r) /\ r.step \in {"idle", "list"}
  BY ResetMoves DEF DeviceDies
<1>2. ProvenMeansPaid'
  BY DEF Inv, ProvenMeansPaid, SentMeansPaid, DeviceDies, campaign, books, wallet
<1> QED
  BY <1>1, <1>2, KeysGo, PaidStays, BrowserStepKeeps
     DEF Inv, TypeOK, DeviceDies, campaign, books, server, keys, editing, wallet

LEMMA PaySparkKeeps == ASSUME Inv, NEW d \in Devices, PaySpark(d) PROVE Inv'
<1>1. PICK step \in {"paid", "check", "fail"} : Step(d, step)
  BY DEF PaySpark
<1>2. rail = "spark" /\ device[d].of \in Viewers
  BY DEF Inv, BrowserInv, PaySpark
<1>3. PICK r : Moves(d, r) /\ r.step = step
  BY <1>1, <1>2, StepMoves DEF PaySpark, DeviceSteps
<1>4. mishaps' \in 0 .. MaxMishaps
  BY BoundAssumption DEF Inv, TypeOK, PaySpark, Mishap
<1>5. /\ paid' \in [Viewers -> Nat] /\ \A v \in Viewers : paid'[v] >= paid[v]
      /\ recent' \in BOOLEAN
  BY <1>2 DEF Inv, TypeOK, PaySpark
<1>6. ProvenMeansPaid'
  BY <1>2 DEF ProvenMeansPaid, PaySpark, campaign
<1> QED
  BY <1>2, <1>3, <1>4, <1>5, <1>6, BrowserStepKeeps
     DEF Inv, TypeOK, PaySpark, campaign, books, server, keys, editing

LEMMA LookForSendKeeps == ASSUME Inv, NEW d \in Devices, LookForSend(d) PROVE Inv'
<1>1. PICK step \in {"resend", "fail"} : Step(d, step)
  BY DEF LookForSend
<1>2. rail = "spark"
  BY DEF Inv, BrowserInv, LookForSend
<1>3. PICK r : Moves(d, r) /\ r.step = step
  BY <1>1, <1>2, StepMoves DEF LookForSend, DeviceSteps
<1>4. mishaps' \in 0 .. MaxMishaps
  BY BoundAssumption DEF Inv, TypeOK, LookForSend, Mishap
<1>5. ProvenMeansPaid'
  BY <1>2 DEF ProvenMeansPaid, LookForSend, campaign
<1> QED
  BY <1>2, <1>3, <1>4, <1>5, PaidStays, BrowserStepKeeps
     DEF Inv, TypeOK, LookForSend, campaign, books, server, keys, editing, wallet

LEMMA PayInvoiceKeeps == ASSUME Inv, NEW d \in Devices, PayInvoice(d) PROVE Inv'
<1> DEFINE i == device[d].invoice
           v == device[d].of
<1>1. i # 0 /\ v \in Viewers
  BY DEF Inv, Resolved, PayInvoice
<1>2. PICK moved, answered, proof \in BOOLEAN :
        /\ i \in settled => ~moved
        /\ settled' = IF moved THEN settled \cup {i} ELSE settled
        /\ paid' = [paid EXCEPT ![v] = IF moved THEN @ + 1 ELSE @]
        /\ Mishap(moved /\ ~(answered /\ proof))
        /\ IF i \in settled' /\ answered
           THEN device' = [device EXCEPT ![d] = IF proof THEN [@ EXCEPT !.step = "paid"] ELSE Next_(d)]
           ELSE Step(d, "fail")
  BY DEF PayInvoice
<1>3. /\ paid' \in [Viewers -> Nat] /\ \A u \in Viewers : paid'[u] >= paid[u]
      /\ moved => paid'[v] > 0
  BY <1>1, <1>2 DEF Inv, TypeOK
<1>4. i \in settled' => paid'[v] > 0
  BY <1>1, <1>2, <1>3 DEF Inv, TypeOK, SettledMeansPaid
<1>5. mishaps' \in 0 .. MaxMishaps
  BY <1>2, BoundAssumption DEF Inv, TypeOK, Mishap
<1>6. PICK r : Moves(d, r) /\ (r.step = "paid" => r.of = v /\ i \in settled')
  <2>1. CASE i \in settled' /\ answered /\ proof
    <3>1. Step(d, "paid")
      BY <1>2, <2>1 DEF Step
    <3> QED
      BY <2>1, <3>1, StepMoves DEF PayInvoice, DeviceSteps
  <2>2. CASE i \in settled' /\ answered /\ ~proof
    <3>1. device' = [device EXCEPT ![d] = Next_(d)]
      BY <1>2, <2>2
    <3> QED
      BY <3>1, NextMoves
  <2>3. CASE ~(i \in settled' /\ answered)
    <3>1. Step(d, "fail")
      BY <1>2, <2>3
    <3> QED
      BY <3>1, StepMoves DEF PayInvoice, DeviceSteps
  <2> QED
    BY <2>1, <2>2, <2>3
<1>7. ProvenMeansPaid'
  BY <1>3, BooksStay DEF PayInvoice, campaign, books
<1>8. settled' \subseteq settled \cup {i} /\ (settled' = settled \/ (i # 0 /\ paid'[v] > 0))
  BY <1>1, <1>2, <1>3
<1> QED
  BY <1>3, <1>4, <1>5, <1>6, <1>7, <1>8, BrowserStepKeeps
     DEF Inv, TypeOK, PayInvoice, campaign, books, server, keys, editing

\* The one step that names an invoice: it takes the cached one, or a new one.
LEMMA ResolveKeeps == ASSUME Inv, NEW d \in Devices, Resolve(d) PROVE Inv'
<1> DEFINE v == device[d].of
           i == IF cached[v] # 0 THEN cached[v] ELSE invoices + 1
<1>1. v \in Viewers /\ device[d] \in Browser
  BY DEF Inv, TypeOK, BrowserInv, Resolve
<1>a. mishaps' \in 0 .. MaxMishaps
  BY BoundAssumption DEF Inv, TypeOK, Resolve, Mishap
<1>2. CASE view[v].status # "queued"
  <2>1. Step(d, "fail") /\ UNCHANGED <<invoices, cached, view>>
    BY <1>2 DEF Resolve
  <2>2. PICK r : Moves(d, r) /\ r.step = "fail"
    BY <2>1, StepMoves DEF Resolve, DeviceSteps
  <2>3. ProvenMeansPaid'
    BY <2>1 DEF Inv, ProvenMeansPaid, SentMeansPaid, Resolve, campaign, wallet
  <2> QED
    BY <1>a, <2>1, <2>2, <2>3, PaidStays, BrowserStepKeeps
       DEF Inv, TypeOK, Resolve, campaign, server, editing, wallet
<1>3. CASE view[v].status = "queued"
  <2> DEFINE r == [device[d] EXCEPT !.step = "resolved", !.invoice = i]
  <2>1. /\ i \in Nat /\ i # 0 /\ i <= invoices' /\ invoices' \in Nat /\ invoices <= invoices'
        /\ i \in settled => cached[v] = i
    BY <1>1, <1>3 DEF Inv, TypeOK, Resolved, Resolve
  <2>2. /\ cached' = [cached EXCEPT ![v] = i]
        /\ \A u \in Viewers : u # v => cached[u] # i
    BY <1>1, <1>3 DEF Inv, TypeOK, Owned, Resolved, Resolve
  <2>3. \A e \in Devices : device[e].invoice = i => device[e].of = v
    BY <1>1, <2>1 DEF Inv, TypeOK, Browser, Owned, Resolved
  <2>4. device' = [device EXCEPT ![d] = r]
    BY <1>3 DEF Inv, TypeOK, Resolve
  <2>5. view' \in [Viewers -> View] /\ \A u \in Viewers : view'[u].status = view[u].status
    <3> DEFINE w == [view[v] EXCEPT !.invoice = i]
    <3>1. view \in [Viewers -> View] /\ view[v] \in View
      BY <1>1 DEF Inv, TypeOK
    <3>2. w \in View /\ w.status = view[v].status
      BY <2>1, <3>1 DEF View
    <3>3. view' = view \/ view' = [view EXCEPT ![v] = w]
      BY <1>1, <1>3 DEF Resolve
    <3> HIDE DEF w
    <3> QED
      BY <1>1, <3>1, <3>2, <3>3
  <2> HIDE DEF i
  <2>6. r \in Browser /\ r.step = "resolved" /\ r.of = v /\ r.invoice = i
    BY <1>1, <2>1 DEF Browser, DeviceSteps
  <2> HIDE DEF r
  <2>7. /\ device' \in [Devices -> Browser] /\ device'[d] = r
        /\ \A e \in Devices : e # d => device'[e] = device[e]
        /\ cached' \in [Viewers -> Nat] /\ cached'[v] = i
        /\ \A u \in Viewers : u # v => cached'[u] = cached[u]
        /\ UNCHANGED <<settled, paid, rail>>
    BY <1>1, <2>1, <2>2, <2>4, <2>6 DEF Inv, TypeOK, Resolve, wallet, campaign
  <2>8. TypeOK'
    BY <1>a, <2>1, <2>5, <2>7 DEF Inv, TypeOK, Resolve, campaign, server, wallet, editing
  <2>9. BrowserInv'
    BY <1>1, <2>6, <2>7 DEF Inv, BrowserInv, Resolve
  <2>10. Owned'
    <3>1. \A u, w \in Viewers : cached'[u] # 0 /\ cached'[u] = cached'[w] => u = w
      BY <1>1, <2>2, <2>7 DEF Inv, Owned
    <3>2. \A e \in Devices : device'[e].invoice = i => device'[e].of = v
      BY <2>3, <2>6, <2>7
    <3>3. \A e \in Devices, u \in Viewers :
            device'[e].invoice # 0 /\ device'[e].invoice = cached'[u] => device'[e].of = u
      BY <2>2, <2>6, <2>7, <3>2 DEF Inv, Owned
    <3>4. \A e, f \in Devices :
            device'[e].invoice # 0 /\ device'[e].invoice = device'[f].invoice => device'[e].of = device'[f].of
      BY <2>6, <2>7, <3>2 DEF Inv, Owned
    <3> QED
      BY <3>1, <3>3, <3>4 DEF Owned
  <2>11. Resolved'
    <3>1. settled' \subseteq 1 .. invoices'
      BY <2>1, <2>7 DEF Inv, TypeOK, Resolved
    <3>2. \A u \in Viewers : cached'[u] <= invoices'
      BY <2>1, <2>7 DEF Inv, TypeOK, Resolved
    <3>3. \A e \in Devices :
            /\ device'[e].invoice <= invoices'
            /\ device'[e].invoice # 0 => device'[e].of \in Viewers
            /\ device'[e].step = "resolved" => device'[e].invoice # 0
      BY <1>1, <2>1, <2>6, <2>7 DEF Inv, TypeOK, Browser, Resolved
    <3> QED
      BY <3>1, <3>2, <3>3 DEF Resolved
  <2>12. SettledMeansPaid'
    BY <1>1, <2>1, <2>6, <2>7 DEF Inv, SettledMeansPaid
  <2>13. ServerInv' /\ ClickInv' /\ ProvenMeansPaid'
    BY <2>5, <2>7 DEF Inv, ServerInv, ClickInv, ProvenMeansPaid, SentMeansPaid, Resolve, server, editing
  <2> QED
    BY <2>8, <2>9, <2>10, <2>11, <2>12, <2>13 DEF Inv
<1> QED
  BY <1>2, <1>3

\* Time passes: an invoice or a lease is forgotten, a payment is no longer recent.
LEMMA ForgetKeeps ==
    ASSUME Inv, TwoMinutesPass \/ (\E v \in Viewers : InvoiceForgotten(v) \/ LeaseExpires(v))
    PROVE  Inv'
<1>1. /\ cached' \in [Viewers -> Nat] /\ \A v \in Viewers : cached'[v] \in {0, cached[v]}
      /\ lease' \in [Viewers -> Devices \cup {NoDevice}]
  <2>1. cached \in [Viewers -> Nat] /\ lease \in [Viewers -> Devices \cup {NoDevice}]
    BY DEF Inv, TypeOK
  <2>2. CASE UNCHANGED <<cached, lease>>
    BY <2>1, <2>2
  <2>3. CASE \E v \in Viewers : InvoiceForgotten(v)
    BY <2>1, <2>3 DEF InvoiceForgotten
  <2>4. CASE \E v \in Viewers : LeaseExpires(v)
    BY <2>1, <2>4 DEF LeaseExpires, LeaseLost
  <2> QED
    BY <2>2, <2>3, <2>4 DEF TwoMinutesPass, keys
<1>2. mishaps' \in 0 .. MaxMishaps
  BY BoundAssumption DEF Inv, TypeOK, TwoMinutesPass, InvoiceForgotten, LeaseExpires, LeaseLost, Mishap
<1>3. recent' \in BOOLEAN
  BY Zenon DEF Inv, TypeOK, TwoMinutesPass, InvoiceForgotten, LeaseExpires
<1>4. UNCHANGED <<campaign, books, server, device, ledger, invoices, wallet, editing>>
  BY DEF TwoMinutesPass, InvoiceForgotten, LeaseExpires
<1>5. TypeOK'
  BY <1>1, <1>2, <1>3, <1>4 DEF Inv, TypeOK, campaign, books, server, wallet, editing
<1>6. BrowserInv' /\ Owned' /\ Resolved' /\ SettledMeansPaid'
  BY <1>1, <1>4, PaidStays, BrowsersStay DEF campaign, wallet
<1>7. ServerInv' /\ ClickInv' /\ ProvenMeansPaid'
  BY <1>4, PaidStays, ServerStays, ClickStays, BooksStay DEF campaign, books, server, wallet, editing
<1> QED
  BY <1>5, <1>6, <1>7 DEF Inv

\* A report moves the books, and an answer that is lost the keys.
LEMMA CompleteKeeps ==
    ASSUME Inv, NEW v \in Viewers, NEW i, UNCHANGED <<rail, paid>>,
           \/ CompleteSent(v, i) /\ (rail # "spark" => paid[v] > 0)
           \/ CompleteFailed(v)
           \/ UNCHANGED books
    PROVE  /\ view' \in [Viewers -> View] /\ spent' \in Nat /\ earned' \in [Viewers -> Nat]
           /\ ProvenMeansPaid'
<1>1. CASE Credit(v) /\ (rail # "spark" => paid[v] > 0)
  BY <1>1, CreditKeeps
<1>2. CASE Fails(v)
  BY <1>2, FailsKeeps
<1>3. CASE UNCHANGED books
  BY <1>3 DEF Inv, TypeOK, ProvenMeansPaid, SentMeansPaid, books
<1> QED
  BY <1>1, <1>2, <1>3 DEF CompleteSent, CompleteFailed

LEMMA ReportSentKeeps == ASSUME Inv, NEW d \in Devices, ReportSent(d) PROVE Inv'
<1> DEFINE v == device[d].of
           i == device[d].invoice
           changed == view[v].status # "sent" /\ ProofFits(v, i)
<1>1. v \in Viewers /\ (rail # "spark" => paid[v] > 0)
  BY DEF Inv, BrowserInv, ReportSent
<1>2. PICK delivered, answered \in BOOLEAN :
        /\ IF delivered THEN CompleteSent(v, i) ELSE UNCHANGED books
        /\ IF delivered /\ changed /\ ~answered THEN Forget(v) ELSE UNCHANGED keys
        /\ Mishap(~(delivered /\ answered))
        /\ IF delivered /\ answered /\ Accepted(v, i)
           THEN IF changed THEN Step(d, "sent") /\ UNCHANGED ledger ELSE Answered(d)
           ELSE /\ UNCHANGED ledger
                /\ Step(d, IF rail = "spark" /\ device[d].step = "paid" THEN "check" ELSE "fail")
  BY DEF ReportSent
<1> HIDE DEF changed
<1>3. UNCHANGED <<rail, paid, settled>>
  BY DEF ReportSent, campaign, wallet
<1>4. /\ view' \in [Viewers -> View] /\ spent' \in Nat /\ earned' \in [Viewers -> Nat]
      /\ ProvenMeansPaid'
  BY <1>1, <1>2, <1>3, CompleteKeeps
<1>5. /\ lease' \in [Viewers -> Devices \cup {NoDevice}]
      /\ cached' \in [Viewers -> Nat] /\ \A u \in Viewers : cached'[u] \in {0, cached[u]}
  BY <1>2 DEF Inv, TypeOK, Forget, keys
<1>6. mishaps' \in 0 .. MaxMishaps
  BY <1>2, BoundAssumption DEF Inv, TypeOK, Mishap
<1>7. ledger' \in [Devices -> Nat]
  BY <1>2, RewardAssumption DEF Inv, TypeOK, Answered
<1>8. PICK r : Moves(d, r) /\ r.step # "paid"
  <2>1. CASE Answered(d)
    BY <2>1, NextMoves DEF Answered
  <2>2. CASE Step(d, "check") /\ rail = "spark"
    BY <2>2, StepMoves DEF ReportSent, DeviceSteps
  <2>3. CASE Step(d, "fail") \/ Step(d, "sent")
    BY <2>3, StepMoves DEF ReportSent, DeviceSteps
  <2> QED
    BY <1>2, <2>1, <2>2, <2>3
<1> QED
  BY <1>3, <1>4, <1>5, <1>6, <1>7, <1>8, PaidStays, BrowserStepKeeps
     DEF Inv, TypeOK, ReportSent, campaign, server, editing

LEMMA ReportFailedKeeps == ASSUME Inv, NEW d \in Devices, ReportFailed(d) PROVE Inv'
<1> DEFINE v == device[d].of
<1>1. v \in Viewers
  BY DEF Inv, BrowserInv, ReportFailed
<1>2. UNCHANGED <<rail, paid, settled>>
  BY DEF ReportFailed, campaign, wallet
<1>3. /\ view' \in [Viewers -> View] /\ spent' \in Nat /\ earned' \in [Viewers -> Nat]
      /\ ProvenMeansPaid'
  BY <1>1, <1>2, CompleteKeeps DEF ReportFailed
<1>4. mishaps' \in 0 .. MaxMishaps
  BY BoundAssumption DEF Inv, TypeOK, ReportFailed, Mishap
<1>5. PICK r : Moves(d, r) /\ r.step # "paid"
  <2>1. CASE Step(d, "failed")
    BY <2>1, StepMoves DEF ReportFailed, DeviceSteps
  <2>2. CASE device' = [device EXCEPT ![d] = Next_(d)]
    BY <2>2, NextMoves
  <2> QED
    BY <2>1, <2>2 DEF ReportFailed, Step
<1> QED
  BY <1>2, <1>3, <1>4, <1>5, PaidStays, BrowserStepKeeps
     DEF Inv, TypeOK, ReportFailed, campaign, server, keys, editing

-----------------------------------------------------------------------------
(* The theorems *)

LEMMA StepKeepsInv == Inv /\ [Next]_vars => Inv'
<1> SUFFICES ASSUME Inv, [Next]_vars PROVE Inv'
  OBVIOUS
<1>1. CASE \E v \in Viewers : ViewStep(v)
  BY <1>1, ClaimKeeps, GrowsStaleKeeps, ForgetKeeps, ClickReadKeeps DEF ViewStep
<1>2. CASE \E h \in Threads : ServerStep(h)
  BY <1>2, PayKeeps, RecordKeeps, WorkerDiesKeeps DEF ServerStep
<1>3. CASE \E d \in Devices : DeviceStep(d)
  <2> SUFFICES ASSUME NEW d \in Devices, DeviceStep(d) PROVE Inv'
    BY <1>3
  <2> QED
    BY FetchKeeps, TakeUpKeeps, TakeLeaseKeeps, DeletesKeep, PaySparkKeeps, LookForSendKeeps, ResolveKeeps, PayInvoiceKeeps,
       ReportSentKeeps, ReportFailedKeeps, DeviceDiesKeeps DEF DeviceStep
<1>4. CASE TwoMinutesPass \/ ClickLock \/ ClickCommit \/ EditRead \/ EditSave
  BY <1>4, ForgetKeeps, ClickLockKeeps, ClickCommitKeeps, EditKeeps
<1>5. CASE UNCHANGED vars
  <2>1. UNCHANGED <<campaign, books, server, browsers, wallet, editing, mishaps>>
    BY <1>5 DEF vars
  <2>2. TypeOK' /\ ClickInv'
    BY <2>1 DEF Inv, TypeOK, ClickInv, campaign, books, server, browsers, keys, wallet, editing
  <2> QED
    BY <2>1, <2>2, RowsKeep DEF Inv, ProvenMeansPaid, SentMeansPaid, books
<1> QED
  BY <1>1, <1>2, <1>3, <1>4, <1>5 DEF Next

\* The inductive invariant: who is about to report, which invoice is whose, and
\* which old copies are about, for any number of viewers, threads and browsers.
THEOREM PayoutInvHolds == Spec => []Inv
BY InitInv, StepKeepsInv, PTL DEF Spec

\* Rows, leases, caches and ledgers keep their types.
THEOREM PayoutTypeCorrect == Spec => []TypeOK
<1>1. Inv => TypeOK
  BY DEF Inv
<1> QED
  BY <1>1, PayoutInvHolds, PTL

\* Where 'sent' rests on the answer of a wallet or on a preimage, nobody is shown
\* a reward as paid, or credited with it, unless sats have left the wallet for
\* him: with any number of lost calls, deaths, retries and overwritten rows,
\* where the run allows one.
THEOREM NoCreditWithoutPayment == Spec => []ProvenMeansPaid
<1>1. Inv => ProvenMeansPaid
  BY DEF Inv
<1> QED
  BY <1>1, PayoutInvHolds, PTL

-----------------------------------------------------------------------------
(* The books *)

Sent == {v \in Viewers : view[v].status = "sent"}

\* Only threads pay on the rail "server", only browsers on the others; an old
\* copy does not bring the other rail's statuses in.
RailInv ==
    /\ \A h \in Threads : thread[h].step # "idle" => rail = "server"
    /\ rail = "server" => \A d \in Devices : device[d].step = "idle"
    /\ LET other == IF rail = "server" THEN "queued" ELSE "pending"
       IN  click.copy.status # other /\ \A v \in Viewers : view[v].status # other

\* The threads that will credit v.
Winners(v) == {h \in Threads : thread[h].step = "won" /\ thread[h].of = v}

\* A cached invoice is about to be deleted.
Going(v) == \E d \in Devices : device[d].of = v /\ Deleting(d)

\* An invoice that a browser can still pay or report.
Live(i) ==
    \/ \E v \in Viewers : cached[v] = i /\ ~Going(v)
    \/ \E d \in Devices : device[d].invoice = i /\ device[d].step \in {"resolved", "paid"}

\* What a thread may still credit, it has paid.
ServerCredit ==
    rail = "server" => \A v \in Viewers : earned[v] + Reward * Cardinality(Winners(v)) <= Reward * paid[v]

\* An invoice on a row, or on an old copy of it, is that viewer's.
InvoicesFit == rail = "lnurl" =>
    /\ \A d \in Devices : device[d].step = "paid" => device[d].invoice \in settled
    /\ \A v \in Viewers, d \in Devices :
          device[d].invoice # 0 /\ device[d].invoice = view[v].invoice => device[d].of = v
    /\ \A u, v \in Viewers : cached[u] # 0 /\ cached[u] = view[v].invoice => u = v
    /\ \A d \in Devices :
          device[d].invoice # 0 /\ device[d].invoice = click.copy.invoice => device[d].of = click.of
    /\ \A u \in Viewers : cached[u] # 0 /\ cached[u] = click.copy.invoice => u = click.of
    /\ click.copy.invoice <= invoices /\ \A v \in Viewers : view[v].invoice <= invoices

\* What can still be reported with an invoice that is settled and live has been
\* paid and not been credited.
LnurlCredit == rail = "lnurl" /\ mishaps <= 1 =>
    \A v \in Viewers :
        /\ earned[v] <= Reward * paid[v]
        /\ view[v].status # "sent" /\ view[v].invoice \in settled /\ Live(view[v].invoice) =>
              earned[v] + Reward <= Reward * paid[v]

CreditInv == ServerCredit /\ InvoicesFit /\ LnurlCredit

\* A browser that has taken a lease and not reported yet
Working(d) == device[d].step \notin {"idle", "list", "asked"} /\ ~Deleting(d)

\* A thread holds its view, which stays pending until the thread is done.
ThreadsExact ==
    /\ \A h \in Threads : thread[h].step # "idle" =>
         /\ view[thread[h].of].status = "pending"
         /\ paid[thread[h].of] = IF thread[h].step = "won" THEN 1 ELSE 0
         /\ \A g \in Threads : thread[g].step # "idle" /\ thread[g].of = thread[h].of => g = h
    /\ \A v \in Viewers : view[v].status = "pending" =>
         view[v].fresh /\ \E h \in Threads : thread[h].step # "idle" /\ thread[h].of = v

\* One whose lease has not been deleted by itself
Holding(d) == Working(d) \/ device[d].step \in {"sent", "failed"}

LeasesHeld == \A d \in Devices : Holding(d) => lease[device[d].of] = d

\* One that pays or has paid finds the view queued and its own invoice on the row.
\* One whose lease came late finds a payment only where it has been reported.
StepsExact ==
    \A d \in Devices :
        /\ device[d].step \in {"resolved", "paid"} =>
             /\ view[device[d].of].status = "queued"
             /\ rail = "lnurl" => device[d].invoice # 0 /\ device[d].invoice = view[device[d].of].invoice
        /\ device[d].step = "paid" => paid[device[d].of] = 1
        /\ device[d].step = "resend" => view[device[d].of].status = "sent"

\* A cached invoice that nobody is deleting is the row's.
CacheExact ==
    \A v \in Viewers : cached[v] # 0 /\ ~Going(v) => view[v].status = "queued" /\ view[v].invoice = cached[v]

DevicesExact == LeasesHeld /\ StepsExact /\ CacheExact

\* The browsers that have paid v and not reported it yet
Payers(v) == {d \in Devices : device[d].step = "paid" /\ device[d].of = v}

ViewsExact ==
    \A v \in Viewers :
        /\ view[v].status \in {"none", "failed"} => paid[v] = 0
        /\ view[v].status = "sent" => paid[v] = 1
        /\ view[v].status = "queued" /\ Payers(v) = {} => paid[v] = 0
        /\ earned[v] = IF view[v].status = "sent" THEN Reward ELSE 0

SumsExact ==
    /\ spent = Reward * Cardinality(Sent)
    /\ spent + Reward * Cardinality(InFlight) <= budget

AllExact == ThreadsExact /\ DevicesExact /\ ViewsExact /\ SumsExact

\* As long as nothing goes wrong
Exact == mishaps = 0 => AllExact

LEMMA RailInit == Init => RailInv
  BY DEF Init, RailInv, NoClick, NoView

\* What happens to the views and the copy, as far as rails are concerned.
LEMMA StatusesStay ==
    ASSUME Inv, RailInv, UNCHANGED <<rail, click>>,
           \A v \in Viewers : view'[v].status \in {view[v].status, "sent", "failed"}
    PROVE  LET other == IF rail' = "server" THEN "queued" ELSE "pending"
           IN  click'.copy.status # other /\ \A v \in Viewers : view'[v].status # other
  BY DEF RailInv

LEMMA CreditStatus ==
    ASSUME Inv, NEW u \in Viewers, Credit(u)
    PROVE  \A v \in Viewers : view'[v].status = IF v = u THEN "sent" ELSE view[v].status
  BY DEF Inv, TypeOK, View, Credit

LEMMA FailsStatus ==
    ASSUME Inv, NEW u \in Viewers, Fails(u)
    PROVE  \A v \in Viewers : view'[v].status = IF v = u THEN "failed" ELSE view[v].status
  BY DEF Inv, TypeOK, View, Fails

LEMMA RailViewStep ==
    ASSUME Inv, RailInv, NEW v \in Viewers, ViewStep(v)
    PROVE  RailInv'
<1>1. CASE Claim(v)
  <2> DEFINE s == IF rail = "server" THEN "pending" ELSE "queued"
  <2>1. view' = [view EXCEPT ![v].status = s, ![v].fresh = TRUE, ![v].invoice = 0]
    BY <1>1 DEF Claim
  <2>2. \A u \in Viewers : view'[u].status = IF u = v THEN s ELSE view[u].status
    BY <2>1 DEF Inv, TypeOK, View
  <2>3. \A h \in Threads : thread'[h].step # "idle" => rail = "server"
    BY <1>1 DEF Claim, Inv, TypeOK, RailInv
  <2>4. UNCHANGED <<rail, device, click>>
    BY <1>1 DEF Claim, campaign, browsers, keys, editing
  <2>5. \A u \in Viewers : view'[u].status # IF rail = "server" THEN "queued" ELSE "pending"
    BY <2>2 DEF RailInv
  <2> QED
    BY <2>3, <2>4, <2>5 DEF RailInv
<1>2. CASE GrowsStale(v)
  <2>1. \A u \in Viewers : view'[u].status = view[u].status
    BY <1>2 DEF GrowsStale, Inv, TypeOK, View
  <2> QED
    BY <1>2, <2>1 DEF GrowsStale, RailInv, campaign, server, browsers, keys, editing
<1>3. CASE InvoiceForgotten(v) \/ LeaseExpires(v)
  BY <1>3 DEF InvoiceForgotten, LeaseExpires, RailInv, campaign, books, server, editing
<1>4. CASE ClickRead(v)
  BY <1>4 DEF ClickRead, RailInv, campaign, books, server, browsers, keys, editing
<1> QED
  BY <1>1, <1>2, <1>3, <1>4 DEF ViewStep

LEMMA RailServerStep ==
    ASSUME Inv, RailInv, NEW h \in Threads, ServerStep(h)
    PROVE  RailInv'
<1>1. \A g \in Threads : thread'[g].step # "idle" => thread[g].step # "idle"
  BY DEF ServerStep, Pay, Record, WorkerDies, Inv, TypeOK
<1>2. CASE Record(h)
  <2>1. thread[h].of \in Viewers
    BY <1>2 DEF Record, Inv, ServerInv
  <2>2. \A v \in Viewers : view'[v].status \in {view[v].status, "sent", "failed"}
    BY <1>2, <2>1, CreditStatus, FailsStatus DEF Record
  <2> QED
    BY <1>1, <1>2, <2>2 DEF Record, RailInv, campaign, browsers, keys, editing
<1>3. CASE Pay(h) \/ WorkerDies(h)
  BY <1>1, <1>3 DEF Pay, WorkerDies, RailInv, campaign, books, browsers, keys, editing
<1> QED
  BY <1>2, <1>3 DEF ServerStep

\* On the rail "server" no browser ever finds anything to do.
LEMMA BrowsersOffServer ==
    ASSUME Inv, RailInv, NEW d \in Devices, DeviceStep(d)
    PROVE  rail # "server" /\ UNCHANGED <<rail, budget, claims, thread, click, edit>>
<1>1. rail # "server"
  BY DEF DeviceStep, Fetch, TakeUp, TakeLease, PaySpark, LookForSend, Resolve, PayInvoice, ReportSent,
         ReportFailed, DeleteLease, DeleteInvoice, DeviceDies, RailInv
<1>2. UNCHANGED <<rail, budget, claims, thread, click, edit>>
  BY DEF DeviceStep, Fetch, TakeUp, TakeLease, PaySpark, LookForSend, Resolve, PayInvoice, ReportSent,
         ReportFailed, DeleteLease, DeleteInvoice, DeviceDies, campaign, server, editing
<1> QED
  BY <1>1, <1>2

LEMMA RailDeviceStep ==
    ASSUME Inv, RailInv, NEW d \in Devices, DeviceStep(d)
    PROVE  RailInv'
<1>1. rail # "server" /\ UNCHANGED <<rail, thread, click>>
  BY BrowsersOffServer
<1>2. \A v \in Viewers : view'[v].status \in {view[v].status, "sent", "failed"}
  <2>1. CASE ReportSent(d) \/ ReportFailed(d)
    <3>1. device[d].of \in Viewers
      BY <2>1 DEF ReportSent, ReportFailed, Inv, BrowserInv
    <3>2. UNCHANGED view \/ Credit(device[d].of) \/ Fails(device[d].of)
      BY <2>1 DEF ReportSent, ReportFailed, CompleteSent, CompleteFailed, books
    <3> QED
      BY <3>1, <3>2, CreditStatus, FailsStatus
  <2>2. CASE Resolve(d)
    <3>1. device[d].of \in Viewers
      BY <2>2 DEF Resolve, Inv, BrowserInv
    <3>2. UNCHANGED view \/ \E i : view' = [view EXCEPT ![device[d].of].invoice = i]
      BY <2>2 DEF Resolve
    <3>3. \A v \in Viewers : view'[v].status = view[v].status
      <4>1. CASE \E i : view' = [view EXCEPT ![device[d].of].invoice = i]
        <5>1. PICK i : view' = [view EXCEPT ![device[d].of].invoice = i]
          BY <4>1
        <5> QED
          BY <3>1, <5>1 DEF Inv, TypeOK, View
      <4> QED
        BY <3>2, <4>1
    <3> QED
      BY <3>3
  <2>3. CASE ~(ReportSent(d) \/ ReportFailed(d) \/ Resolve(d))
    BY <2>3 DEF DeviceStep, Fetch, TakeUp, TakeLease, PaySpark, LookForSend, PayInvoice,
                DeleteLease, DeleteInvoice, DeviceDies, books
  <2> QED
    BY <2>1, <2>2, <2>3
<1> QED
  BY <1>1, <1>2 DEF RailInv

LEMMA RailNext == ASSUME Inv, RailInv, [Next]_vars PROVE RailInv'
<1>1. CASE TwoMinutesPass \/ ClickLock \/ EditRead \/ EditSave
  <2>1. UNCHANGED <<rail, view, thread, device>> /\ click'.copy.status = click.copy.status
    BY <1>1 DEF TwoMinutesPass, ClickLock, EditRead, EditSave, Inv, TypeOK, campaign, books, server, browsers, keys, editing
  <2> QED
    BY <2>1 DEF RailInv
<1>2. CASE ClickCommit
  <2>1. \A v \in Viewers : view'[v].status \in {view[v].status, click.copy.status}
    BY <1>2 DEF ClickCommit, Inv, TypeOK, View
  <2>2. (rail = "server" => click'.copy.status # "queued") /\ (rail # "server" => click'.copy.status # "pending")
    BY <1>2 DEF ClickCommit, NoClick, NoView
  <2> QED
    BY <1>2, <2>1, <2>2 DEF ClickCommit, RailInv, campaign, server, browsers, keys
<1>3. CASE UNCHANGED vars
  BY <1>3 DEF vars, campaign, books, server, browsers, keys, editing, RailInv
<1> QED
  BY <1>1, <1>2, <1>3, RailViewStep, RailServerStep, RailDeviceStep DEF Next

LEMMA CreditInit == Init => CreditInv
<1> SUFFICES ASSUME Init PROVE CreditInv
  OBVIOUS
<1>1. ServerCredit
  <2> SUFFICES ASSUME NEW v \in Viewers PROVE earned[v] + Reward * Cardinality(Winners(v)) <= Reward * paid[v]
    BY DEF ServerCredit
  <2>1. Winners(v) = {}
    BY DEF Init, Winners
  <2>2. Cardinality(Winners(v)) = 0
    BY <2>1, FS_EmptySet
  <2> QED
    BY <2>2, RewardAssumption DEF Init
<1>2. InvoicesFit /\ LnurlCredit
  BY RewardAssumption DEF Init, InvoicesFit, LnurlCredit, NoClick, NoView
<1> QED
  BY <1>1, <1>2 DEF CreditInv

-----------------------------------------------------------------------------
(* The rail "server" *)

LEMMA WinnersFinite == ASSUME NEW v PROVE IsFiniteSet(Winners(v)) /\ Cardinality(Winners(v)) \in Nat
<1>1. Winners(v) \subseteq Threads
  BY DEF Winners
<1> QED
  BY <1>1, FiniteAssumption, FS_Subset, FS_CardinalityType

\* One reward more
LEMMA RewardMore ==
    /\ \A n \in Nat : Reward * n \in Nat /\ Reward * (n + 1) = Reward * n + Reward
    /\ \A m, n \in Nat : m <= n => Reward * m <= Reward * n
<1>1. Reward \in Nat
  BY RewardAssumption
<1>2. \A m, n \in Nat : m <= n => Reward * m <= Reward * n
  <2> SUFFICES ASSUME NEW m \in Nat, NEW n \in Nat, m <= n PROVE Reward * m <= Reward * n
    OBVIOUS
  <2>1. n - m \in Nat /\ Reward * (n - m) \in Nat
    BY <1>1
  <2>2. Reward * n = Reward * m + Reward * (n - m)
    BY <1>1
  <2> QED
    BY <1>1, <2>1, <2>2
<1> QED
  BY <1>1, <1>2

LEMMA ServerCreditStays ==
    ASSUME Inv, ServerCredit, UNCHANGED <<rail, earned, paid>>,
           \A v \in Viewers : Winners(v)' \subseteq Winners(v)
    PROVE  ServerCredit'
<1> SUFFICES ASSUME rail = "server", NEW v \in Viewers
             PROVE  earned'[v] + Reward * Cardinality(Winners(v)') <= Reward * paid'[v]
  BY DEF ServerCredit
<1>1. Cardinality(Winners(v)') \in Nat /\ Cardinality(Winners(v)') <= Cardinality(Winners(v))
  BY WinnersFinite, FS_Subset, FS_CardinalityType
<1>2. Cardinality(Winners(v)) \in Nat /\ earned[v] \in Nat /\ paid[v] \in Nat
  BY WinnersFinite DEF Inv, TypeOK
<1>3. Reward * Cardinality(Winners(v)') <= Reward * Cardinality(Winners(v))
  BY <1>1, <1>2, RewardMore
<1>4. earned[v] + Reward * Cardinality(Winners(v)) <= Reward * paid[v]
  BY DEF ServerCredit
<1>5. /\ Reward * Cardinality(Winners(v)') \in Nat /\ Reward * Cardinality(Winners(v)) \in Nat
      /\ Reward * paid[v] \in Nat
  BY <1>1, <1>2, RewardMore
<1>6. earned'[v] = earned[v] /\ paid'[v] = paid[v]
  OBVIOUS
<1> QED
  BY <1>2, <1>3, <1>4, <1>5, <1>6

LEMMA ServerCreditView ==
    ASSUME Inv, RailInv, ServerCredit, NEW v \in Viewers, ViewStep(v)
    PROVE  ServerCredit'
<1>1. UNCHANGED <<rail, earned, paid>>
  BY DEF ViewStep, Claim, GrowsStale, InvoiceForgotten, LeaseExpires, ClickRead, campaign, books, wallet
<1>2. \A h \in Threads : thread'[h] = thread[h] \/ thread'[h].step = "paying"
  <2>1. CASE Claim(v)
    <3>1. UNCHANGED thread \/ \E h \in Threads : thread' = [thread EXCEPT ![h] = [of |-> v, step |-> "paying"]]
      BY <2>1 DEF Claim
    <3> QED
      BY <3>1 DEF Inv, TypeOK
  <2>2. CASE ~Claim(v)
    BY <2>2 DEF ViewStep, GrowsStale, InvoiceForgotten, LeaseExpires, ClickRead, server
  <2> QED
    BY <2>1, <2>2
<1>3. \A u \in Viewers : Winners(u)' \subseteq Winners(u)
  BY <1>2 DEF Winners
<1> QED
  BY <1>1, <1>3, ServerCreditStays

LEMMA ServerCreditPay ==
    ASSUME Inv, ServerCredit, NEW h \in Threads, Pay(h)
    PROVE  ServerCredit'
<1>1. PICK moved, answered \in BOOLEAN :
        /\ thread' = [thread EXCEPT ![h].step = IF moved /\ answered THEN "won" ELSE "lost"]
        /\ paid' = [paid EXCEPT ![thread[h].of] = IF moved THEN @ + 1 ELSE @]
  BY DEF Pay
<1>2. thread[h].of \in Viewers /\ thread[h].step = "paying" /\ UNCHANGED <<rail, earned>>
  BY DEF Inv, ServerInv, Pay, campaign, books
<1> SUFFICES ASSUME rail = "server", NEW v \in Viewers
             PROVE  earned'[v] + Reward * Cardinality(Winners(v)') <= Reward * paid'[v]
  BY <1>2 DEF ServerCredit
<1>3. /\ earned[v] \in Nat /\ paid[v] \in Nat /\ Cardinality(Winners(v)) \in Nat /\ IsFiniteSet(Winners(v))
      /\ earned[v] + Reward * Cardinality(Winners(v)) <= Reward * paid[v]
  BY WinnersFinite DEF Inv, TypeOK, ServerCredit
<1>4. /\ thread'[h].of = thread[h].of /\ thread'[h].step = IF moved /\ answered THEN "won" ELSE "lost"
      /\ \A g \in Threads : g # h => thread'[g] = thread[g]
  BY <1>1 DEF Inv, TypeOK, Thread
<1>5. CASE moved /\ answered /\ v = thread[h].of
  <2>1. Winners(v)' = Winners(v) \cup {h} /\ h \notin Winners(v)
    BY <1>2, <1>4, <1>5 DEF Winners
  <2>2. Cardinality(Winners(v)') = Cardinality(Winners(v)) + 1
    BY <1>3, <2>1, FS_AddElement
  <2>3. paid'[v] = paid[v] + 1
    BY <1>1, <1>2, <1>5 DEF Inv, TypeOK
  <2> QED
    BY <1>2, <1>3, <2>2, <2>3, RewardMore, RewardAssumption
<1>6. CASE ~(moved /\ answered /\ v = thread[h].of)
  <2>1. Winners(v)' = Winners(v)
    BY <1>2, <1>4, <1>6 DEF Winners
  <2>2. paid'[v] \in Nat /\ paid'[v] >= paid[v]
    BY <1>1, <1>2 DEF Inv, TypeOK
  <2>3. Reward * paid[v] <= Reward * paid'[v] /\ Reward * paid[v] \in Nat /\ Reward * paid'[v] \in Nat
    BY <1>3, <2>2, RewardMore
  <2>4. Reward * Cardinality(Winners(v)) \in Nat /\ earned'[v] = earned[v]
    BY <1>2, <1>3, RewardMore
  <2> QED
    BY <1>3, <2>1, <2>3, <2>4
<1> QED
  BY <1>5, <1>6

LEMMA ServerCreditRecord ==
    ASSUME Inv, ServerCredit, NEW h \in Threads, Record(h)
    PROVE  ServerCredit'
<1>1. thread[h].of \in Viewers /\ UNCHANGED <<rail, paid>>
  BY DEF Inv, ServerInv, Record, campaign, wallet
<1>2. thread'[h].step = "idle" /\ \A g \in Threads : g # h => thread'[g] = thread[g]
  BY DEF Record, Inv, TypeOK
<1> SUFFICES ASSUME rail = "server", NEW v \in Viewers
             PROVE  earned'[v] + Reward * Cardinality(Winners(v)') <= Reward * paid'[v]
  BY <1>1 DEF ServerCredit
<1>3. /\ earned[v] \in Nat /\ paid[v] \in Nat /\ Cardinality(Winners(v)) \in Nat /\ IsFiniteSet(Winners(v))
      /\ earned[v] + Reward * Cardinality(Winners(v)) <= Reward * paid[v]
  BY WinnersFinite DEF Inv, TypeOK, ServerCredit
<1>4. CASE thread[h].step = "won" /\ v = thread[h].of
  <2>1. Winners(v)' = Winners(v) \ {h} /\ h \in Winners(v)
    BY <1>2, <1>4 DEF Winners
  <2>2. Cardinality(Winners(v)') = Cardinality(Winners(v)) - 1
    BY <1>3, <2>1, FS_RemoveElement
  <2>3. earned'[v] = earned[v] + Reward
    BY <1>4 DEF Record, Credit, Inv, TypeOK
  <2>4. Cardinality(Winners(v)') \in Nat /\ Cardinality(Winners(v)) = Cardinality(Winners(v)') + 1
    BY <1>3, <2>1, <2>2, FS_RemoveElement, FS_CardinalityType
  <2> QED
    BY <1>1, <1>3, <2>3, <2>4, RewardMore, RewardAssumption
<1>5. CASE ~(thread[h].step = "won" /\ v = thread[h].of)
  <2>1. Winners(v)' = Winners(v)
    BY <1>2, <1>5 DEF Winners, Record
  <2>2. earned'[v] = earned[v]
    BY <1>1, <1>5 DEF Record, Credit, Fails, Inv, TypeOK
  <2> QED
    BY <1>1, <1>3, <2>1, <2>2
<1> QED
  BY <1>4, <1>5

LEMMA ServerCreditNext == ASSUME Inv, RailInv, ServerCredit, [Next]_vars PROVE ServerCredit'
<1>1. CASE \E h \in Threads : WorkerDies(h)
  <2>1. PICK h \in Threads : WorkerDies(h)
    BY <1>1
  <2>2. \A v \in Viewers : Winners(v)' \subseteq Winners(v)
    BY <2>1 DEF WorkerDies, Winners, Inv, TypeOK
  <2> QED
    BY <2>1, <2>2, ServerCreditStays DEF WorkerDies, campaign, books, wallet
<1>2. CASE \E d \in Devices : DeviceStep(d)
  BY <1>2, BrowsersOffServer DEF ServerCredit
<1>3. CASE TwoMinutesPass \/ ClickLock \/ ClickCommit \/ EditRead \/ EditSave \/ UNCHANGED vars
  <2>1. UNCHANGED <<rail, thread, earned, paid>>
    BY <1>3 DEF TwoMinutesPass, ClickLock, ClickCommit, EditRead, EditSave, vars, campaign, books, server, wallet
  <2> QED
    BY <2>1, ServerCreditStays DEF Winners
<1> QED
  BY <1>1, <1>2, <1>3, ServerCreditView, ServerCreditPay, ServerCreditRecord DEF Next, ServerStep

-----------------------------------------------------------------------------
(* The rail "lnurl" *)

\* Invoices are at most forgotten or settled.
KeepsInvoices ==
    /\ UNCHANGED <<rail, invoices>>
    /\ \A v \in Viewers : cached'[v] \in {0, cached[v]} /\ view'[v].invoice \in {0, view[v].invoice}
    /\ \A d \in Devices : device'[d].invoice = 0 \/
          (device'[d].invoice = device[d].invoice /\ device'[d].of = device[d].of)
    /\ settled \subseteq settled'
    /\ \A d \in Devices : device'[d].step = "paid" => device'[d].invoice \in settled'
    /\ click'.copy.invoice = 0 \/ (click'.copy.invoice = click.copy.invoice /\ click'.of = click.of)

LEMMA InvoiceTypes ==
    ASSUME Inv
    PROVE  /\ invoices \in Nat /\ click.copy.invoice \in Nat
           /\ \A v \in Viewers : cached[v] \in Nat /\ view[v].invoice \in Nat /\ earned[v] \in Nat /\ paid[v] \in Nat
           /\ \A d \in Devices : device[d].invoice \in Nat
           /\ 0 \notin settled /\ \A i \in settled : i <= invoices
BY DEF Inv, TypeOK, View, Browser, Resolved

LEMMA InvoicesStay == ASSUME Inv, InvoicesFit, KeepsInvoices PROVE InvoicesFit'
<1> SUFFICES ASSUME rail = "lnurl" PROVE InvoicesFit'
  BY DEF InvoicesFit, KeepsInvoices
<1>1. \A v \in Viewers, d \in Devices :
         device'[d].invoice # 0 /\ device'[d].invoice = view'[v].invoice => device'[d].of = v
  BY DEF InvoicesFit, KeepsInvoices
<1>2. \A u, v \in Viewers : cached'[u] # 0 /\ cached'[u] = view'[v].invoice => u = v
  BY DEF InvoicesFit, KeepsInvoices
<1>3. \A d \in Devices :
         device'[d].invoice # 0 /\ device'[d].invoice = click'.copy.invoice => device'[d].of = click'.of
  BY DEF InvoicesFit, KeepsInvoices
<1>4. \A u \in Viewers : cached'[u] # 0 /\ cached'[u] = click'.copy.invoice => u = click'.of
  BY DEF InvoicesFit, KeepsInvoices
<1>5. click'.copy.invoice <= invoices' /\ \A v \in Viewers : view'[v].invoice <= invoices'
  BY InvoiceTypes DEF InvoicesFit, KeepsInvoices
<1> QED
  BY <1>1, <1>2, <1>3, <1>4, <1>5 DEF InvoicesFit, KeepsInvoices

\* No invoice comes to life in a step.
NoneRevived == \A i \in Nat : i # 0 /\ Live(i)' => Live(i)

\* The books of one viewer in a step that neither settles nor credits.
LEMMA LnurlStays ==
    ASSUME Inv, LnurlCredit, KeepsInvoices, NoneRevived, mishaps \in Nat, mishaps' \in Nat, mishaps' >= mishaps, NEW v \in Viewers,
           earned'[v] = earned[v], paid'[v] = paid[v], settled' = settled,
           view'[v].status # "sent" => view[v].status # "sent",
           rail = "lnurl", mishaps' <= 1
    PROVE  /\ earned'[v] <= Reward * paid'[v]
           /\ view'[v].status # "sent" /\ view'[v].invoice \in settled' /\ Live(view[v].invoice)' =>
                 earned'[v] + Reward <= Reward * paid'[v]
<1>1. mishaps <= 1
  OBVIOUS
<1>2. view'[v].invoice \in settled' => view'[v].invoice = view[v].invoice /\ view[v].invoice # 0
  BY InvoiceTypes DEF KeepsInvoices
<1>3. view'[v].invoice \in settled' /\ Live(view[v].invoice)' => Live(view[v].invoice)
  BY <1>2, InvoiceTypes DEF NoneRevived
<1> QED
  BY <1>1, <1>2, <1>3 DEF LnurlCredit

LEMMA MishapsGrow == ASSUME Inv, [Next]_vars PROVE mishaps \in Nat /\ mishaps' \in Nat /\ mishaps' >= mishaps
<1>1. mishaps \in Nat
  BY BoundAssumption DEF Inv, TypeOK
<1>2. CASE \E v \in Viewers : ViewStep(v)
  BY <1>1, <1>2 DEF ViewStep, Claim, GrowsStale, InvoiceForgotten, LeaseExpires, LeaseLost, ClickRead, Mishap
<1>3. CASE \E h \in Threads : ServerStep(h)
  BY <1>1, <1>3 DEF ServerStep, Pay, Record, WorkerDies, Mishap
<1>4. CASE \E d \in Devices : DeviceStep(d)
  <2> SUFFICES ASSUME NEW d \in Devices, DeviceStep(d) PROVE mishaps' \in Nat /\ mishaps' >= mishaps
    BY <1>1, <1>4
  <2>1. CASE PaySpark(d) \/ LookForSend(d)
    BY <1>1, <2>1 DEF PaySpark, LookForSend, Mishap
  <2>2. CASE PayInvoice(d) \/ ReportSent(d)
    BY <1>1, <2>2 DEF PayInvoice, ReportSent, Mishap
  <2>3. CASE ReportFailed(d) \/ DeviceDies(d)
    BY <1>1, <2>3 DEF ReportFailed, DeviceDies, Mishap
  <2>4. CASE Resolve(d) \/ DeleteLease(d)
    BY <1>1, <2>4 DEF Resolve, DeleteLease, LeaseLost, Mishap
  <2>5. CASE Fetch(d) \/ (\E v \in Viewers : TakeUp(d, v)) \/ TakeLease(d) \/ DeleteInvoice(d)
    <3>1. UNCHANGED mishaps
      BY <2>5 DEF Fetch, TakeUp, TakeLease, DeleteInvoice
    <3> QED
      BY <1>1, <3>1
  <2> QED
    BY <2>1, <2>2, <2>3, <2>4, <2>5 DEF DeviceStep
<1>5. CASE TwoMinutesPass \/ ClickLock \/ ClickCommit \/ EditRead \/ EditSave \/ UNCHANGED vars
  BY <1>1, <1>5 DEF TwoMinutesPass, ClickLock, ClickCommit, EditRead, EditSave, vars, Mishap
<1> QED
  BY <1>2, <1>3, <1>4, <1>5 DEF Next

\* A browser's step, as far as its invoice goes.
LEMMA BrowserMoves ==
    ASSUME Inv, NEW d \in Devices, DeviceStep(d), ~Resolve(d)
    PROVE  \E r : Moves(d, r) /\ r.step # "resolved" /\
                 (r.step = "paid" => PaySpark(d) \/ (PayInvoice(d) /\ device[d].invoice \in settled'
                                                       /\ r.invoice = device[d].invoice))
<1>1. CASE Fetch(d)
  <2> DEFINE queued == {v \in Viewers : view[v].status = "queued"}
  <2>1. queued \in SUBSET Viewers /\ spent \in Nat
    BY DEF Inv, TypeOK
  <2>2. device' = [device EXCEPT ![d] = [step |-> "list", todo |-> queued, seen |-> spent,
                                        of |-> NoViewer, invoice |-> 0]]
    BY <1>1 DEF Fetch
  <2> HIDE DEF queued
  <2> QED
    BY <2>1, <2>2, ResetMoves
<1>2. CASE \E v \in Viewers : TakeUp(d, v)
  <2>1. PICK v \in Viewers : TakeUp(d, v)
    BY <1>2
  <2>2. \E r : Moves(d, r) /\ r.step \in {"idle", "list", "asked"}
    BY <2>1, TakeUpMoves
  <2> QED
    BY <2>2
<1>3. CASE PaySpark(d)
  <2>1. PICK step \in {"paid", "check", "fail"} : Step(d, step)
    BY <1>3 DEF PaySpark
  <2> QED
    BY <1>3, <2>1, StepMoves DEF PaySpark, DeviceSteps
<1>4. CASE LookForSend(d)
  <2>1. PICK step \in {"resend", "fail"} : Step(d, step)
    BY <1>4 DEF LookForSend
  <2>2. rail = "spark"
    BY <1>4 DEF Inv, BrowserInv, LookForSend
  <2> QED
    BY <1>4, <2>1, <2>2, StepMoves DEF LookForSend, DeviceSteps
<1>5. CASE PayInvoice(d)
  <2>1. \/ device' = [device EXCEPT ![d] = Next_(d)]
        \/ Step(d, "fail")
        \/ Step(d, "paid") /\ device[d].invoice \in settled'
    BY <1>5 DEF PayInvoice, Step
  <2>2. CASE Step(d, "paid") /\ device[d].invoice \in settled'
    <3>1. PICK r : Moves(d, r) /\ r.step = "paid" /\ r.of = device[d].of
      BY <1>5, <2>2, StepMoves DEF PayInvoice, DeviceSteps
    <3>2. r.invoice = device[d].invoice
      BY <2>2, <3>1 DEF Moves, Step, Inv, TypeOK, Browser
    <3> QED
      BY <1>5, <2>2, <3>1, <3>2
  <2> QED
    BY <1>5, <2>1, <2>2, NextMoves, StepMoves DEF PayInvoice, DeviceSteps
<1>6. CASE ReportSent(d)
  <2>1. \/ device' = [device EXCEPT ![d] = Next_(d)]
        \/ Step(d, "check") /\ rail = "spark"
        \/ Step(d, "fail") \/ Step(d, "sent")
    BY <1>6 DEF ReportSent, Answered
  <2> QED
    BY <1>6, <2>1, NextMoves, StepMoves DEF ReportSent, DeviceSteps
<1>7. CASE ReportFailed(d)
  <2>1. device' = [device EXCEPT ![d] = Next_(d)] \/ Step(d, "failed")
    BY <1>7 DEF ReportFailed, Step
  <2> QED
    BY <1>7, <2>1, NextMoves, StepMoves DEF ReportFailed, DeviceSteps
<1>8. CASE DeviceDies(d)
  BY <1>8, ResetMoves DEF DeviceDies
<1>9. CASE TakeLease(d)
  <2>1. device' = [device EXCEPT ![d] = Next_(d)] \/ Step(d, "leased")
    BY <1>9 DEF TakeLease, Step
  <2> QED
    BY <1>9, <2>1, NextMoves, StepMoves DEF TakeLease, DeviceSteps
<1>10. CASE DeleteLease(d) \/ DeleteInvoice(d)
  <2>1. \/ device' = [device EXCEPT ![d] = Next_(d)]
        \/ Step(d, "sentUnleased") \/ Step(d, "failedUnleased")
    BY <1>10 DEF DeleteLease, DeleteInvoice, Answered
  <2> QED
    BY <1>10, <2>1, NextMoves, StepMoves DEF DeleteLease, DeleteInvoice, DeviceSteps
<1> QED
  BY <1>1, <1>2, <1>3, <1>4, <1>5, <1>6, <1>7, <1>8, <1>9, <1>10 DEF DeviceStep

\* An invoice that is not deleted yet will be.
LEMMA DeletesEnd ==
    ASSUME Inv, NEW d \in Devices, DeviceStep(d), Deleting(d)
    PROVE  cached'[device[d].of] = 0 \/ (device'[d].of = device[d].of /\ Deleting(d)')
<1>1. device[d].of \in Viewers /\ device[d] \in Browser
  BY DEF Inv, TypeOK, BrowserInv, Deleting
<1>2. DeleteLease(d) \/ DeleteInvoice(d) \/ DeviceDies(d)
  BY DEF DeviceStep, Deleting, Fetch, TakeUp, TakeLease, PaySpark, LookForSend, Resolve, PayInvoice,
         ReportSent, ReportFailed
<1>3. CASE DeleteLease(d)
  BY <1>1, <1>3 DEF DeleteLease, Step, Deleting, Inv, TypeOK, Browser
<1>4. CASE DeleteInvoice(d) \/ DeviceDies(d)
  BY <1>1, <1>4 DEF DeleteInvoice, DeviceDies, Inv, TypeOK
<1> QED
  BY <1>2, <1>3, <1>4

LEMMA DevicesRevive ==
    ASSUME Inv, NEW d \in Devices, DeviceStep(d), ~Resolve(d), rail = "lnurl",
           \A v \in Viewers : cached'[v] \in {0, cached[v]}
    PROVE  NoneRevived
<1>1. PICK r : Moves(d, r) /\ r.step # "resolved" /\
             (r.step = "paid" => PaySpark(d) \/ (PayInvoice(d) /\ device[d].invoice \in settled'
                                                   /\ r.invoice = device[d].invoice))
  BY BrowserMoves
<1>2. device'[d] = r /\ \A e \in Devices : e # d => device'[e] = device[e]
  BY <1>1 DEF Moves, Inv, TypeOK
<1>3. r.step = "paid" => device[d].step = "resolved" /\ r.invoice = device[d].invoice
  BY <1>1 DEF PaySpark, PayInvoice
<1>4. ASSUME NEW v \in Viewers, cached'[v] # 0, ~Going(v)' PROVE ~Going(v)
  <2> SUFFICES ASSUME NEW e \in Devices, device[e].of = v, Deleting(e) PROVE Going(v)'
    BY <1>4 DEF Going
  <2>1. CASE e = d
    BY <1>4, <2>1, DeletesEnd DEF Going
  <2>2. CASE e # d
    BY <1>2, <2>2 DEF Going, Deleting
  <2> QED
    BY <2>1, <2>2
<1>5. ASSUME NEW i \in Nat, i # 0, NEW v \in Viewers, cached'[v] = i, ~Going(v)' PROVE Live(i)
  BY <1>4, <1>5 DEF Live
<1>6. ASSUME NEW i \in Nat, i # 0, NEW e \in Devices, device'[e].invoice = i,
             device'[e].step \in {"resolved", "paid"}
      PROVE  Live(i)
  BY <1>1, <1>2, <1>3, <1>6 DEF Live
<1> QED
  BY <1>5, <1>6 DEF NoneRevived, Live

\* The two together
LnurlInv == InvoicesFit /\ LnurlCredit

LEMMA LnurlView ==
    ASSUME Inv, RailInv, LnurlInv, NEW v \in Viewers, ViewStep(v), rail = "lnurl"
    PROVE  LnurlInv'
<1>1. mishaps \in Nat /\ mishaps' \in Nat /\ mishaps' >= mishaps
  BY MishapsGrow DEF Next
<1>2. CASE ~ClickRead(v)
  <2>1. UNCHANGED <<rail, invoices, device, click, settled, paid, earned>>
    BY <1>2 DEF ViewStep, Claim, GrowsStale, InvoiceForgotten, LeaseExpires, campaign, browsers, keys, editing, wallet, books
  <2>2. \A u \in Viewers : cached'[u] \in {0, cached[u]}
    BY <1>2 DEF ViewStep, Claim, GrowsStale, InvoiceForgotten, LeaseExpires, browsers, keys, Inv, TypeOK
  <2>3. \A u \in Viewers : view'[u].invoice \in {0, view[u].invoice}
                           /\ (view'[u].status = view[u].status \/ (view'[u].status = "queued" /\ view'[u].invoice = 0))
    <3>1. CASE Claim(v)
      BY <3>1 DEF Claim, Inv, TypeOK, View
    <3>2. CASE GrowsStale(v)
      BY <3>2 DEF GrowsStale, Inv, TypeOK, View
    <3> QED
      BY <1>2, <3>1, <3>2 DEF ViewStep, InvoiceForgotten, LeaseExpires, books
  <2>4. KeepsInvoices
    BY <2>1, <2>2, <2>3 DEF KeepsInvoices, LnurlInv, InvoicesFit
  <2>a. NoneRevived
    BY <2>1, <2>2 DEF NoneRevived, Live, Going, Deleting
  <2>5. \A u \in Viewers : mishaps' <= 1 =>
          /\ earned'[u] <= Reward * paid'[u]
          /\ view'[u].status # "sent" /\ view'[u].invoice \in settled' /\ Live(view[u].invoice)' =>
                earned'[u] + Reward <= Reward * paid'[u]
    <3> SUFFICES ASSUME NEW u \in Viewers, mishaps' <= 1
                 PROVE  /\ earned'[u] <= Reward * paid'[u]
                        /\ view'[u].status # "sent" /\ view'[u].invoice \in settled' /\ Live(view[u].invoice)' =>
                              earned'[u] + Reward <= Reward * paid'[u]
      OBVIOUS
    <3>1. view'[u].invoice \in settled' => view'[u].status = view[u].status
      BY <2>1, <2>3, InvoiceTypes
    <3>2. CASE view'[u].status # "sent" => view[u].status # "sent"
      BY <1>1, <2>1, <2>4, <2>a, <3>2, LnurlStays DEF LnurlInv
    <3>3. CASE ~(view'[u].status # "sent" => view[u].status # "sent")
      BY <1>1, <2>1, <3>1, <3>3 DEF LnurlInv, LnurlCredit
    <3> QED
      BY <3>2, <3>3
  <2> QED
    BY <2>4, <2>5, InvoicesStay DEF LnurlInv, LnurlCredit
<1>3. CASE ClickRead(v)
  <2>1. UNCHANGED <<rail, view, invoices, device, cached, settled, paid, earned, mishaps>>
    BY <1>3 DEF ClickRead, campaign, browsers, keys, wallet, books
  <2>2. click'.copy.invoice = view[v].invoice /\ click'.of = v
    BY <1>3 DEF ClickRead
  <2>3. InvoicesFit'
    BY <2>1, <2>2 DEF LnurlInv, InvoicesFit
  <2>4. LnurlCredit'
    BY <2>1 DEF LnurlInv, LnurlCredit, Live, Going, Deleting
  <2> QED
    BY <2>3, <2>4 DEF LnurlInv
<1> QED
  BY <1>2, <1>3

\* The old copy brings a view back that nobody has been credited for since.
LEMMA LnurlClickCommit ==
    ASSUME Inv, RailInv, Exact, LnurlInv, ClickCommit, rail = "lnurl"
    PROVE  LnurlInv'
<1> DEFINE v == click.of
<1>1. v \in Viewers /\ click.copy \in View
  BY DEF Inv, TypeOK, ClickInv, ClickCommit
<1>2. /\ view'[v].invoice = click.copy.invoice /\ view'[v].status = click.copy.status
      /\ \A u \in Viewers : u # v => view'[u] = view[u]
  BY <1>1 DEF ClickCommit, Inv, TypeOK, View
<1>3. UNCHANGED <<rail, invoices, device, cached, settled, paid, earned>> /\ click'.copy.invoice = 0
  BY DEF ClickCommit, campaign, browsers, keys, wallet, NoClick, NoView
<1>4. InvoicesFit'
  BY <1>1, <1>2, <1>3, InvoiceTypes DEF LnurlInv, InvoicesFit
<1>5. mishaps \in Nat /\ mishaps' \in Nat /\ mishaps' >= mishaps
  BY MishapsGrow DEF Next
<1>6. ASSUME NEW u \in Viewers, mishaps' <= 1
      PROVE  /\ earned'[u] <= Reward * paid'[u]
             /\ view'[u].status # "sent" /\ view'[u].invoice \in settled' /\ Live(view[u].invoice)' =>
                   earned'[u] + Reward <= Reward * paid'[u]
  <2>1. Live(view[u].invoice)' =>
          \/ \E w \in Viewers : cached[w] = view'[u].invoice /\ ~Going(w)
          \/ \E d \in Devices : device[d].invoice = view'[u].invoice /\ device[d].step \in {"resolved", "paid"}
    BY <1>3 DEF Live, Going, Deleting
  <2>2. CASE view'[u].invoice = view[u].invoice /\ view'[u].status = view[u].status
    BY <1>3, <1>5, <1>6, <2>1, <2>2 DEF LnurlInv, LnurlCredit, Live
  <2>3. CASE ~(view'[u].invoice = view[u].invoice /\ view'[u].status = view[u].status)
    <3>1. u = v /\ mishaps = 0
      BY <1>2, <1>5, <1>6, <2>3 DEF ClickCommit, Mishap
    <3>2. DevicesExact /\ ViewsExact
      BY <3>1 DEF Exact, AllExact
    <3>3. earned[u] <= Reward * paid[u]
      BY <3>1 DEF LnurlInv, LnurlCredit
    <3>4. ASSUME view'[u].invoice \in settled', Live(view[u].invoice)'
          PROVE  earned[u] + Reward <= Reward * paid[u]
      <4>1. click.copy.invoice \in settled /\ click.copy.invoice # 0
        BY <1>2, <1>3, <3>1, <3>4, InvoiceTypes
      <4>2. view[u].status = "queued" /\ paid[u] > 0
        <5>1. CASE \E w \in Viewers : cached[w] = click.copy.invoice /\ ~Going(w)
          <6>1. cached[v] = click.copy.invoice /\ ~Going(v)
            BY <4>1, <5>1 DEF LnurlInv, InvoicesFit
          <6> QED
            BY <1>1, <3>1, <3>2, <4>1, <6>1 DEF DevicesExact, CacheExact, Inv, SettledMeansPaid
        <5>2. CASE \E d \in Devices : device[d].invoice = click.copy.invoice /\ device[d].step \in {"resolved", "paid"}
          <6>1. PICK d \in Devices : /\ device[d].invoice = click.copy.invoice /\ device[d].of = v
                                     /\ device[d].step \in {"resolved", "paid"}
            BY <4>1, <5>2 DEF LnurlInv, InvoicesFit
          <6> QED
            BY <3>1, <3>2, <4>1, <6>1 DEF DevicesExact, StepsExact, Inv, SettledMeansPaid
        <5> QED
          BY <1>2, <2>1, <3>1, <3>4, <5>1, <5>2
      <4>3. earned[u] = 0 /\ paid[u] \in Nat
        BY <3>2, <4>2 DEF ViewsExact, Inv, TypeOK
      <4>4. Reward * 1 <= Reward * paid[u]
        BY <4>2, <4>3, RewardMore
      <4> QED
        BY <4>3, <4>4, RewardAssumption
    <3> QED
      BY <1>3, <3>3, <3>4
  <2> QED
    BY <2>2, <2>3
<1> QED
  BY <1>4, <1>6 DEF LnurlInv, LnurlCredit

LEMMA MovesKeepInvoices ==
    ASSUME Inv, InvoicesFit, NEW d \in Devices, DeviceStep(d), ~Resolve(d), rail = "lnurl"
    PROVE  KeepsInvoices
<1>1. UNCHANGED <<rail, invoices, click>> /\ settled \subseteq settled' /\ (settled' # settled => PayInvoice(d))
  BY DEF DeviceStep, Fetch, TakeUp, TakeLease, PaySpark, LookForSend, PayInvoice, ReportSent, ReportFailed,
         DeleteLease, DeleteInvoice, DeviceDies, campaign, editing, wallet
<1>2. PICK r : Moves(d, r) /\ (r.step = "paid" => PaySpark(d) \/ (PayInvoice(d) /\ device[d].invoice \in settled'
                                                                 /\ r.invoice = device[d].invoice))
  BY BrowserMoves
<1>3. device'[d] = r /\ \A e \in Devices : e # d => device'[e] = device[e]
  BY <1>2 DEF Moves, Inv, TypeOK
<1>4. \A e \in Devices : /\ device'[e].invoice = 0 \/
                               (device'[e].invoice = device[e].invoice /\ device'[e].of = device[e].of)
                         /\ device'[e].step = "paid" => device'[e].invoice \in settled'
  BY <1>1, <1>2, <1>3 DEF Moves, InvoicesFit, PaySpark
<1>5. \A v \in Viewers : cached'[v] \in {0, cached[v]}
  <2>1. cached' = cached \/ cached' = [cached EXCEPT ![device[d].of] = 0]
    <3>1. CASE ReportSent(d) \/ DeleteLease(d) \/ DeleteInvoice(d) \/ DeviceDies(d)
      BY <3>1 DEF ReportSent, Forget, DeleteLease, DeleteInvoice, DeviceDies, keys
    <3>2. CASE ~(ReportSent(d) \/ DeleteLease(d) \/ DeleteInvoice(d) \/ DeviceDies(d))
      BY <3>2 DEF DeviceStep, Fetch, TakeUp, TakeLease, PaySpark, LookForSend, PayInvoice, ReportFailed, keys
    <3> QED
      BY <3>1, <3>2
  <2> QED
    BY <2>1 DEF Inv, TypeOK
<1>6. \A v \in Viewers : view'[v].invoice = view[v].invoice
  <2>1. CASE ReportSent(d) \/ ReportFailed(d)
    <3>1. device[d].of \in Viewers
      BY <2>1 DEF ReportSent, ReportFailed, Inv, BrowserInv
    <3>2. UNCHANGED view \/ Credit(device[d].of) \/ Fails(device[d].of)
      BY <2>1 DEF ReportSent, ReportFailed, CompleteSent, CompleteFailed, books
    <3>3. UNCHANGED view \/ \E w \in {"sent", "failed"} : view' = [view EXCEPT ![device[d].of].status = w]
      BY <3>2 DEF Credit, Fails
    <3> QED
      BY <3>1, <3>3 DEF Inv, TypeOK, View
  <2>2. CASE ~(ReportSent(d) \/ ReportFailed(d))
    BY <2>2 DEF DeviceStep, Fetch, TakeUp, TakeLease, PaySpark, LookForSend, PayInvoice,
                DeleteLease, DeleteInvoice, DeviceDies, books
  <2> QED
    BY <2>1, <2>2
<1> QED
  BY <1>1, <1>4, <1>5, <1>6 DEF KeepsInvoices

LEMMA LnurlPay ==
    ASSUME Inv, LnurlInv, NEW d \in Devices, PayInvoice(d), rail = "lnurl"
    PROVE  LnurlCredit'
<1> DEFINE v == device[d].of
           i == device[d].invoice
<1>1. KeepsInvoices /\ NoneRevived
  <2>1. DeviceStep(d) /\ ~Resolve(d)
    BY DEF DeviceStep, PayInvoice, Resolve
  <2> QED
    BY <2>1, MovesKeepInvoices, DevicesRevive DEF LnurlInv, KeepsInvoices
<1>2. mishaps \in Nat /\ mishaps' \in Nat /\ mishaps' >= mishaps
  BY MishapsGrow DEF Next, DeviceStep
<1>3. PICK moved \in BOOLEAN :
        /\ settled' = IF moved THEN settled \cup {i} ELSE settled
        /\ paid' = [paid EXCEPT ![v] = IF moved THEN @ + 1 ELSE @]
  BY DEF PayInvoice
<1>4. v \in Viewers /\ i # 0 /\ UNCHANGED <<view, earned>>
  BY DEF Inv, Resolved, PayInvoice, books
<1> SUFFICES ASSUME mishaps' <= 1, NEW u \in Viewers
             PROVE  /\ earned'[u] <= Reward * paid'[u]
                    /\ view'[u].status # "sent" /\ view'[u].invoice \in settled' /\ Live(view[u].invoice)' =>
                          earned'[u] + Reward <= Reward * paid'[u]
  BY <1>1 DEF LnurlCredit, KeepsInvoices
<1>5. CASE moved /\ u = v
  <2>1. paid'[u] = paid[u] + 1 /\ paid[u] \in Nat /\ earned[u] \in Nat
    BY <1>3, <1>4, <1>5 DEF Inv, TypeOK
  <2>2. earned[u] <= Reward * paid[u]
    BY <1>2 DEF LnurlInv, LnurlCredit
  <2>3. Reward * paid'[u] = Reward * paid[u] + Reward /\ Reward * paid[u] \in Nat /\ Reward \in Nat
    BY <2>1, RewardMore, RewardAssumption
  <2> QED
    BY <1>4, <2>1, <2>2, <2>3
<1>6. CASE ~(moved /\ u = v)
  <2>1. paid'[u] = paid[u] /\ earned'[u] = earned[u]
    BY <1>3, <1>4, <1>6 DEF Inv, TypeOK
  <2>2. earned[u] <= Reward * paid[u]
    BY <1>2 DEF LnurlInv, LnurlCredit
  <2>3. view'[u].invoice \in settled' => view[u].invoice \in settled /\ view[u].invoice # 0
    BY <1>3, <1>4, <1>6, InvoiceTypes DEF LnurlInv, InvoicesFit
  <2>4. view'[u].invoice \in settled' /\ Live(view[u].invoice)' => Live(view[u].invoice)
    BY <1>1, <1>4, <2>3, InvoiceTypes DEF NoneRevived
  <2> QED
    BY <1>2, <1>4, <2>1, <2>2, <2>3, <2>4 DEF LnurlInv, LnurlCredit
<1> QED
  BY <1>5, <1>6

LEMMA LnurlReport ==
    ASSUME Inv, LnurlInv, NEW d \in Devices, ReportSent(d), rail = "lnurl"
    PROVE  LnurlCredit'
<1> DEFINE v == device[d].of
           i == device[d].invoice
<1>1. KeepsInvoices /\ NoneRevived
  <2>1. DeviceStep(d) /\ ~Resolve(d)
    BY DEF DeviceStep, ReportSent, Resolve
  <2> QED
    BY <2>1, MovesKeepInvoices, DevicesRevive DEF LnurlInv, KeepsInvoices
<1>2. mishaps \in Nat /\ mishaps' \in Nat /\ mishaps' >= mishaps
  BY MishapsGrow DEF Next, DeviceStep
<1>3. v \in Viewers /\ UNCHANGED <<paid, settled>>
  BY DEF Inv, BrowserInv, ReportSent, wallet
<1>4. CASE UNCHANGED books
  BY <1>1, <1>2, <1>3, <1>4, LnurlStays DEF LnurlInv, LnurlCredit, KeepsInvoices, books
<1>5. CASE Credit(v) /\ view[v].status # "sent" /\ ProofFits(v, i)
  <2>1. i \in settled /\ i # 0 /\ view[v].invoice = i /\ Live(view[v].invoice)
    BY <1>5 DEF LnurlInv, InvoicesFit, ReportSent, ProofFits, Inv, BrowserInv, Live
  <2>2. view'[v].status = "sent" /\ earned'[v] = earned[v] + Reward
    BY <1>3, <1>5, CreditStatus DEF Credit, Inv, TypeOK
  <2>3. \A u \in Viewers : u # v => view'[u] = view[u] /\ earned'[u] = earned[u]
    BY <1>5 DEF Credit, Inv, TypeOK
  <2> SUFFICES ASSUME mishaps' <= 1, NEW u \in Viewers
               PROVE  /\ earned'[u] <= Reward * paid'[u]
                      /\ view'[u].status # "sent" /\ view'[u].invoice \in settled' /\ Live(view[u].invoice)' =>
                            earned'[u] + Reward <= Reward * paid'[u]
    BY <1>1 DEF LnurlCredit, KeepsInvoices
  <2>4. CASE u = v
    BY <1>2, <1>3, <1>5, <2>1, <2>2, <2>4 DEF LnurlInv, LnurlCredit
  <2>5. CASE u # v
    BY <1>1, <1>2, <1>3, <2>3, <2>5, LnurlStays DEF LnurlInv
  <2> QED
    BY <2>4, <2>5
<1> QED
  BY <1>4, <1>5 DEF ReportSent, CompleteSent

LEMMA LnurlResolve ==
    ASSUME Inv, LnurlInv, Exact, NEW d \in Devices, Resolve(d), rail = "lnurl"
    PROVE  LnurlInv'
<1> DEFINE v == device[d].of
           i == IF cached[v] # 0 THEN cached[v] ELSE invoices + 1
<1>1. v \in Viewers /\ UNCHANGED <<rail, settled, paid, earned, click>> /\ device[d] \in Browser
  BY DEF Inv, TypeOK, BrowserInv, Resolve, campaign, wallet, editing
<1>2. mishaps \in Nat /\ mishaps' \in Nat /\ mishaps' >= mishaps
  BY MishapsGrow DEF Next, DeviceStep
<1>3. CASE view[v].status # "queued"
  <2>1. UNCHANGED <<invoices, cached, view>> /\ Step(d, "fail")
    BY <1>3 DEF Resolve
  <2>2. \A e \in Devices : device'[e].invoice = device[e].invoice /\ device'[e].of = device[e].of
                           /\ (device'[e].step = "paid" => device[e].step = "paid")
    BY <1>1, <2>1 DEF Step, Inv, TypeOK, Browser
  <2>3. KeepsInvoices
    BY <1>1, <2>1, <2>2 DEF KeepsInvoices, LnurlInv, InvoicesFit
  <2>4. NoneRevived
    <3>1. UNCHANGED cached /\ \A e \in Devices : Deleting(e)' <=> Deleting(e)
      BY <1>1, <2>1 DEF Resolve, Step, Deleting, Inv, TypeOK, Browser
    <3>2. \A e \in Devices : device'[e].step \in {"resolved", "paid"} => device[e].step \in {"resolved", "paid"}
      BY <1>1, <2>1 DEF Step, Inv, TypeOK, Browser
    <3> QED
      BY <2>2, <3>1, <3>2 DEF NoneRevived, Live, Going
  <2> QED
    BY <1>1, <1>2, <2>1, <2>3, <2>4, InvoicesStay, LnurlStays DEF LnurlInv, LnurlCredit
<1>4. CASE view[v].status = "queued"
  <2>1. /\ cached[v] \in Nat /\ cached[v] <= invoices /\ invoices \in Nat
        /\ device' = [device EXCEPT ![d] = [device[d] EXCEPT !.step = "resolved", !.invoice = i]]
        /\ cached[v] # 0 => UNCHANGED <<invoices, cached, view>>
        /\ cached[v] = 0 => /\ invoices' = i /\ cached' = [cached EXCEPT ![v] = i]
                            /\ view' = [view EXCEPT ![v].invoice = i]
    BY <1>1, <1>4 DEF Resolve, Inv, TypeOK, Resolved
  <2>2. /\ i \in Nat /\ i # 0 /\ invoices' \in Nat /\ i <= invoices' /\ invoices <= invoices'
        /\ cached[v] = 0 => i > invoices
        /\ cached[v] # 0 => i = cached[v]
    BY <2>1
  <2> HIDE DEF i
  <2>3. /\ i \in Nat /\ i # 0 /\ invoices' \in Nat /\ i <= invoices' /\ invoices <= invoices'
        /\ cached[v] = 0 => i > invoices
        /\ cached[v] # 0 => i = cached[v]
        /\ cached'[v] = i /\ \A u \in Viewers : u # v => cached'[u] = cached[u] /\ view'[u] = view[u]
        /\ view'[v].status = view[v].status
        /\ view'[v].invoice = IF cached[v] # 0 THEN view[v].invoice ELSE i
    BY <1>1, <2>1, <2>2 DEF Inv, TypeOK, View
  <2>4. /\ device'[d].invoice = i /\ device'[d].of = v /\ device'[d].step = "resolved"
        /\ \A e \in Devices : e # d => device'[e] = device[e]
    BY <1>1, <2>1 DEF Inv, TypeOK, Browser
  <2>5. /\ \A u \in Viewers : view[u].invoice = i => u = v
        /\ \A u \in Viewers : u # v => cached[u] # i
        /\ \A e \in Devices : device[e].invoice = i => device[e].of = v
        /\ click.copy.invoice = i => click.of = v
    BY <1>1, <2>3, InvoiceTypes DEF LnurlInv, InvoicesFit, Inv, Owned, Resolved
  <2>6. InvoicesFit'
    <3>1. \A e \in Devices : device'[e].step = "paid" => device'[e].invoice \in settled'
      BY <1>1, <2>4 DEF LnurlInv, InvoicesFit
    <3>2. ASSUME NEW u \in Viewers, NEW e \in Devices, device'[e].invoice # 0,
                 device'[e].invoice = view'[u].invoice
          PROVE  device'[e].of = u
      <4>1. u # v => view'[u].invoice # i
        BY <2>3, <2>5
      <4>2. CASE e = d
        BY <2>4, <3>2, <4>1, <4>2
      <4>3. CASE e # d
        BY <1>1, <2>3, <2>4, <2>5, <3>2, <4>3 DEF LnurlInv, InvoicesFit
      <4> QED
        BY <4>2, <4>3
    <3>3. \A u, w \in Viewers : cached'[u] # 0 /\ cached'[u] = view'[w].invoice => u = w
      BY <1>1, <2>3, <2>5 DEF LnurlInv, InvoicesFit
    <3>4. ASSUME NEW e \in Devices, device'[e].invoice # 0, device'[e].invoice = click'.copy.invoice
          PROVE  device'[e].of = click'.of
      <4>1. CASE e = d
        BY <1>1, <2>4, <2>5, <3>4, <4>1
      <4>2. CASE e # d
        BY <1>1, <2>4, <3>4, <4>2 DEF LnurlInv, InvoicesFit
      <4> QED
        BY <4>1, <4>2
    <3>5. \A u \in Viewers : cached'[u] # 0 /\ cached'[u] = click'.copy.invoice => u = click'.of
      BY <1>1, <2>3, <2>5 DEF LnurlInv, InvoicesFit
    <3>6. click'.copy.invoice <= invoices' /\ \A u \in Viewers : view'[u].invoice <= invoices'
      BY <1>1, <2>3, InvoiceTypes DEF LnurlInv, InvoicesFit
    <3> QED
      BY <3>1, <3>2, <3>3, <3>4, <3>5, <3>6 DEF InvoicesFit
  <2>7. LnurlCredit'
    <3> SUFFICES ASSUME mishaps' <= 1, NEW u \in Viewers, view'[u].status # "sent",
                        view'[u].invoice \in settled', Live(view[u].invoice)'
                 PROVE  earned[u] + Reward <= Reward * paid[u]
      BY <1>1, <1>2 DEF LnurlInv, LnurlCredit
    <3>1. view'[u] = view[u] \/ (u = v /\ cached[v] # 0 /\ view'[u].invoice = view[u].invoice)
      BY <1>1, <2>3, InvoiceTypes
    <3>2. view[u].status # "sent" /\ view[u].invoice \in settled /\ view[u].invoice # 0
      BY <1>1, <1>4, <3>1, InvoiceTypes
    <3>3. view[u].invoice = i => u = v /\ cached[v] = i
      BY <2>3, <2>5, <3>1, <3>2, InvoiceTypes
    <3>4. CASE view[u].invoice = i /\ Going(v)
      <4>1. mishaps = 0
        BY <1>2, <1>4, <2>2, <3>3, <3>4 DEF Resolve, Going, Mishap
      <4>2. earned[v] = 0
        BY <1>1, <1>4, <4>1 DEF Exact, AllExact, ViewsExact
      <4>3. paid[v] > 0 /\ paid[v] \in Nat
        <5>1. cached[v] \in settled
          BY <3>2, <3>3, <3>4
        <5> QED
          BY <1>1, <5>1 DEF Inv, TypeOK, SettledMeansPaid
      <4>4. Reward * 1 <= Reward * paid[v]
        <5>1. \A n \in Nat : n > 0 => Reward * 1 <= Reward * n
          BY RewardMore
        <5> QED
          BY <4>3, <5>1
      <4> QED
        BY <3>3, <3>4, <4>2, <4>4, RewardAssumption
    <3>5. CASE view[u].invoice = i /\ ~Going(v)
      <4>1. Live(view[u].invoice)
        BY <1>1, <3>3, <3>5 DEF Live
      <4> QED
        BY <1>2, <3>2, <4>1 DEF LnurlInv, LnurlCredit
    <3>6. CASE view[u].invoice # i
      <4>1. \A w \in Viewers : Going(w)' <=> Going(w)
        BY <1>1, <2>1, <2>4 DEF Going, Deleting, Resolve
      <4>2. view'[u].invoice = view[u].invoice
        BY <3>1
      <4>3. ASSUME NEW w \in Viewers, cached'[w] = view'[u].invoice, ~Going(w)' PROVE Live(view[u].invoice)
        BY <2>3, <3>6, <4>1, <4>2, <4>3 DEF Live
      <4>4. ASSUME NEW e \in Devices, device'[e].invoice = view'[u].invoice, device'[e].step \in {"resolved", "paid"}
            PROVE  Live(view[u].invoice)
        BY <2>4, <3>6, <4>2, <4>4 DEF Live
      <4>5. Live(view[u].invoice)
        BY <4>3, <4>4 DEF Live
      <4> QED
        BY <1>2, <3>2, <4>5 DEF LnurlInv, LnurlCredit
    <3> QED
      BY <3>4, <3>5, <3>6
  <2> QED
    BY <2>6, <2>7 DEF LnurlInv
<1> QED
  BY <1>3, <1>4

LEMMA LnurlDevice ==
    ASSUME Inv, LnurlInv, Exact, NEW d \in Devices, DeviceStep(d), rail = "lnurl"
    PROVE  LnurlInv'
<1>1. CASE Resolve(d)
  BY <1>1, LnurlResolve
<1>2. CASE PayInvoice(d) \/ ReportSent(d)
  <2>1. ~Resolve(d)
    BY <1>2 DEF PayInvoice, ReportSent, Resolve
  <2> QED
    BY <1>2, <2>1, MovesKeepInvoices, InvoicesStay, LnurlPay, LnurlReport DEF LnurlInv
<1>3. CASE ~(Resolve(d) \/ PayInvoice(d) \/ ReportSent(d))
  <2>1. KeepsInvoices /\ NoneRevived
    BY <1>3, MovesKeepInvoices, DevicesRevive DEF LnurlInv, KeepsInvoices
  <2>2. UNCHANGED <<paid, settled, earned>>
    BY <1>3 DEF DeviceStep, Fetch, TakeUp, TakeLease, PaySpark, LookForSend, ReportFailed,
                DeleteLease, DeleteInvoice, DeviceDies, CompleteFailed, Fails, books, wallet
  <2>3. \A v \in Viewers : view'[v].status # "sent" => view[v].status # "sent"
    <3>1. CASE ReportFailed(d)
      <4>1. device[d].of \in Viewers
        BY <3>1 DEF ReportFailed, Inv, BrowserInv
      <4> QED
        BY <3>1, <4>1, FailsStatus DEF ReportFailed, CompleteFailed, books
    <3>2. CASE ~ReportFailed(d)
      BY <1>3, <3>2 DEF DeviceStep, Fetch, TakeUp, TakeLease, PaySpark, LookForSend,
                         DeleteLease, DeleteInvoice, DeviceDies, books
    <3> QED
      BY <3>1, <3>2
  <2>4. mishaps \in Nat /\ mishaps' \in Nat /\ mishaps' >= mishaps
    BY MishapsGrow DEF Next
  <2> QED
    BY <2>1, <2>2, <2>3, <2>4, InvoicesStay, LnurlStays DEF LnurlInv, LnurlCredit, KeepsInvoices
<1> QED
  BY <1>1, <1>2, <1>3

LEMMA RailKept == ASSUME [Next]_vars PROVE UNCHANGED <<rail, budget>>
<1>1. CASE \E v \in Viewers : ViewStep(v)
  BY <1>1 DEF ViewStep, Claim, GrowsStale, InvoiceForgotten, LeaseExpires, ClickRead, campaign
<1>2. CASE \E h \in Threads : ServerStep(h)
  BY <1>2 DEF ServerStep, Pay, Record, WorkerDies, campaign
<1>3. CASE \E d \in Devices : DeviceStep(d)
  <2>1. PICK d \in Devices : DeviceStep(d)
    BY <1>3
  <2>2. UNCHANGED campaign
    <3>1. CASE Fetch(d) \/ (\E v \in Viewers : TakeUp(d, v)) \/ TakeLease(d) \/ PaySpark(d) \/ LookForSend(d) \/ Resolve(d)
      BY <3>1 DEF Fetch, TakeUp, TakeLease, PaySpark, LookForSend, Resolve
    <3>2. CASE PayInvoice(d) \/ ReportSent(d) \/ ReportFailed(d) \/ DeleteLease(d) \/ DeleteInvoice(d) \/ DeviceDies(d)
      BY <3>2 DEF PayInvoice, ReportSent, ReportFailed, DeleteLease, DeleteInvoice, DeviceDies
    <3> QED
      BY <2>1, <3>1, <3>2 DEF DeviceStep
  <2> QED
    BY <2>2 DEF campaign
<1>4. CASE TwoMinutesPass \/ ClickLock \/ ClickCommit \/ EditRead \/ EditSave \/ UNCHANGED vars
  BY <1>4 DEF TwoMinutesPass, ClickLock, ClickCommit, EditRead, EditSave, vars, campaign
<1> QED
  BY <1>1, <1>2, <1>3, <1>4 DEF Next

LEMMA CreditNext == ASSUME Inv, RailInv, Exact, CreditInv, [Next]_vars PROVE CreditInv'
<1>1. ServerCredit'
  BY ServerCreditNext DEF CreditInv
<1>2. CASE rail # "lnurl"
  BY <1>1, <1>2, RailKept DEF CreditInv, InvoicesFit, LnurlCredit
<1>3. CASE rail = "lnurl"
  <2> SUFFICES LnurlInv'
    BY <1>1 DEF CreditInv, LnurlInv
  <2>1. LnurlInv
    BY DEF CreditInv, LnurlInv
  <2>2. CASE \E h \in Threads : ServerStep(h)
    BY <1>3, <2>2 DEF ServerStep, Pay, Record, WorkerDies, RailInv
  <2>3. CASE TwoMinutesPass \/ ClickLock \/ EditRead \/ EditSave \/ UNCHANGED vars
    <3>1. UNCHANGED <<rail, view, earned, device, invoices, cached, settled, paid>>
      BY <2>3 DEF TwoMinutesPass, ClickLock, EditRead, EditSave, vars, campaign, books, browsers, keys, wallet
    <3>2. click'.copy = click.copy /\ click'.of = click.of
      BY <2>3 DEF TwoMinutesPass, ClickLock, EditRead, EditSave, vars, editing, Inv, TypeOK
    <3>3. KeepsInvoices
      BY <1>3, <2>1, <3>1, <3>2 DEF KeepsInvoices, LnurlInv, InvoicesFit
    <3>4. mishaps \in Nat /\ mishaps' \in Nat /\ mishaps' >= mishaps
      BY MishapsGrow
    <3>5. NoneRevived
      BY <3>1 DEF NoneRevived, Live, Going, Deleting
    <3> QED
      BY <1>3, <2>1, <3>1, <3>3, <3>4, <3>5, InvoicesStay, LnurlStays DEF LnurlInv, LnurlCredit
  <2> QED
    BY <1>3, <2>1, <2>2, <2>3, LnurlView, LnurlDevice, LnurlClickCommit DEF Next
<1> QED
  BY <1>2, <1>3

\* On the rails where a report of payment is backed by one
LEMMA CreditWithinPaid == Inv /\ CreditInv => EarnedWithinPaid
<1> SUFFICES ASSUME Inv, CreditInv, mishaps <= 1, rail # "spark", NEW v \in Viewers
             PROVE  earned[v] <= Reward * paid[v]
  BY DEF EarnedWithinPaid
<1>1. CASE rail = "server"
  <2>1. earned[v] + Reward * Cardinality(Winners(v)) <= Reward * paid[v]
    BY <1>1 DEF CreditInv, ServerCredit
  <2>2. Reward * Cardinality(Winners(v)) \in Nat /\ earned[v] \in Nat /\ Reward * paid[v] \in Nat
    BY WinnersFinite, RewardMore DEF Inv, TypeOK
  <2> QED
    BY <2>1, <2>2
<1>2. CASE rail = "lnurl"
  BY <1>2 DEF CreditInv, LnurlCredit
<1> QED
  BY <1>1, <1>2, RailsAssumption DEF Inv, TypeOK

-----------------------------------------------------------------------------
(* As long as nothing goes wrong *)

LEMMA ExactInit == Init => Exact
<1> SUFFICES ASSUME Init PROVE AllExact
  BY DEF Exact
<1>1. ThreadsExact /\ DevicesExact /\ ViewsExact
  BY DEF Init, ThreadsExact, DevicesExact, LeasesHeld, StepsExact, CacheExact, ViewsExact,
         Holding, Working, Deleting, NoView
<1>2. Sent = {} /\ InFlight = {}
  BY DEF Init, Sent, InFlight, NoView
<1>3. Cardinality(Sent) = 0 /\ Cardinality(InFlight) = 0
  BY <1>2, FS_EmptySet
<1>4. SumsExact
  BY <1>3, RewardAssumption DEF Init, SumsExact
<1> QED
  BY <1>1, <1>4 DEF AllExact

LEMMA RowsFinite ==
    /\ IsFiniteSet(Sent) /\ Cardinality(Sent) \in Nat
    /\ IsFiniteSet(InFlight) /\ Cardinality(InFlight) \in Nat
<1>1. Sent \subseteq Viewers /\ InFlight \subseteq Viewers
  BY DEF Sent, InFlight
<1> QED
  BY <1>1, FiniteAssumption, FS_Subset, FS_CardinalityType

LEMMA RemoveOne ==
    ASSUME NEW S, IsFiniteSet(S), NEW x \in S
    PROVE  Cardinality(S \ {x}) \in Nat /\ Cardinality(S) = Cardinality(S \ {x}) + 1
<1>1. IsFiniteSet(S \ {x}) /\ Cardinality(S \ {x}) = Cardinality(S) - 1
  BY FS_RemoveElement
<1>2. Cardinality(S \ {x}) \in Nat /\ Cardinality(S) \in Nat
  BY <1>1, FS_CardinalityType
<1> QED
  BY <1>1, <1>2

\* The sums when no view is claimed, paid or failed,
LEMMA SumsStay ==
    ASSUME SumsExact, UNCHANGED <<budget, spent>>, \A v \in Viewers : view'[v].status = view[v].status
    PROVE  SumsExact'
<1>1. Sent' = Sent /\ InFlight' = InFlight
  BY DEF Sent, InFlight
<1> QED
  BY <1>1 DEF SumsExact

\* when one is claimed,
LEMMA SumsClaim ==
    ASSUME Inv, SumsExact, NEW v \in Viewers, WithinBudget(v), UNCHANGED <<budget, spent>>,
           view[v].status \in {"none", "failed"}, view'[v].status \in {"pending", "queued"},
           \A u \in Viewers : u # v => view'[u].status = view[u].status
    PROVE  SumsExact'
<1>1. Sent' = Sent /\ InFlight' = InFlight \cup {v} /\ v \notin InFlight /\ InFlight \ {v} = InFlight
  BY DEF Sent, InFlight
<1>2. Cardinality(InFlight') = Cardinality(InFlight) + 1
  BY <1>1, RowsFinite, FS_AddElement
<1>3. Reward * Cardinality(InFlight') = Reward * Cardinality(InFlight) + Reward
  BY <1>2, RowsFinite, RewardMore
<1>4. spent + Reward * Cardinality(InFlight) + Reward <= budget
  BY <1>1 DEF WithinBudget, Reserved
<1>5. Reward * Cardinality(InFlight) \in Nat /\ Reward \in Nat /\ spent \in Nat /\ budget \in Nat
  BY RowsFinite, RewardMore, RewardAssumption DEF Inv, TypeOK
<1>6. spent' + Reward * Cardinality(InFlight') <= budget'
  BY <1>3, <1>4, <1>5
<1> QED
  BY <1>1, <1>6 DEF SumsExact

\* when one is paid,
LEMMA SumsCredit ==
    ASSUME Inv, SumsExact, NEW v \in Viewers, Credit(v), UNCHANGED budget,
           view[v].status \in {"pending", "queued"}
    PROVE  SumsExact'
<1>1. Sent' = Sent \cup {v} /\ v \notin Sent /\ InFlight' = InFlight \ {v} /\ v \in InFlight
  BY CreditStatus DEF Sent, InFlight
<1>2. Cardinality(Sent') = Cardinality(Sent) + 1
  BY <1>1, RowsFinite, FS_AddElement
<1>3. Cardinality(InFlight') \in Nat /\ Cardinality(InFlight) = Cardinality(InFlight') + 1
  BY <1>1, RowsFinite, RemoveOne
<1>4. /\ Reward * Cardinality(Sent') = Reward * Cardinality(Sent) + Reward
      /\ Reward * Cardinality(InFlight) = Reward * Cardinality(InFlight') + Reward
      /\ Reward * Cardinality(InFlight') \in Nat
  BY <1>2, <1>3, RowsFinite, RewardMore
<1>5. Reward * Cardinality(Sent) \in Nat /\ Reward \in Nat /\ spent \in Nat /\ budget \in Nat /\ spent' = spent + Reward
  BY RowsFinite, RewardMore, RewardAssumption DEF Inv, TypeOK, Credit
<1>6. spent' = Reward * Cardinality(Sent')
  BY <1>4, <1>5 DEF SumsExact
<1>7. spent' + Reward * Cardinality(InFlight') <= budget'
  BY <1>4, <1>5 DEF SumsExact
<1> QED
  BY <1>6, <1>7 DEF SumsExact

\* and when one fails.
LEMMA SumsFails ==
    ASSUME Inv, SumsExact, NEW v \in Viewers, Fails(v), UNCHANGED budget,
           view[v].status \in {"pending", "queued"}
    PROVE  SumsExact'
<1>1. Sent' = Sent /\ InFlight' = InFlight \ {v} /\ v \in InFlight
  BY FailsStatus DEF Sent, InFlight
<1>2. Cardinality(InFlight') \in Nat /\ Cardinality(InFlight) = Cardinality(InFlight') + 1
  BY <1>1, RowsFinite, RemoveOne
<1>3. /\ Reward * Cardinality(InFlight) = Reward * Cardinality(InFlight') + Reward
      /\ Reward * Cardinality(InFlight') \in Nat
  BY <1>2, RewardMore
<1>4. Reward \in Nat /\ spent \in Nat /\ budget \in Nat /\ spent' = spent
  BY RewardAssumption DEF Inv, TypeOK, Fails
<1>5. spent' + Reward * Cardinality(InFlight') <= budget'
  BY <1>3, <1>4 DEF SumsExact
<1> QED
  BY <1>1, <1>4, <1>5 DEF SumsExact

\* A failure that is reported again changes nothing.
LEMMA SumsFailsAgain ==
    ASSUME Inv, SumsExact, NEW v \in Viewers, Fails(v), UNCHANGED budget, view[v].status \in {"none", "failed"}
    PROVE  SumsExact'
<1>1. Sent' = Sent /\ InFlight' = InFlight
  BY FailsStatus DEF Sent, InFlight
<1> QED
  BY <1>1 DEF SumsExact, Fails

\* On the rail "server" no browser has anything to keep, elsewhere no thread has.
LEMMA OnServer ==
    ASSUME RailInv, DevicesExact, rail = "server", UNCHANGED <<device, cached>>,
           \A v \in Viewers : cached[v] # 0 => view'[v].status = view[v].status /\ view'[v].invoice = view[v].invoice
    PROVE  DevicesExact'
<1>1. \A d \in Devices : device'[d].step = "idle" /\ ~Holding(d)' /\ ~Deleting(d)'
  BY DEF RailInv, Holding, Working, Deleting
<1>2. \A v \in Viewers : ~Going(v) /\ ~Going(v)'
  BY <1>1 DEF Going, RailInv, Deleting
<1> QED
  BY <1>1, <1>2 DEF DevicesExact, LeasesHeld, StepsExact, CacheExact

LEMMA OffServer ==
    ASSUME RailInv, RailInv', rail # "server", UNCHANGED <<rail, thread>>
    PROVE  ThreadsExact'
BY DEF RailInv, ThreadsExact

\* A step that changes none of what the invariant speaks of.
LEMMA ExactStays ==
    ASSUME Inv, AllExact, UNCHANGED <<rail, budget, thread, lease, cached, spent, earned, paid, device>>,
           \A v \in Viewers : /\ view'[v].status = view[v].status /\ view'[v].fresh = view[v].fresh
                              /\ view'[v].invoice = view[v].invoice
    PROVE  AllExact'
<1>1. /\ \A h \in Threads : thread[h].step # "idle" => thread[h].of \in Viewers
      /\ \A d \in Devices : device[d].step \notin {"idle", "list"} => device[d].of \in Viewers
  BY DEF Inv, ServerInv, BrowserInv
<1>2. ThreadsExact'
  BY <1>1 DEF AllExact, ThreadsExact
<1>3. DevicesExact'
  <2>1. LeasesHeld'
    BY DEF AllExact, DevicesExact, LeasesHeld, Holding, Working, Deleting
  <2>2. StepsExact'
    BY <1>1 DEF AllExact, DevicesExact, StepsExact
  <2>3. CacheExact'
    BY DEF AllExact, DevicesExact, CacheExact, Going, Deleting
  <2> QED
    BY <2>1, <2>2, <2>3 DEF DevicesExact
<1>4. ViewsExact'
  BY DEF AllExact, ViewsExact, Payers
<1> QED
  BY <1>2, <1>3, <1>4, SumsStay DEF AllExact

LEMMA ClaimExact ==
    ASSUME Inv, RailInv, RailInv', AllExact, NEW v \in Viewers, Claim(v)
    PROVE  AllExact'
<1> DEFINE s == IF rail = "server" THEN "pending" ELSE "queued"
<1>1. view' = [view EXCEPT ![v].status = s, ![v].fresh = TRUE, ![v].invoice = 0]
  BY DEF Claim
<1>2. /\ view'[v].status = s /\ view'[v].fresh = TRUE /\ view'[v].invoice = 0
      /\ \A u \in Viewers : u # v => view'[u] = view[u]
  BY <1>1 DEF Inv, TypeOK, View
<1>3. UNCHANGED <<rail, budget, spent, earned, lease, device, cached, paid>>
  BY DEF Claim, campaign, browsers, keys, wallet
<1>4. view[v].status \in {"none", "failed"}
  BY DEF Claim, Claimable, AllExact, ThreadsExact
<1>5. paid[v] = 0 /\ earned[v] = 0
  BY <1>4 DEF AllExact, ViewsExact
<1>6. ViewsExact'
  BY <1>2, <1>3, <1>5 DEF AllExact, ViewsExact, Payers
<1>7. SumsExact'
  BY <1>2, <1>3, <1>4, SumsClaim DEF AllExact, Claim
<1>8. DevicesExact'
  <2>1. LeasesHeld'
    BY <1>3 DEF AllExact, DevicesExact, LeasesHeld, Holding, Working, Deleting
  <2>2. StepsExact'
    <3>1. ASSUME NEW d \in Devices, device[d].step \in {"resolved", "paid", "resend"}
          PROVE  device[d].of # v /\ device[d].of \in Viewers
      BY <1>4, <3>1 DEF AllExact, DevicesExact, StepsExact, Inv, BrowserInv
    <3> QED
      BY <1>2, <1>3, <3>1 DEF AllExact, DevicesExact, StepsExact
  <2>3. CacheExact'
    <3>1. \A u \in Viewers : Going(u)' <=> Going(u)
      BY <1>3 DEF Going, Deleting
    <3> QED
      BY <1>2, <1>3, <1>4, <3>1 DEF AllExact, DevicesExact, CacheExact
  <2> QED
    BY <2>1, <2>2, <2>3 DEF DevicesExact
<1>9. ThreadsExact'
  <2>1. CASE rail # "server"
    BY <1>3, <2>1, OffServer DEF Claim
  <2>2. CASE rail = "server"
    <3>1. PICK h \in Threads : thread[h].step = "idle" /\ thread' = [thread EXCEPT ![h] = [of |-> v, step |-> "paying"]]
      BY <2>2 DEF Claim
    <3>2. /\ thread'[h].of = v /\ thread'[h].step = "paying"
          /\ \A g \in Threads : g # h => thread'[g] = thread[g]
      BY <3>1 DEF Inv, TypeOK
    <3>3. \A g \in Threads : thread[g].step # "idle" => thread[g].of # v /\ thread[g].of \in Viewers
      BY <1>4 DEF AllExact, ThreadsExact, Inv, ServerInv
    <3>4. ASSUME NEW g \in Threads, thread'[g].step # "idle"
          PROVE  /\ view'[thread'[g].of].status = "pending"
                 /\ paid'[thread'[g].of] = IF thread'[g].step = "won" THEN 1 ELSE 0
                 /\ \A f \in Threads : thread'[f].step # "idle" /\ thread'[f].of = thread'[g].of => f = g
      <4>1. CASE g = h
        BY <1>2, <1>3, <1>5, <2>2, <3>2, <3>3, <4>1
      <4>2. CASE g # h
        BY <1>2, <1>3, <3>2, <3>3, <3>4, <4>2 DEF AllExact, ThreadsExact
      <4> QED
        BY <4>1, <4>2
    <3>5. ASSUME NEW u \in Viewers, view'[u].status = "pending"
          PROVE  view'[u].fresh /\ \E g \in Threads : thread'[g].step # "idle" /\ thread'[g].of = u
      <4>1. CASE u = v
        BY <1>2, <3>2, <4>1
      <4>2. CASE u # v
        BY <1>2, <3>1, <3>2, <3>5, <4>2 DEF AllExact, ThreadsExact
      <4> QED
        BY <4>1, <4>2
    <3> QED
      BY <3>4, <3>5 DEF ThreadsExact
  <2> QED
    BY <2>1, <2>2
<1> QED
  BY <1>6, <1>7, <1>8, <1>9 DEF AllExact

\* A claim that is pending has its thread: it does not grow stale.
LEMMA OtherViewExact ==
    ASSUME Inv, RailInv, AllExact, NEW v \in Viewers, mishaps = 0, mishaps' = 0,
           GrowsStale(v) \/ InvoiceForgotten(v) \/ LeaseExpires(v) \/ ClickRead(v)
    PROVE  AllExact'
<1>1. CASE GrowsStale(v)
  BY <1>1 DEF GrowsStale, AllExact, ThreadsExact
<1>2. CASE InvoiceForgotten(v)
  <2>1. UNCHANGED <<rail, budget, view, thread, lease, spent, earned, paid, device>>
    BY <1>2 DEF InvoiceForgotten, campaign, books, server, wallet
  <2>2. \A u \in Viewers : cached'[u] # 0 => cached'[u] = cached[u]
    BY <1>2 DEF InvoiceForgotten, Inv, TypeOK
  <2>3. LeasesHeld' /\ StepsExact'
    BY <2>1 DEF AllExact, DevicesExact, LeasesHeld, StepsExact, Holding, Working, Deleting
  <2>4. CacheExact'
    BY <2>1, <2>2 DEF AllExact, DevicesExact, CacheExact, Going, Deleting
  <2>5. ThreadsExact' /\ ViewsExact'
    BY <2>1 DEF AllExact, ThreadsExact, ViewsExact, Payers
  <2> QED
    BY <2>1, <2>3, <2>4, <2>5, SumsStay DEF AllExact, DevicesExact
<1>3. CASE LeaseExpires(v)
  <2>1. ~Busy(lease[v], v)
    BY <1>3 DEF LeaseExpires, LeaseLost, Mishap
  <2>2. UNCHANGED <<rail, budget, view, thread, cached, spent, earned, paid, device>>
    BY <1>3 DEF LeaseExpires, campaign, books, server, wallet
  <2>3. \A u \in Viewers : u # v => lease'[u] = lease[u]
    BY <1>3 DEF LeaseExpires, LeaseLost, Inv, TypeOK
  <2>4. LeasesHeld'
    <3>1. \A d \in Devices : Holding(d) => device[d].of \in Viewers /\ device[d].of # v
      BY <2>1 DEF Holding, Working, Deleting, Busy, Inv, BrowserInv, AllExact, DevicesExact, LeasesHeld
    <3> QED
      BY <2>2, <2>3, <3>1 DEF AllExact, DevicesExact, LeasesHeld, Holding, Working, Deleting
  <2>5. StepsExact' /\ CacheExact'
    BY <2>2 DEF AllExact, DevicesExact, StepsExact, CacheExact, Going, Deleting
  <2>6. ThreadsExact' /\ ViewsExact'
    BY <2>2 DEF AllExact, ThreadsExact, ViewsExact, Payers
  <2> QED
    BY <2>2, <2>4, <2>5, <2>6, SumsStay DEF AllExact, DevicesExact
<1>4. CASE ClickRead(v)
  BY <1>4, ExactStays DEF ClickRead, campaign, books, server, browsers, keys, wallet
<1> QED
  BY <1>1, <1>2, <1>3, <1>4

LEMMA PayExact ==
    ASSUME Inv, RailInv, AllExact, NEW h \in Threads, Pay(h), mishaps = 0, mishaps' = 0
    PROVE  AllExact'
<1> DEFINE v == thread[h].of
<1>1. PICK moved, answered \in BOOLEAN :
        /\ thread' = [thread EXCEPT ![h].step = IF moved /\ answered THEN "won" ELSE "lost"]
        /\ paid' = [paid EXCEPT ![v] = IF moved THEN @ + 1 ELSE @]
        /\ Mishap(moved /\ ~answered)
  BY DEF Pay
<1>2. moved => answered
  BY <1>1 DEF Mishap
<1>3. /\ v \in Viewers /\ thread[h].step = "paying" /\ rail = "server"
      /\ UNCHANGED <<rail, budget, view, spent, earned, device, lease, cached>>
  BY DEF Inv, ServerInv, RailInv, Pay, campaign, books, browsers, keys
<1>4. view[v].status = "pending" /\ paid[v] = 0
  BY <1>3 DEF AllExact, ThreadsExact
<1>5. /\ thread'[h].of = v /\ thread'[h].step = IF moved THEN "won" ELSE "lost"
      /\ \A g \in Threads : g # h => thread'[g] = thread[g]
  BY <1>1, <1>2 DEF Inv, TypeOK, Thread
<1>6. /\ paid'[v] = IF moved THEN 1 ELSE 0
      /\ \A u \in Viewers : u # v => paid'[u] = paid[u]
  BY <1>1, <1>3, <1>4 DEF Inv, TypeOK
<1>7. ThreadsExact'
  <2>1. \A g \in Threads : thread[g].step # "idle" /\ g # h => thread[g].of # v /\ thread[g].of \in Viewers
    BY <1>3 DEF AllExact, ThreadsExact, Inv, ServerInv
  <2>2. ASSUME NEW g \in Threads, thread'[g].step # "idle"
        PROVE  /\ view'[thread'[g].of].status = "pending"
               /\ paid'[thread'[g].of] = IF thread'[g].step = "won" THEN 1 ELSE 0
               /\ \A f \in Threads : thread'[f].step # "idle" /\ thread'[f].of = thread'[g].of => f = g
    <3>1. CASE g = h
      BY <1>3, <1>4, <1>5, <1>6, <2>1, <3>1
    <3>2. CASE g # h
      BY <1>3, <1>5, <1>6, <2>1, <2>2, <3>2 DEF AllExact, ThreadsExact
    <3> QED
      BY <3>1, <3>2
  <2>3. ASSUME NEW u \in Viewers, view'[u].status = "pending"
        PROVE  view'[u].fresh /\ \E g \in Threads : thread'[g].step # "idle" /\ thread'[g].of = u
    <3>1. view[u].fresh /\ \E g \in Threads : thread[g].step # "idle" /\ thread[g].of = u
      BY <1>3, <2>3 DEF AllExact, ThreadsExact
    <3> QED
      BY <1>3, <1>5, <3>1
  <2> QED
    BY <2>2, <2>3 DEF ThreadsExact
<1>8. ViewsExact'
  BY <1>3, <1>4, <1>6 DEF AllExact, ViewsExact, Payers
<1> QED
  BY <1>3, <1>7, <1>8, SumsStay, OnServer DEF AllExact

LEMMA RecordExact ==
    ASSUME Inv, RailInv, RailInv', AllExact, NEW h \in Threads, Record(h)
    PROVE  AllExact'
<1> DEFINE v == thread[h].of
<1>1. /\ v \in Viewers /\ thread[h].step \in {"won", "lost"} /\ rail = "server"
      /\ UNCHANGED <<rail, budget, device, lease, cached, paid>>
  BY DEF Inv, ServerInv, RailInv, Record, campaign, browsers, keys, wallet
<1>2. /\ view[v].status = "pending" /\ paid[v] = IF thread[h].step = "won" THEN 1 ELSE 0
      /\ \A g \in Threads : thread[g].step # "idle" /\ g # h => thread[g].of # v /\ thread[g].of \in Viewers
  BY <1>1 DEF AllExact, ThreadsExact, Inv, ServerInv
<1>3. thread'[h].step = "idle" /\ \A g \in Threads : g # h => thread'[g] = thread[g]
  BY DEF Record, Inv, TypeOK
<1>4. /\ view'[v].status = IF thread[h].step = "won" THEN "sent" ELSE "failed"
      /\ earned'[v] = IF thread[h].step = "won" THEN Reward ELSE 0
      /\ \A u \in Viewers : u # v => view'[u] = view[u] /\ earned'[u] = earned[u]
  <2>1. earned[v] = 0
    BY <1>1, <1>2 DEF AllExact, ViewsExact
  <2>2. CASE thread[h].step = "won"
    <3>1. Credit(v)
      BY <2>2 DEF Record
    <3> QED
      BY <1>1, <2>1, <2>2, <3>1, CreditStatus, RewardAssumption DEF Credit, Inv, TypeOK
  <2>3. CASE thread[h].step # "won"
    <3>1. Fails(v)
      BY <2>3 DEF Record
    <3> QED
      BY <1>1, <2>1, <2>3, <3>1, FailsStatus DEF Fails, Inv, TypeOK
  <2> QED
    BY <2>2, <2>3
<1>5. ViewsExact'
  BY <1>1, <1>2, <1>4 DEF AllExact, ViewsExact, Payers
<1>6. SumsExact'
  BY <1>1, <1>2, SumsCredit, SumsFails DEF AllExact, Record
<1>7. ThreadsExact'
  <2>1. ASSUME NEW g \in Threads, thread'[g].step # "idle"
        PROVE  /\ view'[thread'[g].of].status = "pending"
               /\ paid'[thread'[g].of] = IF thread'[g].step = "won" THEN 1 ELSE 0
               /\ \A f \in Threads : thread'[f].step # "idle" /\ thread'[f].of = thread'[g].of => f = g
    <3>1. g # h /\ thread'[g] = thread[g] /\ thread[g].of # v /\ thread[g].of \in Viewers
      BY <1>2, <1>3, <2>1
    <3> QED
      BY <1>1, <1>3, <1>4, <2>1, <3>1 DEF AllExact, ThreadsExact
  <2>2. ASSUME NEW u \in Viewers, view'[u].status = "pending"
        PROVE  view'[u].fresh /\ \E g \in Threads : thread'[g].step # "idle" /\ thread'[g].of = u
    <3>1. u # v /\ view'[u] = view[u]
      BY <1>4, <2>2
    <3> QED
      BY <1>3, <2>2, <3>1 DEF AllExact, ThreadsExact
  <2> QED
    BY <2>1, <2>2 DEF ThreadsExact
<1>8. \A u \in Viewers : cached[u] # 0 => u # v
  BY <1>1, <1>2 DEF AllExact, DevicesExact, CacheExact, Going, Deleting, RailInv
<1> QED
  BY <1>1, <1>4, <1>5, <1>6, <1>7, <1>8, OnServer DEF AllExact

\* Who holds a lease has the view to himself.
LEMMA Alone ==
    ASSUME Inv, AllExact, NEW d \in Devices, Holding(d)
    PROVE  /\ device[d].of \in Viewers
           /\ \A e \in Devices : Holding(e) /\ e # d => device[e].of # device[d].of
<1>1. \A e \in Devices : Holding(e) => device[e].of \in Viewers /\ lease[device[e].of] = e
  BY DEF Inv, BrowserInv, Holding, Working, Deleting, AllExact, DevicesExact, LeasesHeld
<1> QED
  BY <1>1

\* A step of a browser that has a view to itself
LEMMA OwnViewExact ==
    ASSUME Inv, RailInv, RailInv', AllExact, NEW d \in Devices, NEW v \in Viewers, device[d].of = v,
           rail # "server", UNCHANGED <<rail, thread>>,
           \A e \in Devices : Holding(e) /\ e # d => device[e].of # v,
           \A e \in Devices : e # d => device'[e] = device[e],
           device'[d].of = v \/ device'[d].step \in {"idle", "list"},
           \A u \in Viewers : u # v =>
               view'[u] = view[u] /\ paid'[u] = paid[u] /\ earned'[u] = earned[u] /\ cached'[u] = cached[u]
               /\ lease'[u] = lease[u],
           Holding(d)' => lease'[v] = d,
           device'[d].step \in {"resolved", "paid"} =>
               /\ view'[v].status = "queued"
               /\ rail = "lnurl" => device'[d].invoice # 0 /\ device'[d].invoice = view'[v].invoice,
           device'[d].step = "paid" => paid'[v] = 1,
           device'[d].step = "resend" => view'[v].status = "sent",
           cached'[v] # 0 /\ ~Going(v)' => view'[v].status = "queued" /\ view'[v].invoice = cached'[v],
           view'[v].status \in {"none", "failed"} => paid'[v] = 0,
           view'[v].status = "sent" => paid'[v] = 1,
           view'[v].status = "queued" /\ device'[d].step # "paid" => paid'[v] = 0,
           earned'[v] = IF view'[v].status = "sent" THEN Reward ELSE 0
    PROVE  ThreadsExact' /\ DevicesExact' /\ ViewsExact'
<1>1. \A e \in Devices : e # d => (Holding(e)' <=> Holding(e)) /\ (Deleting(e)' <=> Deleting(e))
  BY DEF Holding, Working, Deleting
<1>2. \A e \in Devices : device[e].step \in {"resolved", "paid", "resend"} => Holding(e)
  BY DEF Holding, Working, Deleting
<1>3. \A e \in Devices : Holding(e) => device[e].of \in Viewers
  BY Alone
<1>4. LeasesHeld'
  <2> SUFFICES ASSUME NEW e \in Devices, Holding(e)' PROVE lease'[device'[e].of] = e
    BY DEF LeasesHeld
  <2>1. CASE e = d
    <3>1. device'[d].of = v
      BY <2>1 DEF Holding, Working
    <3> QED
      BY <2>1, <3>1
  <2>2. CASE e # d
    BY <1>1, <1>3, <2>2 DEF AllExact, DevicesExact, LeasesHeld
  <2> QED
    BY <2>1, <2>2
<1>5. StepsExact'
  <2> SUFFICES ASSUME NEW e \in Devices
               PROVE  /\ device'[e].step \in {"resolved", "paid"} =>
                           /\ view'[device'[e].of].status = "queued"
                           /\ rail' = "lnurl" => device'[e].invoice # 0 /\ device'[e].invoice = view'[device'[e].of].invoice
                      /\ device'[e].step = "paid" => paid'[device'[e].of] = 1
                      /\ device'[e].step = "resend" => view'[device'[e].of].status = "sent"
    BY DEF StepsExact
  <2>1. CASE e = d
    <3>1. CASE device'[d].of = v
      BY <2>1, <3>1
    <3>2. CASE device'[d].step \in {"idle", "list"}
      BY <2>1, <3>2
    <3> QED
      BY <3>1, <3>2
  <2>2. CASE e # d
    BY <1>2, <1>3, <2>2 DEF AllExact, DevicesExact, StepsExact
  <2> QED
    BY <2>1, <2>2
<1>6. CacheExact'
  <2> SUFFICES ASSUME NEW u \in Viewers, u # v, cached'[u] # 0, ~Going(u)'
               PROVE  view'[u].status = "queued" /\ view'[u].invoice = cached'[u]
    BY DEF CacheExact
  <2>1. ~Going(u)
    BY <1>1 DEF Going
  <2> QED
    BY <2>1 DEF AllExact, DevicesExact, CacheExact
<1>7. ViewsExact'
  <2> SUFFICES ASSUME NEW u \in Viewers
               PROVE  /\ view'[u].status \in {"none", "failed"} => paid'[u] = 0
                      /\ view'[u].status = "sent" => paid'[u] = 1
                      /\ view'[u].status = "queued" /\ Payers(u)' = {} => paid'[u] = 0
                      /\ earned'[u] = IF view'[u].status = "sent" THEN Reward ELSE 0
    BY DEF ViewsExact
  <2>1. CASE u = v
    <3>1. Payers(v)' = {} => device'[d].step # "paid"
      BY DEF Payers
    <3> QED
      BY <2>1, <3>1
  <2>2. CASE u # v
    <3>1. Payers(u) \subseteq Payers(u)'
      BY <2>2 DEF Payers
    <3>2. Payers(u)' = {} => Payers(u) = {}
      BY <3>1
    <3> QED
      BY <2>2, <3>2 DEF AllExact, ViewsExact
  <2> QED
    BY <2>1, <2>2
<1> QED
  BY <1>4, <1>5, <1>6, <1>7, OffServer DEF DevicesExact

\* and of one that holds nothing before and after.
LEMMA NotAtWork ==
    ASSUME Inv, RailInv, RailInv', AllExact, NEW d \in Devices, ~Holding(d), ~Holding(d)',
           rail # "server", UNCHANGED <<rail, budget, view, thread, lease, spent, earned, paid>>,
           \A e \in Devices : e # d => device'[e] = device[e],
           \A v \in Viewers : cached'[v] # 0 => cached'[v] = cached[v] /\ (Going(v) => Going(v)')
    PROVE  AllExact'
<1>1. \A e \in Devices : (Holding(e)' <=> Holding(e)) /\ (Holding(e) => device'[e] = device[e])
  <2> SUFFICES ASSUME NEW e \in Devices
               PROVE  (Holding(e)' <=> Holding(e)) /\ (Holding(e) => device'[e] = device[e])
    OBVIOUS
  <2>1. CASE e = d
    BY <2>1
  <2>2. CASE e # d
    BY <2>2 DEF Holding, Working, Deleting
  <2> QED
    BY <2>1, <2>2
<1>2. \A e \in Devices : /\ device[e].step \in {"resolved", "paid", "resend"} => Holding(e)
                         /\ device'[e].step \in {"resolved", "paid", "resend"} => Holding(e)'
  BY DEF Holding, Working, Deleting
<1>3. LeasesHeld' /\ StepsExact'
  BY <1>1, <1>2 DEF AllExact, DevicesExact, LeasesHeld, StepsExact
<1>4. CacheExact'
  BY DEF AllExact, DevicesExact, CacheExact
<1>5. \A v \in Viewers : Payers(v)' = Payers(v)
  BY <1>1, <1>2 DEF Payers
<1>6. ViewsExact'
  BY <1>5 DEF AllExact, ViewsExact
<1> QED
  BY <1>3, <1>4, <1>6, OffServer, SumsStay DEF AllExact, DevicesExact

\* An invoice stays the row's when neither is touched.
LEMMA CacheStays ==
    ASSUME AllExact, NEW v \in Viewers, cached'[v] = cached[v], view'[v] = view[v], Going(v) => Going(v)'
    PROVE  cached'[v] # 0 /\ ~Going(v)' => view'[v].status = "queued" /\ view'[v].invoice = cached'[v]
BY DEF AllExact, DevicesExact, CacheExact

\* What a browser's record is after a step
LEMMA AfterStep ==
    ASSUME Inv, NEW d \in Devices, NEW step \in DeviceSteps, Step(d, step)
    PROVE  /\ device'[d].step = step /\ device'[d].of = device[d].of /\ device'[d].invoice = device[d].invoice
           /\ \A e \in Devices : e # d => device'[e] = device[e]
BY DEF Step, Inv, TypeOK, Browser

LEMMA NextIdle ==
    ASSUME Inv, NEW d \in Devices, device' = [device EXCEPT ![d] = Next_(d)]
    PROVE  device'[d].step \in {"idle", "list"} /\ \A e \in Devices : e # d => device'[e] = device[e]
<1>1. PICK r : Moves(d, r) /\ r.step \in {"idle", "list"}
  BY NextMoves
<1> QED
  BY <1>1 DEF Moves, Inv, TypeOK

LEMMA QueueExact ==
    ASSUME Inv, RailInv, RailInv', AllExact, NEW d \in Devices,
           Fetch(d) \/ (\E v \in Viewers : TakeUp(d, v)) \/ DeleteInvoice(d)
    PROVE  AllExact'
<1>1. /\ rail # "server" /\ ~Holding(d)
      /\ UNCHANGED <<rail, budget, view, thread, lease, spent, earned, paid>>
  BY DEF Fetch, TakeUp, DeleteInvoice, RailInv, Holding, Working, Deleting, campaign, books, server, keys, wallet
<1>2. device'[d].step \in {"idle", "list", "asked"} /\ \A e \in Devices : e # d => device'[e] = device[e]
  <2>1. CASE Fetch(d)
    BY <2>1 DEF Fetch, Inv, TypeOK
  <2>2. CASE \E v \in Viewers : TakeUp(d, v)
    <3>1. PICK r : Moves(d, r) /\ r.step \in {"idle", "list", "asked"}
      BY <2>2, TakeUpMoves
    <3> QED
      BY <3>1 DEF Moves, Inv, TypeOK
  <2>3. CASE DeleteInvoice(d)
    BY <2>3, NextIdle DEF DeleteInvoice, Answered
  <2> QED
    BY <2>1, <2>2, <2>3
<1>3. ~Holding(d)' /\ ~Deleting(d)'
  BY <1>2 DEF Holding, Working, Deleting
<1>4. ASSUME NEW v \in Viewers, cached'[v] # 0 PROVE cached'[v] = cached[v] /\ (Going(v) => Going(v)')
  <2>1. CASE DeleteInvoice(d)
    <3>1. device[d].of # v /\ cached'[v] = cached[v]
      BY <1>4, <2>1 DEF DeleteInvoice, Inv, TypeOK
    <3> QED
      BY <1>2, <3>1 DEF Going, Deleting
  <2>2. CASE ~DeleteInvoice(d)
    <3>1. UNCHANGED cached /\ ~Deleting(d)
      BY <2>2 DEF Fetch, TakeUp, keys, Deleting
    <3> QED
      BY <1>2, <3>1 DEF Going, Deleting
  <2> QED
    BY <2>1, <2>2
<1> QED
  BY <1>1, <1>2, <1>3, <1>4, NotAtWork

\* A lease that is free is nobody's: whoever takes it has the view to himself, also
\* when he comes late.
LEMMA TakeLeaseExact ==
    ASSUME Inv, RailInv, RailInv', AllExact, NEW d \in Devices, TakeLease(d)
    PROVE  AllExact'
<1> SUFFICES ASSUME NEW v \in Viewers, v = device[d].of PROVE AllExact'
  BY DEF TakeLease, Inv, BrowserInv
<1>1. /\ rail # "server" /\ ~Holding(d) /\ v \in Viewers
      /\ UNCHANGED <<rail, budget, view, thread, cached, spent, earned, paid>>
  BY DEF TakeLease, RailInv, Holding, Working, Deleting, Inv, BrowserInv, campaign, books, server, wallet
<1>2. CASE ~LeaseFree(v)
  <2>1. UNCHANGED lease /\ device'[d].step \in {"idle", "list"} /\ \A e \in Devices : e # d => device'[e] = device[e]
    BY <1>2, NextIdle DEF TakeLease
  <2>2. ~Holding(d)' /\ ~Deleting(d)
    BY <2>1 DEF Holding, Working, Deleting, TakeLease
  <2>3. \A u \in Viewers : Going(u) => Going(u)'
    BY <2>1, <2>2 DEF Going, Deleting
  <2> QED
    BY <1>1, <2>1, <2>2, <2>3, NotAtWork
<1>3. CASE LeaseFree(v)
  <2>1. lease' = [lease EXCEPT ![v] = d] /\ Step(d, "leased")
    BY <1>3 DEF TakeLease, Step
  <2>2. /\ device'[d].step = "leased" /\ device'[d].of = v
        /\ \A e \in Devices : e # d => device'[e] = device[e]
    BY <2>1, AfterStep DEF DeviceSteps
  <2>3. lease'[v] = d /\ \A u \in Viewers : u # v => lease'[u] = lease[u]
    BY <1>1, <2>1 DEF Inv, TypeOK
  <2>4. \A e \in Devices : Holding(e) /\ e # d => device[e].of # v
    BY <1>3, NobodyAssumption DEF LeaseFree, AllExact, DevicesExact, LeasesHeld
  <2>5. Payers(v) = {}
    BY <1>1, <2>4 DEF Payers, Holding, Working, Deleting
  <2>6. Going(v) => Going(v)'
    BY <2>2 DEF Going, Deleting, TakeLease
  <2>8. cached'[v] # 0 /\ ~Going(v)' => view'[v].status = "queued" /\ view'[v].invoice = cached'[v]
    BY <1>1, <2>6, CacheStays
  <2>9. /\ view'[v].status \in {"none", "failed"} => paid'[v] = 0
        /\ view'[v].status = "sent" => paid'[v] = 1
        /\ view'[v].status = "queued" => paid'[v] = 0
        /\ earned'[v] = IF view'[v].status = "sent" THEN Reward ELSE 0
    BY <1>1, <2>5 DEF AllExact, ViewsExact
  <2>10. ThreadsExact' /\ DevicesExact' /\ ViewsExact'
    BY <1>1, <2>2, <2>3, <2>4, <2>8, <2>9, OwnViewExact
  <2> QED
    BY <1>1, <2>10, SumsStay DEF AllExact
<1> QED
  BY <1>2, <1>3

\* A late browser pays nothing, or something goes wrong.
LEMMA SparkExact ==
    ASSUME Inv, RailInv, RailInv', AllExact, NEW d \in Devices, PaySpark(d) \/ LookForSend(d),
           mishaps = 0, mishaps' = 0
    PROVE  AllExact'
<1> SUFFICES ASSUME NEW v \in Viewers, v = device[d].of PROVE AllExact'
  BY DEF PaySpark, LookForSend, Inv, BrowserInv
<1>1. /\ rail = "spark" /\ Holding(d) /\ device[d].step \in {"leased", "check"} /\ v \in Viewers
      /\ UNCHANGED <<rail, budget, view, thread, lease, cached, spent, earned>>
  BY DEF PaySpark, LookForSend, Holding, Working, Deleting, Inv, BrowserInv, campaign, books, server, keys, wallet
<1>2. PICK step \in {"paid", "check", "resend", "fail"} :
         /\ Step(d, step)
         /\ step = "paid" => view[v].status = "queued" /\ paid' = [paid EXCEPT ![v] = @ + 1]
         /\ step # "paid" => UNCHANGED paid
         /\ step = "resend" => paid[v] # 0
  <2>1. CASE PaySpark(d)
    <3>1. CASE Step(d, "fail") /\ UNCHANGED paid
      BY <3>1
    <3>2. CASE \E moved, answered \in BOOLEAN :
                 /\ answered => moved
                 /\ Step(d, IF answered THEN "paid" ELSE "check")
                 /\ paid' = [paid EXCEPT ![v] = IF moved THEN @ + 1 ELSE @]
                 /\ Mishap(moved /\ (~answered \/ view[v].status # "queued"))
      <4>1. PICK moved, answered \in BOOLEAN :
                 /\ answered => moved
                 /\ Step(d, IF answered THEN "paid" ELSE "check")
                 /\ paid' = [paid EXCEPT ![v] = IF moved THEN @ + 1 ELSE @]
                 /\ Mishap(moved /\ (~answered \/ view[v].status # "queued"))
        BY <3>2
      <4>2. moved <=> answered
        BY <4>1 DEF Mishap
      <4>3. CASE moved
        BY <4>1, <4>2, <4>3 DEF Mishap
      <4>4. CASE ~moved
        <5>1. UNCHANGED paid
          BY <1>1, <4>1, <4>4 DEF Inv, TypeOK
        <5> QED
          BY <4>1, <4>2, <4>4, <5>1
      <4> QED
        BY <4>3, <4>4
    <3> QED
      BY <2>1, <3>1, <3>2 DEF PaySpark
  <2>2. CASE LookForSend(d)
    BY <2>2 DEF LookForSend, Mishap, wallet
  <2> QED
    BY <2>1, <2>2
<1>3. /\ device'[d].step = step /\ device'[d].of = v
      /\ \A e \in Devices : e # d => device'[e] = device[e]
  BY <1>2, AfterStep DEF DeviceSteps
<1>4. \A e \in Devices : Holding(e) /\ e # d => device[e].of # v
  BY <1>1, Alone
<1>5. Payers(v) = {}
  BY <1>1, <1>4 DEF Payers, Holding, Working, Deleting
<1>6. view[v].status \in {"none", "pending", "queued", "sent", "failed"} /\ view[v].status # "pending"
  BY <1>1 DEF Inv, TypeOK, View, RailInv
<1>7. /\ view[v].status # "sent" => paid[v] = 0
      /\ view[v].status = "sent" => paid[v] = 1
      /\ earned[v] = IF view[v].status = "sent" THEN Reward ELSE 0
  BY <1>1, <1>5, <1>6 DEF AllExact, ViewsExact
<1>8. /\ \A u \in Viewers : u # v => paid'[u] = paid[u]
      /\ paid'[v] = IF step = "paid" THEN paid[v] + 1 ELSE paid[v]
  BY <1>1, <1>2 DEF Inv, TypeOK
<1>9. /\ lease[v] = d
      /\ Going(v) => Going(v)'
  BY <1>1, <1>3 DEF AllExact, DevicesExact, LeasesHeld, Going, Deleting
<1>11. cached'[v] # 0 /\ ~Going(v)' => view'[v].status = "queued" /\ view'[v].invoice = cached'[v]
  BY <1>1, <1>9, CacheStays
<1>12. /\ step = "paid" => paid'[v] = 1 /\ view'[v].status = "queued"
       /\ step = "resend" => view'[v].status = "sent"
       /\ view'[v].status \in {"none", "failed"} => paid'[v] = 0
       /\ view'[v].status = "sent" => paid'[v] = 1
       /\ view'[v].status = "queued" /\ step # "paid" => paid'[v] = 0
       /\ earned'[v] = IF view'[v].status = "sent" THEN Reward ELSE 0
  BY <1>1, <1>2, <1>7, <1>8
<1>13. ThreadsExact' /\ DevicesExact' /\ ViewsExact'
  BY <1>1, <1>2, <1>3, <1>4, <1>8, <1>9, <1>11, <1>12, OwnViewExact
<1> QED
  BY <1>1, <1>13, SumsStay DEF AllExact

LEMMA ResolveExact ==
    ASSUME Inv, RailInv, RailInv', AllExact, NEW d \in Devices, Resolve(d), mishaps = 0, mishaps' = 0
    PROVE  AllExact'
<1> SUFFICES ASSUME NEW v \in Viewers, v = device[d].of PROVE AllExact'
  BY DEF Resolve, Inv, BrowserInv
<1> DEFINE i == IF cached[v] # 0 THEN cached[v] ELSE invoices + 1
<1>1. /\ rail = "lnurl" /\ Holding(d) /\ device[d].step = "leased" /\ v \in Viewers
      /\ UNCHANGED <<rail, budget, thread, lease, spent, earned, paid>>
  BY DEF Resolve, Holding, Working, Deleting, Inv, BrowserInv, campaign, server, wallet
<1>2. \A e \in Devices : Holding(e) /\ e # d => device[e].of # v
  BY <1>1, Alone
<1>3. Payers(v) = {} /\ lease[v] = d
  BY <1>1, <1>2 DEF Payers, Holding, Working, Deleting, AllExact, DevicesExact, LeasesHeld
<1>4. CASE view[v].status # "queued"
  <2>1. Step(d, "fail") /\ UNCHANGED <<cached, view>>
    BY <1>4 DEF Resolve
  <2>2. /\ device'[d].step = "fail" /\ device'[d].of = v
        /\ \A e \in Devices : e # d => device'[e] = device[e]
    BY <2>1, AfterStep DEF DeviceSteps
  <2>3. Going(v) => Going(v)'
    BY <1>1, <2>2 DEF Going, Deleting
  <2>5. cached'[v] # 0 /\ ~Going(v)' => view'[v].status = "queued" /\ view'[v].invoice = cached'[v]
    BY <1>1, <2>1, <2>3, CacheStays
  <2>6. /\ view'[v].status \in {"none", "failed"} => paid'[v] = 0
        /\ view'[v].status = "sent" => paid'[v] = 1
        /\ view'[v].status # "queued"
        /\ earned'[v] = IF view'[v].status = "sent" THEN Reward ELSE 0
    BY <1>1, <1>4, <2>1 DEF AllExact, ViewsExact
  <2>7. ThreadsExact' /\ DevicesExact' /\ ViewsExact'
    BY <1>1, <1>2, <1>3, <2>1, <2>2, <2>5, <2>6, OwnViewExact
  <2> QED
    BY <1>1, <2>1, <2>7, SumsStay DEF AllExact
<1>5. CASE view[v].status = "queued"
  <2>1. /\ device' = [device EXCEPT ![d] = [device[d] EXCEPT !.step = "resolved", !.invoice = i]]
        /\ cached[v] # 0 => UNCHANGED <<cached, view>>
        /\ cached[v] = 0 => cached' = [cached EXCEPT ![v] = i] /\ view' = [view EXCEPT ![v].invoice = i]
    BY <1>5 DEF Resolve, Inv, TypeOK
  <2>2. cached[v] # 0 => ~Going(v)
    BY <1>5 DEF Resolve, Going, Mishap
  <2>3. cached[v] # 0 => i = cached[v] /\ view[v].invoice = cached[v]
    BY <1>1, <2>2 DEF AllExact, DevicesExact, CacheExact
  <2>4. i # 0
    BY <1>1 DEF Inv, TypeOK
  <2> HIDE DEF i
  <2>5. device[d] \in Browser
    BY DEF Inv, TypeOK
  <2>6. /\ device'[d].step = "resolved" /\ device'[d].of = v /\ device'[d].invoice = i
        /\ \A e \in Devices : e # d => device'[e] = device[e]
    BY <2>1, <2>5 DEF Inv, TypeOK, Browser
  <2>7. /\ cached'[v] = i /\ view'[v].invoice = i
        /\ \A u \in Viewers : view'[u].status = view[u].status
        /\ \A u \in Viewers : u # v => cached'[u] = cached[u] /\ view'[u] = view[u]
    <3>1. CASE cached[v] # 0
      BY <2>1, <2>3, <3>1
    <3>2. CASE cached[v] = 0
      <4>1. cached' = [cached EXCEPT ![v] = i] /\ view' = [view EXCEPT ![v].invoice = i]
        BY <2>1, <3>2
      <4> QED
        BY <1>1, <4>1 DEF Inv, TypeOK, View
    <3> QED
      BY <3>1, <3>2
  <2>8. paid[v] = 0 /\ earned[v] = 0
    BY <1>1, <1>3, <1>5 DEF AllExact, ViewsExact
  <2>10. ThreadsExact' /\ DevicesExact' /\ ViewsExact'
    BY <1>1, <1>2, <1>3, <1>5, <2>4, <2>6, <2>7, <2>8, OwnViewExact
  <2> QED
    BY <1>1, <2>7, <2>10, SumsStay DEF AllExact
<1> QED
  BY <1>4, <1>5

\* An invoice that nobody has paid is paid at most once.
LEMMA PayInvoiceExact ==
    ASSUME Inv, RailInv, RailInv', AllExact, NEW d \in Devices, PayInvoice(d), mishaps = 0, mishaps' = 0
    PROVE  AllExact'
<1> SUFFICES ASSUME NEW v \in Viewers, v = device[d].of PROVE AllExact'
  BY DEF PayInvoice, Inv, BrowserInv
<1> DEFINE i == device[d].invoice
<1>1. /\ rail # "server" /\ Holding(d) /\ device[d].step = "resolved" /\ v \in Viewers /\ device[d] \in Browser
      /\ UNCHANGED <<rail, budget, view, thread, lease, cached, spent, earned>>
  BY DEF PayInvoice, RailInv, Holding, Working, Deleting, Inv, TypeOK, BrowserInv, campaign, books, server, keys
<1>2. \A e \in Devices : Holding(e) /\ e # d => device[e].of # v
  BY <1>1, Alone
<1>3. Payers(v) = {} /\ lease[v] = d
  BY <1>1, <1>2 DEF Payers, Holding, Working, Deleting, AllExact, DevicesExact, LeasesHeld
<1>4. /\ view[v].status = "queued" /\ paid[v] = 0 /\ earned[v] = 0
      /\ rail = "lnurl" => i # 0 /\ i = view[v].invoice
  BY <1>1, <1>3 DEF AllExact, ViewsExact, DevicesExact, StepsExact
<1>5. i \notin settled
  BY <1>1, <1>4 DEF Inv, SettledMeansPaid
<1>6. PICK moved, answered, proof \in BOOLEAN :
        /\ settled' = IF moved THEN settled \cup {i} ELSE settled
        /\ paid' = [paid EXCEPT ![v] = IF moved THEN @ + 1 ELSE @]
        /\ Mishap(moved /\ ~(answered /\ proof))
        /\ IF i \in settled' /\ answered
           THEN device' = [device EXCEPT ![d] = IF proof THEN [@ EXCEPT !.step = "paid"] ELSE Next_(d)]
           ELSE Step(d, "fail")
  BY DEF PayInvoice
<1>7. moved => answered /\ proof
  BY <1>6 DEF Mishap
<1>8. /\ device' = [device EXCEPT ![d] = [device[d] EXCEPT !.step = IF moved THEN "paid" ELSE "fail"]]
  BY <1>5, <1>6, <1>7 DEF Step, Inv, TypeOK
<1>9. /\ device'[d].step = (IF moved THEN "paid" ELSE "fail") /\ device'[d].of = v /\ device'[d].invoice = i
      /\ \A e \in Devices : e # d => device'[e] = device[e]
  BY <1>1, <1>8 DEF Inv, TypeOK, Browser
<1>10. /\ paid'[v] = IF moved THEN 1 ELSE 0
       /\ \A u \in Viewers : u # v => paid'[u] = paid[u]
  BY <1>1, <1>4, <1>6 DEF Inv, TypeOK
<1>11. Going(v) => Going(v)'
  BY <1>1, <1>9 DEF Going, Deleting
<1>13. cached'[v] # 0 /\ ~Going(v)' => view'[v].status = "queued" /\ view'[v].invoice = cached'[v]
  BY <1>1, <1>11, CacheStays
<1>14. /\ view'[v].status = "queued" /\ view'[v].invoice = view[v].invoice /\ lease'[v] = d
       /\ earned'[v] = IF view'[v].status = "sent" THEN Reward ELSE 0
       /\ device'[d].step = "paid" => paid'[v] = 1
       /\ device'[d].step # "paid" => paid'[v] = 0
       /\ device'[d].step # "resend"
       /\ rail = "lnurl" => device'[d].invoice # 0 /\ device'[d].invoice = view'[v].invoice
  BY <1>1, <1>3, <1>4, <1>9, <1>10
<1>15. ThreadsExact' /\ DevicesExact' /\ ViewsExact'
  BY <1>1, <1>2, <1>9, <1>10, <1>13, <1>14, OwnViewExact
<1> QED
  BY <1>1, <1>15, SumsStay DEF AllExact

\* A payment is credited once; a failure only where nothing has been paid.
LEMMA ReportExact ==
    ASSUME Inv, RailInv, RailInv', AllExact, NEW d \in Devices, ReportSent(d) \/ ReportFailed(d),
           mishaps = 0, mishaps' = 0
    PROVE  AllExact'
<1> SUFFICES ASSUME NEW v \in Viewers, v = device[d].of PROVE AllExact'
  BY DEF ReportSent, ReportFailed, Inv, BrowserInv
<1>1. /\ rail # "server" /\ Holding(d) /\ device[d].step \in {"paid", "resend", "fail"} /\ v \in Viewers
      /\ UNCHANGED <<rail, budget, thread, lease, cached, paid>>
  BY DEF ReportSent, ReportFailed, RailInv, Holding, Working, Deleting, Inv, BrowserInv, Mishap, campaign, server, keys, wallet
<1>2. \A e \in Devices : Holding(e) /\ e # d => device[e].of # v
  BY <1>1, Alone
<1>3. /\ lease[v] = d
      /\ device[d].step # "paid" => Payers(v) = {}
  BY <1>1, <1>2 DEF Payers, Holding, Working, Deleting, AllExact, DevicesExact, LeasesHeld
<1>4. /\ device[d].step = "paid" => /\ view[v].status = "queued" /\ paid[v] = 1
                                    /\ ProofFits(v, device[d].invoice)
      /\ device[d].step = "resend" => view[v].status = "sent"
  BY <1>1, RailsAssumption DEF AllExact, DevicesExact, StepsExact, ProofFits, Inv, TypeOK
<1>5. view[v].status \in {"none", "queued", "sent", "failed"}
  BY <1>1 DEF Inv, TypeOK, View, RailInv
<1>6. /\ view[v].status \in {"none", "failed"} => paid[v] = 0
      /\ view[v].status = "sent" => paid[v] = 1
      /\ view[v].status = "queued" /\ device[d].step # "paid" => paid[v] = 0
      /\ earned[v] = IF view[v].status = "sent" THEN Reward ELSE 0
  BY <1>1, <1>3 DEF AllExact, ViewsExact
<1>7. CASE device[d].step = "paid"
  <2>1. Credit(v) /\ Step(d, "sent")
    BY <1>4, <1>7 DEF ReportSent, ReportFailed, CompleteSent, Accepted, Mishap
  <2>2. /\ device'[d].step = "sent" /\ device'[d].of = v
        /\ \A e \in Devices : e # d => device'[e] = device[e]
    BY <2>1, AfterStep DEF DeviceSteps
  <2>3. view'[v].status = "sent" /\ earned'[v] = Reward
    <3>1. earned[v] = 0 /\ view'[v].status = "sent"
      BY <1>1, <1>4, <1>6, <1>7, <2>1, CreditStatus
    <3>2. earned'[v] = earned[v] + Reward
      BY <1>1, <2>1 DEF Credit, Inv, TypeOK
    <3> QED
      BY <3>1, <3>2, RewardAssumption
  <2>4. \A u \in Viewers : u # v => view'[u] = view[u] /\ earned'[u] = earned[u]
    BY <2>1 DEF Credit, Inv, TypeOK
  <2>5. Going(v)'
    BY <2>2 DEF Going, Deleting
  <2>6. SumsExact'
    BY <1>1, <1>4, <1>7, <2>1, SumsCredit DEF AllExact
  <2>8. ThreadsExact' /\ DevicesExact' /\ ViewsExact'
    <3>1. lease'[v] = d /\ paid'[v] = 1
      BY <1>1, <1>3, <1>4, <1>7
    <3> QED
      BY <1>1, <1>2, <2>2, <2>3, <2>4, <2>5, <3>1, OwnViewExact
  <2> QED
    BY <2>6, <2>8 DEF AllExact
<1>8. CASE device[d].step # "paid" /\ view[v].status = "sent"
  <2>1. UNCHANGED books /\ device' = [device EXCEPT ![d] = Next_(d)]
    BY <1>8 DEF ReportSent, ReportFailed, CompleteSent, CompleteFailed, Accepted, Answered, Mishap
  <2>2. device'[d].step \in {"idle", "list"} /\ \A e \in Devices : e # d => device'[e] = device[e]
    BY <2>1, NextIdle
  <2>3. UNCHANGED <<view, spent, earned>> /\ ~Holding(d)'
    BY <2>1, <2>2 DEF books, Holding, Working
  <2>4. Going(v) => Going(v)'
    <3>1. ~Deleting(d)
      BY <1>1 DEF Deleting
    <3>2. \A e \in Devices : device[e].of = v /\ Deleting(e) => device'[e].of = v /\ Deleting(e)'
      BY <2>2, <3>1 DEF Deleting
    <3> QED
      BY <3>2 DEF Going
  <2>6. ThreadsExact' /\ DevicesExact' /\ ViewsExact'
    <3>1. cached'[v] # 0 /\ ~Going(v)' => view'[v].status = "queued" /\ view'[v].invoice = cached'[v]
      BY <1>1, <2>3, <2>4, CacheStays
    <3>2. view'[v].status = "sent" /\ paid'[v] = 1 /\ earned'[v] = Reward
      BY <1>1, <1>6, <1>8, <2>3
    <3>3. \A u \in Viewers : u # v => view'[u] = view[u] /\ earned'[u] = earned[u]
      BY <2>1 DEF books
    <3> QED
      BY <1>1, <1>2, <2>2, <2>3, <3>1, <3>2, <3>3, OwnViewExact
  <2> QED
    BY <1>1, <2>3, <2>6, SumsStay DEF AllExact
<1>9. CASE device[d].step # "paid" /\ view[v].status # "sent"
  <2>1. Fails(v) /\ Step(d, "failed")
    BY <1>1, <1>4, <1>9 DEF ReportSent, ReportFailed, CompleteFailed, Mishap, Step
  <2>2. /\ device'[d].step = "failed" /\ device'[d].of = v
        /\ \A e \in Devices : e # d => device'[e] = device[e]
    BY <2>1, AfterStep DEF DeviceSteps
  <2>3. view'[v].status = "failed" /\ earned'[v] = 0 /\ paid[v] = 0
    <3>1. earned[v] = 0 /\ paid[v] = 0
      BY <1>5, <1>6, <1>9
    <3>2. view'[v].status = "failed" /\ UNCHANGED earned
      BY <1>1, <2>1, FailsStatus DEF Fails
    <3> QED
      BY <3>1, <3>2
  <2>4. \A u \in Viewers : u # v => view'[u] = view[u] /\ earned'[u] = earned[u]
    BY <2>1 DEF Fails, Inv, TypeOK
  <2>5. Going(v)'
    BY <2>2 DEF Going, Deleting
  <2>6. SumsExact'
    BY <1>1, <1>5, <1>9, <2>1, SumsFails, SumsFailsAgain DEF AllExact
  <2>8. ThreadsExact' /\ DevicesExact' /\ ViewsExact'
    <3>1. lease'[v] = d /\ paid'[v] = 0
      BY <1>1, <1>3, <2>3
    <3> QED
      BY <1>1, <1>2, <2>2, <2>3, <2>4, <2>5, <3>1, OwnViewExact
  <2> QED
    BY <2>6, <2>8 DEF AllExact
<1> QED
  BY <1>7, <1>8, <1>9

LEMMA DeleteLeaseExact ==
    ASSUME Inv, RailInv, RailInv', AllExact, NEW d \in Devices, DeleteLease(d)
    PROVE  AllExact'
<1> SUFFICES ASSUME NEW v \in Viewers, v = device[d].of PROVE AllExact'
  BY DEF DeleteLease, Inv, BrowserInv
<1>1. /\ rail # "server" /\ Holding(d) /\ device[d].step \in {"sent", "failed"} /\ v \in Viewers
      /\ UNCHANGED <<rail, budget, view, thread, cached, spent, earned, paid>>
  BY DEF DeleteLease, RailInv, Holding, Inv, BrowserInv, campaign, books, server, wallet
<1>2. \A e \in Devices : Holding(e) /\ e # d => device[e].of # v
  BY <1>1, Alone
<1>3. PICK step \in {"sentUnleased", "failedUnleased"} : Step(d, step)
  BY DEF DeleteLease
<1>4. /\ device'[d].step = step /\ device'[d].of = v
      /\ \A e \in Devices : e # d => device'[e] = device[e]
  BY <1>3, AfterStep DEF DeviceSteps
<1>5. \A u \in Viewers : u # v => lease'[u] = lease[u]
  BY DEF DeleteLease, LeaseLost, Inv, TypeOK
<1>6. Payers(v) = {} /\ Going(v)' /\ Going(v) /\ ~Holding(d)'
  BY <1>1, <1>2, <1>4 DEF Payers, Going, Holding, Working, Deleting
<1>8. /\ view'[v].status \in {"none", "failed"} => paid'[v] = 0
      /\ view'[v].status = "sent" => paid'[v] = 1
      /\ view'[v].status = "queued" => paid'[v] = 0
      /\ earned'[v] = IF view'[v].status = "sent" THEN Reward ELSE 0
  BY <1>1, <1>6 DEF AllExact, ViewsExact
<1>9. ThreadsExact' /\ DevicesExact' /\ ViewsExact'
  BY <1>1, <1>2, <1>3, <1>4, <1>5, <1>6, <1>8, OwnViewExact
<1> QED
  BY <1>1, <1>9, SumsStay DEF AllExact

LEMMA SavesExact ==
    ASSUME Inv, AllExact, TwoMinutesPass \/ ClickLock \/ ClickCommit \/ EditRead \/ EditSave,
           mishaps = 0, mishaps' = 0
    PROVE  AllExact'
<1>1. CASE TwoMinutesPass \/ ClickLock \/ EditRead
  BY <1>1, ExactStays DEF TwoMinutesPass, ClickLock, EditRead, campaign, books, server, browsers, keys, wallet
<1>2. CASE EditSave
  <2>1. spent' = spent
    BY <1>2 DEF EditSave, Mishap
  <2> QED
    BY <1>2, <2>1, ExactStays DEF EditSave, campaign, server, browsers, keys, wallet
<1>3. CASE ClickCommit
  <2>1. view[click.of] = click.copy /\ spent' = spent /\ click.of \in Viewers
    BY <1>3 DEF ClickCommit, Mishap, Inv, ClickInv
  <2>2. \A v \in Viewers : /\ view'[v].status = view[v].status /\ view'[v].fresh = view[v].fresh
                           /\ view'[v].invoice = view[v].invoice
    BY <1>3, <2>1 DEF ClickCommit, Inv, TypeOK, View
  <2> QED
    BY <1>3, <2>1, <2>2, ExactStays DEF ClickCommit, campaign, server, browsers, keys, wallet
<1> QED
  BY <1>1, <1>2, <1>3

LEMMA ExactNext == ASSUME Inv, RailInv, Exact, [Next]_vars PROVE Exact'
<1>1. mishaps \in Nat /\ mishaps' \in Nat /\ mishaps' >= mishaps /\ RailInv'
  BY MishapsGrow, RailNext
<1> SUFFICES ASSUME mishaps' = 0, mishaps = 0, AllExact PROVE AllExact'
  BY <1>1 DEF Exact
<1>2. CASE \E v \in Viewers : ViewStep(v)
  BY <1>1, <1>2, ClaimExact, OtherViewExact DEF ViewStep
<1>3. CASE \E h \in Threads : ServerStep(h)
  BY <1>1, <1>3, PayExact, RecordExact DEF ServerStep, WorkerDies, Mishap
<1>4. CASE \E d \in Devices : DeviceStep(d)
  BY <1>1, <1>4, QueueExact, TakeLeaseExact, SparkExact, ResolveExact, PayInvoiceExact, ReportExact,
     DeleteLeaseExact DEF DeviceStep, DeviceDies, Mishap
<1>5. CASE UNCHANGED vars
  BY <1>5, ExactStays DEF vars, campaign, books, server, browsers, keys, wallet
<1> QED
  BY <1>2, <1>3, <1>4, <1>5, SavesExact DEF Next

-----------------------------------------------------------------------------
(* Every mishap costs at most one more payment *)

Count(b) == IF b THEN 1 ELSE 0

\* A browser that may still pay v, or give v back to be paid by another,
MayCost(d, v) == device[d].of = v /\ device[d].step \in {"leased", "check", "fail"}

\* and one that counts v as paid.
HasPaid(d, v) == device[d].of = v /\ device[d].step \in {"paid", "resend"}

\* The browsers that may pay v without its lease
Loose(v) == {d \in Devices : MayCost(d, v) /\ lease[v] # d}

\* v can be paid by the holder of its lease, the present or the next one.
Payable(v) ==
    \/ view[v].status \in {"none", "failed"}
    \/ view[v].status = "queued" /\ \A d \in Devices : lease[v] = d => ~HasPaid(d, v)

\* What has been paid and what may be
SparkBound(v) == paid[v] + Cardinality(Loose(v)) + Count(Payable(v)) <= 1 + mishaps

\* The threads that may pay v, or have and do not know it
Paying(v) == {h \in Threads : thread[h].of = v /\ thread[h].step \in {"paying", "lost"}}

Attended(v) == \E h \in Threads : thread[h].of = v /\ thread[h].step # "idle"

\* v can be claimed, or will be when it has grown stale.
Open(v) ==
    \/ view[v].status \in {"none", "failed"}
    \/ view[v].status = "pending" /\ ~(view[v].fresh /\ Attended(v))

ServerBound(v) == paid[v] + Cardinality(Paying(v)) + Count(Open(v)) <= 1 + mishaps

Bounded ==
    /\ rail = "spark" => \A v \in Viewers : SparkBound(v)
    /\ rail = "server" => \A v \in Viewers : ServerBound(v)

LEMMA BoundedInit == Init => Bounded
<1> SUFFICES ASSUME Init, NEW v \in Viewers PROVE SparkBound(v) /\ ServerBound(v)
  BY DEF Bounded
<1>1. Loose(v) = {} /\ Paying(v) = {} /\ paid[v] = 0 /\ mishaps = 0
  BY DEF Init, Loose, MayCost, Paying
<1> QED
  BY <1>1, FS_EmptySet DEF SparkBound, ServerBound, Count

\* Some leave a set, some join it.
LEMMA Exchange ==
    ASSUME NEW S, IsFiniteSet(S), NEW T,
           NEW come, IsFiniteSet(come), NEW gone \in SUBSET S, T \subseteq (S \ gone) \cup come
    PROVE  /\ Cardinality(S) \in Nat /\ Cardinality(T) \in Nat
           /\ Cardinality(come) \in Nat /\ Cardinality(gone) \in Nat
           /\ Cardinality(T) + Cardinality(gone) <= Cardinality(S) + Cardinality(come)
<1>1. IsFiniteSet(S \ gone) /\ IsFiniteSet(gone)
  BY FS_Subset
<1>2. IsFiniteSet((S \ gone) \cup come)
  BY <1>1, FS_Union
<1>3. IsFiniteSet(T) /\ Cardinality(T) <= Cardinality((S \ gone) \cup come)
  BY <1>2, FS_Subset
<1>4. Cardinality((S \ gone) \cup come) =
        Cardinality(S \ gone) + Cardinality(come) - Cardinality((S \ gone) \cap come)
  BY <1>1, FS_Union
<1>5. IsFiniteSet((S \ gone) \cap come)
  BY <1>1, FS_Subset
<1>6. Cardinality(S \ gone) = Cardinality(S) - Cardinality(gone)
  <2>1. Cardinality(S \ gone) = Cardinality(S) - Cardinality(S \cap gone)
    BY FS_Difference
  <2> QED
    BY <2>1, Zenon, S \cap gone = gone
<1>7. /\ Cardinality(S) \in Nat /\ Cardinality(T) \in Nat /\ Cardinality(come) \in Nat
      /\ Cardinality(gone) \in Nat /\ Cardinality((S \ gone) \cap come) \in Nat
      /\ Cardinality((S \ gone) \cup come) \in Nat
  BY <1>1, <1>2, <1>3, <1>5, FS_CardinalityType
<1> QED
  BY <1>3, <1>4, <1>6, <1>7

\* Nobody joins; one leaves; one joins; one joins beside a browser that only leaves
\* its lease.
LEMMA Joins ==
    ASSUME NEW S, IsFiniteSet(S), NEW T
    PROVE  /\ T \subseteq S => Cardinality(T) <= Cardinality(S)
           /\ \A d \in S : T \subseteq S \ {d} => Cardinality(T) + 1 <= Cardinality(S)
           /\ \A d : T \subseteq S \cup {d} => Cardinality(T) <= Cardinality(S) + 1
           /\ \A d, e : T \subseteq S \cup {d, e} => Cardinality(T) <= Cardinality(S) + 2
           /\ \A d : T \subseteq S \cup {d} => Cardinality(S) \in Nat /\ Cardinality(T) \in Nat
<1>1. ASSUME T \subseteq S PROVE Cardinality(T) <= Cardinality(S)
  BY <1>1, FS_Subset
<1>2. ASSUME NEW d \in S, T \subseteq S \ {d} PROVE Cardinality(T) + 1 <= Cardinality(S)
  <2>1. Cardinality({d}) = 1 /\ IsFiniteSet({}) /\ Cardinality({}) = 0
    BY FS_Singleton, FS_EmptySet
  <2>2. {d} \in SUBSET S /\ T \subseteq (S \ {d}) \cup {}
    BY <1>2
  <2> QED
    BY <2>1, <2>2, Exchange
<1>3. ASSUME NEW d, NEW e, T \subseteq S \cup {d, e}
      PROVE  /\ Cardinality(T) <= Cardinality(S) + 2
             /\ d = e => Cardinality(T) <= Cardinality(S) + 1
             /\ Cardinality(S) \in Nat /\ Cardinality(T) \in Nat
  <2>1. IsFiniteSet({d}) /\ Cardinality({d}) = 1 /\ IsFiniteSet({e}) /\ Cardinality({e}) = 1
        /\ IsFiniteSet({}) /\ Cardinality({}) = 0
    BY FS_Singleton, FS_EmptySet
  <2>2. IsFiniteSet(S \cup {d})
    BY <2>1, FS_Union
  <2>3. /\ Cardinality(S \cup {d}) <= Cardinality(S) + 1
        /\ Cardinality(S) \in Nat /\ Cardinality(S \cup {d}) \in Nat
    <3>1. {} \in SUBSET S /\ S \cup {d} \subseteq (S \ {}) \cup {d}
      OBVIOUS
    <3> QED
      BY <2>1, <3>1, Exchange
  <2>4. Cardinality(T) <= Cardinality(S \cup {d}) + 1 /\ Cardinality(T) \in Nat
    <3>1. {} \in SUBSET (S \cup {d}) /\ T \subseteq ((S \cup {d}) \ {}) \cup {e}
      BY <1>3
    <3> QED
      BY <2>1, <2>2, <3>1, Exchange
  <2>5. d = e => Cardinality(T) <= Cardinality(S \cup {d})
    BY <1>3, <2>2, FS_Subset
  <2> QED
    BY <2>3, <2>4, <2>5
<1>4. ASSUME NEW d, T \subseteq S \cup {d} PROVE Cardinality(T) <= Cardinality(S) + 1
  <2>1. T \subseteq S \cup {d, d}
    BY <1>4
  <2> QED
    BY <1>3, <2>1
<1>5. ASSUME NEW d, T \subseteq S \cup {d} PROVE Cardinality(S) \in Nat /\ Cardinality(T) \in Nat
  <2>1. T \subseteq S \cup {d, d}
    BY <1>5
  <2> QED
    BY <1>3, <2>1
<1> QED
  BY <1>1, <1>2, <1>3, <1>4, <1>5

-----------------------------------------------------------------------------
LEMMA BoundTypes ==
    ASSUME Inv, NEW v \in Viewers
    PROVE  /\ paid[v] \in Nat /\ mishaps \in Nat /\ Count(Payable(v)) \in 0 .. 1 /\ Count(Open(v)) \in 0 .. 1
           /\ IsFiniteSet(Loose(v)) /\ IsFiniteSet(Paying(v))
<1>1. Loose(v) \subseteq Devices /\ Paying(v) \subseteq Threads
  BY DEF Loose, Paying
<1> QED
  BY <1>1, FiniteAssumption, FS_Subset, BoundAssumption DEF Inv, TypeOK, Count

\* A view costs no more, when nothing is paid for it;
LEMMA NoDearer ==
    ASSUME Inv, Inv', NEW v \in Viewers, SparkBound(v), paid'[v] = paid[v], mishaps' >= mishaps,
           Loose(v)' \subseteq Loose(v), Payable(v)' => Payable(v)
    PROVE  SparkBound(v)'
<1>1. Cardinality(Loose(v)') <= Cardinality(Loose(v)) /\ Cardinality(Loose(v)) \in Nat /\ Cardinality(Loose(v)') \in Nat
  <2>1. Loose(v)' \subseteq Loose(v) \cup {v}
    OBVIOUS
  <2> QED
    BY <2>1, BoundTypes, Joins
<1>2. Count(Payable(v)') <= Count(Payable(v))
  BY DEF Count
<1>3. Count(Payable(v)') \in 0 .. 1 /\ Count(Payable(v)) \in 0 .. 1
  BY DEF Count
<1> QED
  BY <1>1, <1>2, <1>3, BoundTypes DEF SparkBound, Inv, TypeOK

\* when something goes wrong, and at most one browser becomes loose or the view can be
\* paid again or has been paid once more;
LEMMA OneDearer ==
    ASSUME Inv, Inv', NEW v \in Viewers, SparkBound(v), mishaps' = mishaps + 1, NEW e,
           \/ paid'[v] = paid[v] /\ Loose(v)' \subseteq Loose(v)
           \/ paid'[v] = paid[v] /\ Loose(v)' \subseteq Loose(v) \cup {e} /\ (Payable(v)' => Payable(v))
           \/ paid'[v] = paid[v] + 1 /\ Loose(v)' \subseteq Loose(v) /\ (Payable(v)' => Payable(v))
    PROVE  SparkBound(v)'
<1>1. /\ Loose(v)' \subseteq Loose(v) => Cardinality(Loose(v)') <= Cardinality(Loose(v))
      /\ Cardinality(Loose(v)') <= Cardinality(Loose(v)) + 1
      /\ Cardinality(Loose(v)) \in Nat /\ Cardinality(Loose(v)') \in Nat
  <2>1. Loose(v)' \subseteq Loose(v) \cup {e}
    OBVIOUS
  <2> QED
    BY <2>1, BoundTypes, Joins
<1>2. (Payable(v)' => Payable(v)) => Count(Payable(v)') <= Count(Payable(v))
  BY DEF Count
<1>3. Count(Payable(v)') \in 0 .. 1 /\ Count(Payable(v)) \in 0 .. 1
  BY DEF Count
<1> QED
  BY <1>1, <1>2, <1>3, BoundTypes DEF SparkBound, Inv, TypeOK

\* when a loose browser has paid it or given it back,
LEMMA LooseNoMore ==
    ASSUME Inv, Inv', NEW v \in Viewers, SparkBound(v), mishaps' >= mishaps, NEW d \in Loose(v),
           Loose(v)' \subseteq Loose(v) \ {d},
           \/ paid'[v] = paid[v]
           \/ paid'[v] = paid[v] + 1 /\ (Payable(v)' => Payable(v))
    PROVE  SparkBound(v)'
<1>1. Cardinality(Loose(v)') + 1 <= Cardinality(Loose(v)) /\ Cardinality(Loose(v)) \in Nat /\ Cardinality(Loose(v)') \in Nat
  <2>1. Loose(v)' \subseteq Loose(v) \cup {v}
    OBVIOUS
  <2> QED
    BY <2>1, BoundTypes, Joins
<1>2. (Payable(v)' => Payable(v)) => Count(Payable(v)') <= Count(Payable(v))
  BY DEF Count
<1>3. Count(Payable(v)') \in 0 .. 1 /\ Count(Payable(v)) \in 0 .. 1
  BY DEF Count
<1> QED
  BY <1>1, <1>2, <1>3, BoundTypes DEF SparkBound, Inv, TypeOK

\* and when it is not to be paid any more, for each time it has been paid or has got
\* a loose browser.
LEMMA Closed ==
    ASSUME Inv, Inv', NEW v \in Viewers, SparkBound(v), mishaps' >= mishaps, Payable(v), ~Payable(v)', NEW d, NEW e,
           \/ paid'[v] = paid[v] + 1 /\ Loose(v)' \subseteq Loose(v)
           \/ paid'[v] = paid[v] /\ Loose(v)' \subseteq Loose(v) \cup {d}
           \/ paid'[v] = paid[v] /\ Loose(v)' \subseteq Loose(v) \cup {d, e} /\ mishaps' = mishaps + 1
    PROVE  SparkBound(v)'
<1>1. /\ Loose(v)' \subseteq Loose(v) => Cardinality(Loose(v)') <= Cardinality(Loose(v))
      /\ Loose(v)' \subseteq Loose(v) \cup {d} => Cardinality(Loose(v)') <= Cardinality(Loose(v)) + 1
      /\ Loose(v)' \subseteq Loose(v) \cup {d, e} => Cardinality(Loose(v)') <= Cardinality(Loose(v)) + 2
  BY BoundTypes, Joins
<1>2. Cardinality(Loose(v)) \in Nat /\ Cardinality(Loose(v)') \in Nat
  <2>1. IsFiniteSet(Loose(v)')
    <3>1. Loose(v)' \subseteq Devices
      BY DEF Loose
    <3> QED
      BY <3>1, FiniteAssumption, FS_Subset
  <2> QED
    BY <2>1, BoundTypes, FS_CardinalityType
<1>3. Count(Payable(v)') = 0 /\ Count(Payable(v)) = 1
  BY DEF Count
<1>4. paid[v] \in Nat /\ paid'[v] \in Nat /\ mishaps \in Nat /\ mishaps' \in Nat
  BY BoundAssumption DEF Inv, TypeOK
<1>5. paid[v] + Cardinality(Loose(v)) + 1 <= 1 + mishaps
  BY <1>3 DEF SparkBound
<1>6. paid'[v] + Cardinality(Loose(v)') + 0 <= 1 + mishaps'
  BY <1>1, <1>2, <1>4, <1>5
<1> QED
  BY <1>3, <1>6 DEF SparkBound

\* What a step does not touch costs the same.
LEMMA SameCost ==
    ASSUME NEW v \in Viewers, view'[v].status = view[v].status, lease'[v] = lease[v],
           \A e \in Devices : (MayCost(e, v)' <=> MayCost(e, v)) /\ (HasPaid(e, v)' <=> HasPaid(e, v))
    PROVE  Loose(v)' = Loose(v) /\ (Payable(v)' <=> Payable(v))
<1>1. Loose(v)' = Loose(v)
  BY DEF Loose
<1>2. lease'[v] \notin Devices \/ lease'[v] \in Devices
  OBVIOUS
<1> QED
  BY <1>1, <1>2 DEF Payable

\* The other views, when a browser takes a step at its own
LEMMA SparkOthers ==
    ASSUME Inv, Inv', \A u \in Viewers : SparkBound(u), mishaps' >= mishaps,
           NEW d \in Devices, NEW v \in Viewers, device[d].of = v \/ device[d].step \in {"idle", "list"},
           \A e \in Devices : e # d => device'[e] = device[e],
           device'[d].of = v \/ device'[d].step \in {"idle", "list", "asked"},
           \A u \in Viewers : u # v => view'[u].status = view[u].status /\ paid'[u] = paid[u] /\ lease'[u] = lease[u]
    PROVE  \A u \in Viewers : u # v => SparkBound(u)'
<1> SUFFICES ASSUME NEW u \in Viewers, u # v PROVE SparkBound(u)'
  OBVIOUS
<1>1. \A e \in Devices : (MayCost(e, u)' <=> MayCost(e, u)) /\ (HasPaid(e, u)' <=> HasPaid(e, u))
  BY DEF MayCost, HasPaid
<1>2. Loose(u)' = Loose(u) /\ (Payable(u)' <=> Payable(u))
  BY <1>1, SameCost
<1> QED
  BY <1>2, NoDearer

-----------------------------------------------------------------------------
\* Steps that pay nothing: claims, clicks and edits,
LEMMA SparkRows ==
    ASSUME Inv, Inv', RailInv, rail = "spark", \A u \in Viewers : SparkBound(u), mishaps' >= mishaps,
           UNCHANGED <<device, lease, paid>>,
           \A u \in Viewers : \/ view'[u].status = view[u].status
                              \/ view[u].status \in {"none", "failed"} /\ view'[u].status = "queued"
                              \/ mishaps' = mishaps + 1
    PROVE  \A u \in Viewers : SparkBound(u)'
<1> SUFFICES ASSUME NEW u \in Viewers PROVE SparkBound(u)'
  OBVIOUS
<1>1. Loose(u)' = Loose(u)
  BY DEF Loose, MayCost
<1>2. CASE view'[u].status = view[u].status
  BY <1>1, <1>2, NoDearer DEF Payable, HasPaid
<1>3. CASE view[u].status \in {"none", "failed"}
  BY <1>1, <1>3, NoDearer DEF Payable
<1>4. CASE mishaps' = mishaps + 1
  BY <1>1, <1>4, OneDearer
<1> QED
  BY <1>2, <1>3, <1>4

\* a browser on the way to a lease or done with its view,
LEMMA SparkQueue ==
    ASSUME Inv, Inv', RailInv, rail = "spark", \A u \in Viewers : SparkBound(u),
           NEW d \in Devices, Fetch(d) \/ (\E v \in Viewers : TakeUp(d, v)) \/ DeleteInvoice(d)
    PROVE  \A u \in Viewers : SparkBound(u)'
<1>1. /\ UNCHANGED <<view, paid, lease, mishaps>> /\ mishaps' >= mishaps
      /\ device[d].step \in {"idle", "list", "sentUnleased", "failedUnleased"}
  <2>1. /\ UNCHANGED <<view, paid, lease, mishaps>>
        /\ device[d].step \in {"idle", "list", "sentUnleased", "failedUnleased"}
    BY DEF Fetch, TakeUp, DeleteInvoice, books, keys, wallet
  <2>2. mishaps \in Nat
    BY BoundAssumption DEF Inv, TypeOK
  <2> QED
    BY <2>1, <2>2
<1>2. device'[d].step \in {"idle", "list", "asked"} /\ \A e \in Devices : e # d => device'[e] = device[e]
  <2>1. CASE Fetch(d)
    BY <2>1 DEF Fetch, Inv, TypeOK
  <2>2. CASE \E v \in Viewers : TakeUp(d, v)
    <3>1. PICK r : Moves(d, r) /\ r.step \in {"idle", "list", "asked"}
      BY <2>2, TakeUpMoves
    <3> QED
      BY <3>1 DEF Moves, Inv, TypeOK
  <2>3. CASE DeleteInvoice(d)
    BY <2>3, NextIdle DEF DeleteInvoice, Answered
  <2> QED
    BY <2>1, <2>2, <2>3
<1> SUFFICES ASSUME NEW u \in Viewers PROVE SparkBound(u)'
  OBVIOUS
<1>3. \A e \in Devices : (MayCost(e, u)' <=> MayCost(e, u)) /\ (HasPaid(e, u)' <=> HasPaid(e, u))
  BY <1>1, <1>2 DEF MayCost, HasPaid
<1>4. Loose(u)' = Loose(u) /\ (Payable(u)' <=> Payable(u))
  BY <1>1, <1>3, SameCost
<1> QED
  BY <1>1, <1>4, NoDearer

\* and one that takes the lease.
LEMMA SparkTakeLease ==
    ASSUME Inv, Inv', RailInv, rail = "spark", \A u \in Viewers : SparkBound(u), NEW d \in Devices, TakeLease(d)
    PROVE  \A u \in Viewers : SparkBound(u)'
<1> SUFFICES ASSUME NEW v \in Viewers, v = device[d].of PROVE \A u \in Viewers : SparkBound(u)'
  BY DEF TakeLease, Inv, BrowserInv
<1>1. UNCHANGED <<view, paid, mishaps>> /\ device[d].step = "asked" /\ mishaps' >= mishaps
  BY BoundAssumption DEF TakeLease, books, wallet, Inv, TypeOK
<1>2. /\ \A e \in Devices : e # d => device'[e] = device[e]
      /\ \/ device'[d].step \in {"idle", "list"} /\ UNCHANGED lease
         \/ device'[d].step = "leased" /\ device'[d].of = v /\ lease[v] = NoDevice /\ lease' = [lease EXCEPT ![v] = d]
  <2>1. CASE LeaseFree(v)
    <3>1. Step(d, "leased") /\ lease[v] = NoDevice /\ lease' = [lease EXCEPT ![v] = d]
      BY <2>1 DEF TakeLease, Step, LeaseFree
    <3> QED
      BY <3>1, AfterStep DEF DeviceSteps
  <2>2. CASE ~LeaseFree(v)
    BY <2>2, NextIdle DEF TakeLease
  <2> QED
    BY <2>1, <2>2
<1>3. \A u \in Viewers : u # v => lease'[u] = lease[u]
  BY <1>2 DEF Inv, TypeOK
<1>4. SparkBound(v)'
  <2>1. \A e \in Devices : HasPaid(e, v)' <=> HasPaid(e, v)
    BY <1>1, <1>2 DEF HasPaid
  <2>2. \A e \in Devices : e # d => (MayCost(e, v)' <=> MayCost(e, v))
    BY <1>2 DEF MayCost
  <2>3. CASE UNCHANGED lease
    <3>1. ~MayCost(d, v) /\ (device'[d].step \in {"idle", "list"} => ~MayCost(d, v)')
      BY <1>1 DEF MayCost
    <3>2. lease'[v] = lease[v]
      BY <2>3
    <3>3. device'[d].step \in {"idle", "list"}
      BY <1>2, <2>3, NobodyAssumption DEF Inv, TypeOK
    <3>4. Loose(v)' = Loose(v) /\ (Payable(v)' <=> Payable(v))
      BY <1>1, <2>1, <2>2, <3>1, <3>2, <3>3, SameCost
    <3> QED
      BY <1>1, <3>4, NoDearer
  <2>4. CASE lease[v] = NoDevice /\ lease' = [lease EXCEPT ![v] = d] /\ device'[d].step = "leased"
    <3>1. lease'[v] = d
      BY <2>4 DEF Inv, TypeOK
    <3>2. Loose(v)' \subseteq Loose(v)
      BY <2>2, <2>4, <3>1, NobodyAssumption DEF Loose
    <3>3. Payable(v)' => Payable(v)
      BY <1>1, <2>4, NobodyAssumption DEF Payable
    <3> QED
      BY <1>1, <3>2, <3>3, NoDearer
  <2> QED
    BY <1>2, <2>3, <2>4
<1>5. \A u \in Viewers : u # v => SparkBound(u)'
  BY <1>1, <1>2, <1>3, SparkOthers
<1> QED
  BY <1>4, <1>5

\* What a step of d at v changes at most
LEMMA SparkOwn ==
    ASSUME NEW d \in Devices, NEW v \in Viewers, device[d].of = v,
           \A e \in Devices : e # d => device'[e] = device[e],
           device'[d].of = v \/ device'[d].step \in {"idle", "list"}, lease'[v] = lease[v]
    PROVE  /\ Loose(v)' \subseteq Loose(v) \cup {d}
           /\ MayCost(d, v) \/ ~MayCost(d, v)' => Loose(v)' \subseteq Loose(v)
           /\ ~MayCost(d, v)' => Loose(v)' \subseteq Loose(v) \ {d}
           /\ (view'[v].status = view[v].status \/ view'[v].status = "sent")
              /\ (lease[v] # d \/ HasPaid(d, v)' \/ ~HasPaid(d, v)) =>
                (Payable(v)' => Payable(v))
<1>1. \A e \in Devices : e # d => (MayCost(e, v)' <=> MayCost(e, v)) /\ (HasPaid(e, v)' <=> HasPaid(e, v))
  BY DEF MayCost, HasPaid
<1>2. /\ Loose(v)' \subseteq Loose(v) \cup {d}
      /\ MayCost(d, v) \/ ~MayCost(d, v)' => Loose(v)' \subseteq Loose(v)
      /\ ~MayCost(d, v)' => Loose(v)' \subseteq Loose(v) \ {d}
  BY <1>1 DEF Loose
<1>3. ASSUME view'[v].status = view[v].status \/ view'[v].status = "sent",
             lease[v] # d \/ HasPaid(d, v)' \/ ~HasPaid(d, v), Payable(v)'
      PROVE  Payable(v)
  BY <1>1, <1>3 DEF Payable
<1> QED
  BY <1>2, <1>3

LEMMA SparkPay ==
    ASSUME Inv, Inv', RailInv, rail = "spark", \A u \in Viewers : SparkBound(u), NEW d \in Devices,
           PaySpark(d) \/ LookForSend(d)
    PROVE  \A u \in Viewers : SparkBound(u)'
<1> SUFFICES ASSUME NEW v \in Viewers, v = device[d].of PROVE \A u \in Viewers : SparkBound(u)'
  BY DEF PaySpark, LookForSend, Inv, BrowserInv
<1>1. /\ UNCHANGED <<view, lease>> /\ MayCost(d, v) /\ ~HasPaid(d, v) /\ mishaps \in Nat
  BY BoundAssumption DEF PaySpark, LookForSend, books, keys, Inv, TypeOK, MayCost, HasPaid
<1>2. PICK step \in {"fail", "check", "paid", "resend"}, moved \in BOOLEAN :
        /\ Step(d, step)
        /\ paid' = [paid EXCEPT ![v] = IF moved THEN @ + 1 ELSE @]
        /\ mishaps' >= mishaps
        /\ moved /\ (step # "paid" \/ view[v].status # "queued") => mishaps' = mishaps + 1
  <2>1. CASE PaySpark(d)
    <3>1. CASE Step(d, "fail") /\ UNCHANGED <<paid, recent, mishaps>>
      <4>1. paid' = [paid EXCEPT ![v] = IF FALSE THEN @ + 1 ELSE @]
        BY <3>1 DEF Inv, TypeOK
      <4>2. Step(d, "fail") /\ mishaps' >= mishaps
        BY <1>1, <3>1
      <4> QED
        BY <4>1, <4>2
    <3>2. CASE \E moved, answered \in BOOLEAN :
                 /\ answered => moved
                 /\ Step(d, IF answered THEN "paid" ELSE "check")
                 /\ paid' = [paid EXCEPT ![v] = IF moved THEN @ + 1 ELSE @]
                 /\ Mishap(moved /\ (~answered \/ view[v].status # "queued"))
      <4>1. PICK moved, answered \in BOOLEAN :
                 /\ answered => moved
                 /\ Step(d, IF answered THEN "paid" ELSE "check")
                 /\ paid' = [paid EXCEPT ![v] = IF moved THEN @ + 1 ELSE @]
                 /\ Mishap(moved /\ (~answered \/ view[v].status # "queued"))
        BY <3>2
      <4>2. mishaps' >= mishaps /\ (moved /\ (~answered \/ view[v].status # "queued") => mishaps' = mishaps + 1)
        BY <1>1, <4>1 DEF Mishap
      <4>3. CASE answered
        BY <4>1, <4>2, <4>3
      <4>4. CASE ~answered
        BY <4>1, <4>2, <4>4
      <4> QED
        BY <4>3, <4>4
    <3> QED
      BY <2>1, <3>1, <3>2 DEF PaySpark
  <2>2. CASE LookForSend(d)
    <3>1. paid' = [paid EXCEPT ![v] = IF FALSE THEN @ + 1 ELSE @]
      BY <2>2 DEF LookForSend, wallet, Inv, TypeOK
    <3>2. mishaps' >= mishaps /\ \E step \in {"fail", "resend"} : Step(d, step)
      BY <1>1, <2>2 DEF LookForSend, Mishap
    <3> QED
      BY <3>1, <3>2
  <2> QED
    BY <2>1, <2>2
<1>3. /\ device'[d].step = step /\ device'[d].of = v
      /\ \A e \in Devices : e # d => device'[e] = device[e]
  BY <1>2, AfterStep DEF DeviceSteps
<1>4. /\ \A u \in Viewers : u # v => paid'[u] = paid[u]
      /\ paid'[v] = IF moved THEN paid[v] + 1 ELSE paid[v]
  BY <1>2 DEF Inv, TypeOK
<1>5. /\ Loose(v)' \subseteq Loose(v) /\ (~MayCost(d, v)' => Loose(v)' \subseteq Loose(v) \ {d})
      /\ (Payable(v)' => Payable(v))
  BY <1>1, <1>3, SparkOwn
<1>6. SparkBound(v)'
  <2>1. CASE ~moved
    BY <1>2, <1>4, <1>5, <2>1, NoDearer
  <2>2. CASE moved /\ (step # "paid" \/ view[v].status # "queued")
    BY <1>2, <1>4, <1>5, <2>2, OneDearer
  <2>3. CASE moved /\ step = "paid" /\ view[v].status = "queued"
    <3>1. ~MayCost(d, v)' /\ HasPaid(d, v)'
      BY <1>3, <2>3 DEF MayCost, HasPaid
    <3>2. CASE lease[v] # d
      <4>1. d \in Loose(v)
        BY <1>1, <3>2 DEF Loose
      <4> QED
        BY <1>2, <1>4, <1>5, <2>3, <3>1, <4>1, LooseNoMore
    <3>3. CASE lease[v] = d
      <4>1. Payable(v) /\ ~Payable(v)'
        BY <1>1, <2>3, <3>1, <3>3 DEF Payable
      <4> QED
        BY <1>2, <1>4, <1>5, <2>3, <4>1, Closed
    <3> QED
      BY <3>2, <3>3
  <2> QED
    BY <2>1, <2>2, <2>3
<1>7. \A u \in Viewers : u # v => SparkBound(u)'
  BY <1>1, <1>2, <1>3, <1>4, SparkOthers
<1> QED
  BY <1>6, <1>7

\* A report: who is not answered starts again, and whoever has the lease may lose it.
LEMMA SparkReport ==
    ASSUME Inv, Inv', RailInv, rail = "spark", \A u \in Viewers : SparkBound(u), NEW d \in Devices, ReportSent(d)
    PROVE  \A u \in Viewers : SparkBound(u)'
<1> SUFFICES ASSUME NEW v \in Viewers, v = device[d].of PROVE \A u \in Viewers : SparkBound(u)'
  BY DEF ReportSent, Inv, BrowserInv
<1>1. /\ UNCHANGED paid /\ HasPaid(d, v) /\ ~MayCost(d, v) /\ mishaps \in Nat
      /\ device[d].step \in {"paid", "resend"}
  BY BoundAssumption DEF ReportSent, wallet, Inv, TypeOK, MayCost, HasPaid
<1>2. PICK delivered, answered \in BOOLEAN :
        /\ IF delivered THEN CompleteSent(v, device[d].invoice) ELSE UNCHANGED books
        /\ IF delivered /\ view[v].status # "sent" /\ ~answered THEN Forget(v) ELSE UNCHANGED keys
        /\ Mishap(~(delivered /\ answered))
        /\ IF delivered /\ answered
           THEN IF view[v].status # "sent" THEN Step(d, "sent") ELSE Answered(d)
           ELSE Step(d, IF device[d].step = "paid" THEN "check" ELSE "fail")
  BY DEF ReportSent, ProofFits, Accepted
<1>3. /\ \A u \in Viewers : u # v => view'[u] = view[u] /\ lease'[u] = lease[u]
      /\ delivered => view'[v].status = "sent"
      /\ ~delivered => view'[v].status = view[v].status
      /\ lease'[v] \in {lease[v], NoDevice}
      /\ lease'[v] # lease[v] => delivered /\ view[v].status # "sent" /\ ~answered
  <2>1. CASE delivered
    <3>1. view'[v].status = "sent" /\ \A u \in Viewers : u # v => view'[u] = view[u]
      BY <1>2, <2>1, CreditStatus DEF CompleteSent, ProofFits, Credit, books, Inv, TypeOK, View
    <3>2. /\ \A u \in Viewers : u # v => lease'[u] = lease[u]
          /\ lease'[v] \in {lease[v], NoDevice}
          /\ lease'[v] # lease[v] => view[v].status # "sent" /\ ~answered
      BY <1>2, <2>1 DEF Forget, keys, Inv, TypeOK
    <3> QED
      BY <2>1, <3>1, <3>2
  <2>2. CASE ~delivered
    BY <1>2, <2>2 DEF books, keys
  <2> QED
    BY <2>1, <2>2
<1>4. /\ \A e \in Devices : e # d => device'[e] = device[e]
      /\ delivered /\ answered => device'[d].step \in {"idle", "list"} \/ (device'[d].step = "sent" /\ device'[d].of = v)
      /\ ~(delivered /\ answered) => device'[d].step \in {"check", "fail"} /\ device'[d].of = v
  <2>1. CASE delivered /\ answered /\ view[v].status # "sent"
    BY <1>2, <2>1, AfterStep DEF DeviceSteps
  <2>2. CASE delivered /\ answered /\ view[v].status = "sent"
    BY <1>2, <2>2, NextIdle DEF Answered
  <2>3. CASE ~(delivered /\ answered)
    <3>1. PICK step \in {"check", "fail"} : Step(d, step)
      BY <1>2, <2>3
    <3> QED
      BY <2>3, <3>1, AfterStep DEF DeviceSteps
  <2> QED
    BY <2>1, <2>2, <2>3
<1>5. mishaps' >= mishaps /\ (~(delivered /\ answered) => mishaps' = mishaps + 1)
  BY <1>1, <1>2 DEF Mishap
<1>6. \A e \in Devices : e # d => (MayCost(e, v)' <=> MayCost(e, v)) /\ (HasPaid(e, v)' <=> HasPaid(e, v))
  BY <1>4 DEF MayCost, HasPaid
<1>7. SparkBound(v)'
  <2>1. CASE delivered /\ answered
    <3>1. ~MayCost(d, v)' /\ ~Payable(v)' /\ lease'[v] = lease[v]
      BY <1>3, <1>4, <2>1 DEF MayCost, Payable
    <3>2. Loose(v)' \subseteq Loose(v)
      BY <1>6, <3>1 DEF Loose
    <3> QED
      BY <1>1, <1>5, <3>1, <3>2, NoDearer
  <2>2. CASE ~(delivered /\ answered) /\ lease'[v] = lease[v]
    <3>1. CASE lease[v] = d
      <4>1. Loose(v)' \subseteq Loose(v)
        BY <1>6, <2>2, <3>1 DEF Loose
      <4> QED
        BY <1>1, <1>5, <2>2, <4>1, OneDearer
    <3>2. CASE lease[v] # d
      <4>1. Loose(v)' \subseteq Loose(v) \cup {d}
        BY <1>6, <2>2 DEF Loose
      <4>2. Payable(v)' => Payable(v)
        BY <1>3, <1>6, <2>2, <3>2 DEF Payable
      <4> QED
        BY <1>1, <1>5, <2>2, <4>1, <4>2, OneDearer
    <3> QED
      BY <3>1, <3>2
  <2>3. CASE lease'[v] # lease[v]
    <3>1. /\ delivered /\ ~answered /\ view[v].status # "sent" /\ view'[v].status = "sent"
          /\ mishaps' = mishaps + 1
      BY <1>3, <1>5, <2>3
    <3>2. view[v].status \in {"none", "failed", "queued"} /\ ~Payable(v)'
      BY <3>1 DEF Inv, TypeOK, View, RailInv, Payable
    <3>3. Loose(v)' \subseteq Loose(v) \cup {d, lease[v]}
      BY <1>6 DEF Loose
    <3>4. CASE Payable(v)
      BY <1>1, <1>5, <3>1, <3>2, <3>3, <3>4, Closed
    <3>5. CASE ~Payable(v)
      <4>1. HasPaid(lease[v], v)
        BY <3>2, <3>5 DEF Payable
      <4>2. lease[v] # d => ~MayCost(lease[v], v)
        BY <4>1 DEF MayCost, HasPaid
      <4>3. Loose(v)' \subseteq Loose(v) \cup {d}
        BY <1>6, <3>3, <4>2 DEF Loose
      <4> QED
        BY <1>1, <3>1, <3>2, <4>3, OneDearer
    <3> QED
      BY <3>4, <3>5
  <2> QED
    BY <2>1, <2>2, <2>3
<1>8. \A u \in Viewers : u # v => SparkBound(u)'
  <2>1. device'[d].of = v \/ device'[d].step \in {"idle", "list"}
    BY <1>4
  <2>2. \A u \in Viewers : u # v => view'[u].status = view[u].status /\ paid'[u] = paid[u] /\ lease'[u] = lease[u]
    BY <1>1, <1>3
  <2> QED
    BY <1>4, <1>5, <2>1, <2>2, SparkOthers
<1> QED
  BY <1>7, <1>8

\* A failure gives the view back, and the browser has given up.
LEMMA SparkFailure ==
    ASSUME Inv, Inv', RailInv, rail = "spark", \A u \in Viewers : SparkBound(u), NEW d \in Devices, ReportFailed(d)
    PROVE  \A u \in Viewers : SparkBound(u)'
<1> SUFFICES ASSUME NEW v \in Viewers, v = device[d].of PROVE \A u \in Viewers : SparkBound(u)'
  BY DEF ReportFailed, Inv, BrowserInv
<1>1. /\ UNCHANGED <<paid, lease>> /\ MayCost(d, v) /\ ~HasPaid(d, v) /\ mishaps \in Nat
  BY BoundAssumption DEF ReportFailed, wallet, keys, Inv, TypeOK, MayCost, HasPaid
<1>2. /\ mishaps' >= mishaps
      /\ view'[v].status = view[v].status \/ (view'[v].status = "failed" /\ view[v].status # "sent")
      /\ \A u \in Viewers : u # v => view'[u] = view[u]
      /\ device' = [device EXCEPT ![d] = Next_(d)] \/ Step(d, "failed")
  <2>1. CASE CompleteFailed(v) /\ UNCHANGED mishaps
             /\ device' = [device EXCEPT ![d] = IF view[v].status = "sent" THEN Next_(d) ELSE [@ EXCEPT !.step = "failed"]]
    <3>1. CASE view[v].status = "sent"
      BY <1>1, <2>1, <3>1 DEF CompleteFailed, books
    <3>2. CASE view[v].status # "sent"
      <4>1. Step(d, "failed") /\ Fails(v)
        BY <2>1, <3>2 DEF CompleteFailed, Step, Inv, TypeOK
      <4>2. \A u \in Viewers : u # v => view'[u] = view[u]
        BY <4>1 DEF Fails, Inv, TypeOK
      <4> QED
        BY <1>1, <2>1, <3>2, <4>1, <4>2, FailsStatus
    <3> QED
      BY <3>1, <3>2
  <2>2. CASE UNCHANGED books /\ device' = [device EXCEPT ![d] = Next_(d)] /\ Mishap(TRUE)
    BY <1>1, <2>2 DEF books, Mishap
  <2> QED
    BY <2>1, <2>2 DEF ReportFailed
<1>3. /\ device'[d].step \in {"idle", "list"} \/ (device'[d].step = "failed" /\ device'[d].of = v)
      /\ \A e \in Devices : e # d => device'[e] = device[e]
  BY <1>2, NextIdle, AfterStep DEF DeviceSteps
<1>4. ~MayCost(d, v)' /\ ~HasPaid(d, v)'
  BY <1>3 DEF MayCost, HasPaid
<1>5. Loose(v)' \subseteq Loose(v) \ {d} /\ Loose(v)' \subseteq Loose(v)
  BY <1>1, <1>3, <1>4, SparkOwn
<1>6. SparkBound(v)'
  <2>1. CASE d \in Loose(v)
    BY <1>1, <1>2, <1>5, <2>1, LooseNoMore
  <2>2. CASE d \notin Loose(v)
    <3>1. lease[v] = d
      BY <1>1, <2>2 DEF Loose
    <3>2. view[v].status # "sent" => Payable(v)
      BY <1>1, <3>1 DEF Payable, Inv, TypeOK, View, RailInv
    <3>3. view'[v].status = "sent" => ~Payable(v)'
      BY DEF Payable
    <3> QED
      BY <1>1, <1>2, <1>5, <3>2, <3>3, NoDearer
  <2> QED
    BY <2>1, <2>2
<1>7. \A u \in Viewers : u # v => SparkBound(u)'
  <2>1. device'[d].of = v \/ device'[d].step \in {"idle", "list"}
    BY <1>3
  <2>2. \A u \in Viewers : u # v => view'[u].status = view[u].status /\ paid'[u] = paid[u] /\ lease'[u] = lease[u]
    BY <1>1, <1>2
  <2> QED
    BY <1>2, <1>3, <2>1, <2>2, SparkOthers
<1> QED
  BY <1>6, <1>7

\* A lease that goes while its browser is at work is a mishap.
LEMMA SparkLeaseLost ==
    ASSUME Inv, Inv', RailInv, rail = "spark", \A u \in Viewers : SparkBound(u), UNCHANGED <<view, paid>>,
           NEW v \in Viewers, NEW d, LeaseLost(v, d), ~(d \in Devices /\ (MayCost(d, v) \/ HasPaid(d, v))),
           \A e \in Devices, u \in Viewers : (MayCost(e, u)' <=> MayCost(e, u)) /\ (HasPaid(e, u)' <=> HasPaid(e, u))
    PROVE  \A u \in Viewers : SparkBound(u)'
<1>1. /\ lease' = [lease EXCEPT ![v] = NoDevice] /\ mishaps \in Nat /\ mishaps' >= mishaps
      /\ lease[v] \in Devices /\ (MayCost(lease[v], v) \/ HasPaid(lease[v], v)) => mishaps' = mishaps + 1
  BY BoundAssumption, NobodyAssumption DEF LeaseLost, Mishap, Busy, MayCost, HasPaid, Inv, TypeOK
<1>2. lease'[v] = NoDevice /\ \A u \in Viewers : u # v => lease'[u] = lease[u]
  BY <1>1 DEF Inv, TypeOK
<1>3. ASSUME NEW u \in Viewers, u # v PROVE SparkBound(u)'
  <2>1. Loose(u)' = Loose(u) /\ (Payable(u)' <=> Payable(u))
    BY <1>2, <1>3, SameCost
  <2> QED
    BY <1>1, <2>1, NoDearer
<1>4. SparkBound(v)'
  <2>1. CASE lease[v] \in Devices /\ MayCost(lease[v], v)
    <3>1. Loose(v)' \subseteq Loose(v) \cup {lease[v]}
      BY <1>2 DEF Loose
    <3>2. Payable(v)' => Payable(v)
      BY <2>1 DEF Payable, MayCost, HasPaid
    <3> QED
      BY <1>1, <2>1, <3>1, <3>2, OneDearer
  <2>2. CASE lease[v] \in Devices /\ HasPaid(lease[v], v)
    <3>1. Loose(v)' \subseteq Loose(v)
      BY <1>2, <2>2 DEF Loose, MayCost, HasPaid
    <3> QED
      BY <1>1, <2>2, <3>1, OneDearer
  <2>3. CASE ~(lease[v] \in Devices /\ (MayCost(lease[v], v) \/ HasPaid(lease[v], v)))
    <3>1. Loose(v)' \subseteq Loose(v)
      BY <1>2, <2>3 DEF Loose
    <3>2. Payable(v)' => Payable(v)
      BY <2>3 DEF Payable
    <3> QED
      BY <1>1, <3>1, <3>2, NoDearer
  <2> QED
    BY <2>1, <2>2, <2>3
<1> QED
  BY <1>3, <1>4

LEMMA SparkLease ==
    ASSUME Inv, Inv', RailInv, rail = "spark", \A u \in Viewers : SparkBound(u),
           (\E v \in Viewers : LeaseExpires(v)) \/ (\E d \in Devices : DeleteLease(d))
    PROVE  \A u \in Viewers : SparkBound(u)'
<1>1. CASE \E v \in Viewers : LeaseExpires(v)
  <2>1. PICK v \in Viewers : LeaseExpires(v)
    BY <1>1
  <2>2. UNCHANGED <<view, paid, device>> /\ LeaseLost(v, NoDevice)
    BY <2>1 DEF LeaseExpires, books, wallet
  <2>3. \A e \in Devices, u \in Viewers : (MayCost(e, u)' <=> MayCost(e, u)) /\ (HasPaid(e, u)' <=> HasPaid(e, u))
    BY <2>2 DEF MayCost, HasPaid
  <2> QED
    BY <2>2, <2>3, NobodyAssumption, SparkLeaseLost
<1>2. CASE \E d \in Devices : DeleteLease(d)
  <2>1. PICK d \in Devices : DeleteLease(d)
    BY <1>2
  <2>2. PICK v \in Viewers : v = device[d].of
    BY <2>1 DEF DeleteLease, Inv, BrowserInv
  <2>3. UNCHANGED <<view, paid>> /\ LeaseLost(v, d) /\ device[d].step \in {"sent", "failed"}
    BY <2>1, <2>2 DEF DeleteLease, books, wallet
  <2>4. PICK step \in {"sentUnleased", "failedUnleased"} : Step(d, step)
    BY <2>1 DEF DeleteLease
  <2>5. device'[d].step = step /\ \A e \in Devices : e # d => device'[e] = device[e]
    BY <2>4, AfterStep DEF DeviceSteps
  <2>6. \A e \in Devices, u \in Viewers : (MayCost(e, u)' <=> MayCost(e, u)) /\ (HasPaid(e, u)' <=> HasPaid(e, u))
    BY <2>3, <2>5 DEF MayCost, HasPaid
  <2>7. ~(d \in Devices /\ (MayCost(d, v) \/ HasPaid(d, v)))
    BY <2>3 DEF MayCost, HasPaid
  <2> QED
    BY <2>3, <2>6, <2>7, SparkLeaseLost
<1> QED
  BY <1>1, <1>2

\* A death costs its browser's payment or its lease, not both.
LEMMA SparkDeath ==
    ASSUME Inv, Inv', RailInv, rail = "spark", \A u \in Viewers : SparkBound(u), NEW d \in Devices, DeviceDies(d)
    PROVE  \A u \in Viewers : SparkBound(u)'
<1>1. /\ UNCHANGED <<view, paid>> /\ mishaps' = mishaps + 1
      /\ device'[d].step = "idle" /\ \A e \in Devices : e # d => device'[e] = device[e]
      /\ \A u \in Viewers : lease'[u] # lease[u] =>
            u = device[d].of /\ device[d].step \in {"sent", "failed"} /\ lease'[u] = NoDevice
  BY DEF DeviceDies, books, wallet, Mishap, Inv, TypeOK
<1> SUFFICES ASSUME NEW u \in Viewers PROVE SparkBound(u)'
  OBVIOUS
<1>2. /\ \A e \in Devices : e # d => (MayCost(e, u)' <=> MayCost(e, u)) /\ (HasPaid(e, u)' <=> HasPaid(e, u))
      /\ ~MayCost(d, u)' /\ ~HasPaid(d, u)'
  BY <1>1 DEF MayCost, HasPaid
<1>3. CASE lease'[u] = lease[u]
  <2>1. Loose(u)' \subseteq Loose(u)
    BY <1>2, <1>3 DEF Loose
  <2> QED
    BY <1>1, <2>1, OneDearer
<1>4. CASE lease'[u] # lease[u]
  <2>1. lease'[u] = NoDevice /\ ~MayCost(d, u) /\ ~HasPaid(d, u)
    BY <1>1, <1>4 DEF MayCost, HasPaid
  <2>2. CASE lease[u] \in Devices /\ HasPaid(lease[u], u)
    <3>1. Loose(u)' \subseteq Loose(u)
      BY <1>2, <2>1, <2>2 DEF Loose, MayCost, HasPaid
    <3> QED
      BY <1>1, <3>1, OneDearer
  <2>3. CASE ~(lease[u] \in Devices /\ HasPaid(lease[u], u))
    <3>1. Loose(u)' \subseteq Loose(u) \cup {lease[u]}
      BY <1>2 DEF Loose
    <3>2. Payable(u)' => Payable(u)
      BY <1>1, <2>3 DEF Payable
    <3> QED
      BY <1>1, <3>1, <3>2, OneDearer
  <2> QED
    BY <2>2, <2>3
<1> QED
  BY <1>3, <1>4

-----------------------------------------------------------------------------
\* The same for the threads of the server: with sets of threads in mind,
LEMMA ServerBalance ==
    ASSUME Inv, Inv', NEW v \in Viewers, ServerBound(v), mishaps' >= mishaps, NEW h,
           \/ paid'[v] = paid[v] /\ Paying(v)' \subseteq Paying(v) /\ (Open(v)' => Open(v))
           \/ paid'[v] = paid[v] /\ Paying(v)' \subseteq Paying(v) /\ mishaps' = mishaps + 1
           \/ /\ paid'[v] = paid[v] + 1 /\ Paying(v)' \subseteq Paying(v) /\ (Open(v)' => Open(v))
              /\ mishaps' = mishaps + 1
           \/ paid'[v] = paid[v] /\ Paying(v)' \subseteq Paying(v) \cup {h} /\ Open(v) /\ ~Open(v)'
           \/ h \in Paying(v) /\ Paying(v)' \subseteq Paying(v) \ {h} /\ paid'[v] = paid[v]
           \/ /\ h \in Paying(v) /\ Paying(v)' \subseteq Paying(v) \ {h} /\ paid'[v] = paid[v] + 1
              /\ (Open(v)' => Open(v))
    PROVE  ServerBound(v)'
<1>1. /\ Paying(v)' \subseteq Paying(v) => Cardinality(Paying(v)') <= Cardinality(Paying(v))
      /\ Paying(v)' \subseteq Paying(v) \cup {h} => Cardinality(Paying(v)') <= Cardinality(Paying(v)) + 1
      /\ h \in Paying(v) /\ Paying(v)' \subseteq Paying(v) \ {h} => Cardinality(Paying(v)') + 1 <= Cardinality(Paying(v))
      /\ Cardinality(Paying(v)) \in Nat /\ Cardinality(Paying(v)') \in Nat
  <2>1. Paying(v)' \subseteq Paying(v) \cup {h}
    OBVIOUS
  <2> QED
    BY <2>1, BoundTypes, Joins
<1>2. /\ Open(v) => Count(Open(v)) = 1
      /\ ~Open(v)' => Count(Open(v)') = 0
      /\ (Open(v)' => Open(v)) => Count(Open(v)') <= Count(Open(v))
      /\ Count(Open(v)) \in 0 .. 1 /\ Count(Open(v)') \in 0 .. 1
  BY DEF Count
<1>3. paid[v] \in Nat /\ paid'[v] \in Nat /\ mishaps \in Nat /\ mishaps' \in Nat
  BY BoundAssumption DEF Inv, TypeOK
<1>4. paid[v] + Cardinality(Paying(v)) + Count(Open(v)) <= 1 + mishaps
  BY DEF ServerBound
<1>5. paid'[v] + Cardinality(Paying(v)') + Count(Open(v)') <= 1 + mishaps'
  BY <1>1, <1>2, <1>3, <1>4
<1> QED
  BY <1>5 DEF ServerBound

\* rows change,
LEMMA ServerRows ==
    ASSUME Inv, Inv', \A u \in Viewers : ServerBound(u), mishaps' >= mishaps, UNCHANGED <<thread, paid>>,
           \A u \in Viewers :
                \/ view'[u].status = view[u].status /\ view'[u].fresh = view[u].fresh
                \/ view'[u].status = view[u].status /\ ~Attended(u)
                \/ mishaps' = mishaps + 1
    PROVE  \A u \in Viewers : ServerBound(u)'
<1> SUFFICES ASSUME NEW u \in Viewers PROVE ServerBound(u)'
  OBVIOUS
<1>1. Paying(u)' = Paying(u) /\ (Attended(u)' <=> Attended(u))
  BY DEF Paying, Attended
<1>2. mishaps' = mishaps + 1 \/ (Open(u)' => Open(u))
  BY <1>1 DEF Open
<1> QED
  BY <1>1, <1>2, ServerBalance

\* and a thread takes a step at its view.
LEMMA ServerOthers ==
    ASSUME Inv, Inv', \A u \in Viewers : ServerBound(u), mishaps' >= mishaps,
           NEW h \in Threads, NEW v \in Viewers, thread[h].of = v \/ thread[h].step = "idle",
           thread'[h].of = v \/ thread'[h].step = "idle",
           \A g \in Threads : g # h => thread'[g] = thread[g],
           \A u \in Viewers : u # v => view'[u] = view[u] /\ paid'[u] = paid[u]
    PROVE  \A u \in Viewers : u # v => ServerBound(u)'
<1> SUFFICES ASSUME NEW u \in Viewers, u # v PROVE ServerBound(u)'
  OBVIOUS
<1>1. Paying(u)' = Paying(u) /\ (Attended(u)' <=> Attended(u))
  <2>1. \A g \in Threads : /\ g \in Paying(u)' <=> g \in Paying(u)
                           /\ (thread'[g].of = u /\ thread'[g].step # "idle") <=> (thread[g].of = u /\ thread[g].step # "idle")
    BY DEF Paying
  <2> QED
    BY <2>1 DEF Paying, Attended
<1>2. Open(u)' <=> Open(u)
  BY <1>1 DEF Open
<1> QED
  BY <1>1, <1>2, ServerBalance

LEMMA ServerClaim ==
    ASSUME Inv, Inv', RailInv, rail = "server", \A u \in Viewers : ServerBound(u), NEW v \in Viewers, Claim(v)
    PROVE  \A u \in Viewers : ServerBound(u)'
<1>1. PICK h \in Threads : thread[h].step = "idle" /\ thread' = [thread EXCEPT ![h] = [of |-> v, step |-> "paying"]]
  BY DEF Claim
<1>2. /\ thread'[h].of = v /\ thread'[h].step = "paying"
      /\ \A g \in Threads : g # h => thread'[g] = thread[g]
  BY <1>1 DEF Inv, TypeOK
<1>3. /\ UNCHANGED <<paid, mishaps>> /\ mishaps' >= mishaps
      /\ view'[v].status = "pending" /\ view'[v].fresh
      /\ \A u \in Viewers : u # v => view'[u] = view[u]
  BY BoundAssumption DEF Claim, wallet, Inv, TypeOK, View
<1>4. Open(v) /\ ~Open(v)'
  <2>1. Attended(v)'
    BY <1>2 DEF Attended
  <2> QED
    BY <1>3, <2>1 DEF Claim, Claimable, Open
<1>5. Paying(v)' \subseteq Paying(v) \cup {h}
  BY <1>2 DEF Paying
<1>6. ServerBound(v)'
  BY <1>3, <1>4, <1>5, ServerBalance
<1>7. \A u \in Viewers : u # v => ServerBound(u)'
  BY <1>1, <1>2, <1>3, ServerOthers
<1> QED
  BY <1>6, <1>7

LEMMA ServerPay ==
    ASSUME Inv, Inv', RailInv, rail = "server", \A u \in Viewers : ServerBound(u), NEW h \in Threads, ServerStep(h)
    PROVE  \A u \in Viewers : ServerBound(u)'
<1> SUFFICES ASSUME NEW v \in Viewers, v = thread[h].of PROVE \A u \in Viewers : ServerBound(u)'
  BY DEF ServerStep, Pay, Record, WorkerDies, Inv, ServerInv
<1>1. mishaps \in Nat /\ thread[h].step # "idle"
  <2>1. thread[h].step # "idle"
    BY DEF ServerStep, Pay, Record, WorkerDies
  <2>2. mishaps \in Nat
    BY BoundAssumption DEF Inv, TypeOK
  <2> QED
    BY <2>1, <2>2
<1>2. CASE Pay(h)
  <2>1. PICK moved, answered \in BOOLEAN :
          /\ thread' = [thread EXCEPT ![h].step = IF moved /\ answered THEN "won" ELSE "lost"]
          /\ paid' = [paid EXCEPT ![v] = IF moved THEN @ + 1 ELSE @]
          /\ Mishap(moved /\ ~answered)
    BY <1>2 DEF Pay
  <2>2. PICK step \in {"won", "lost"} : /\ thread' = [thread EXCEPT ![h].step = step]
                                        /\ step = "won" <=> moved /\ answered
    BY <2>1
  <2>3. /\ thread'[h].of = v /\ thread'[h].step = step
        /\ \A g \in Threads : g # h => thread'[g] = thread[g]
    BY <2>2 DEF Inv, TypeOK, Thread
  <2>4. /\ \A u \in Viewers : u # v => paid'[u] = paid[u]
        /\ paid'[v] = IF moved THEN paid[v] + 1 ELSE paid[v]
    BY <2>1 DEF Inv, TypeOK
  <2>5. mishaps' >= mishaps /\ (moved /\ ~answered => mishaps' = mishaps + 1) /\ UNCHANGED view
    BY <1>1, <1>2, <2>1 DEF Mishap, Pay, books
  <2>6. h \in Paying(v)
    BY <1>2 DEF Pay, Paying
  <2>7. Paying(v)' \subseteq Paying(v) /\ (step = "won" => Paying(v)' \subseteq Paying(v) \ {h})
    BY <2>3, <2>6 DEF Paying
  <2>8. Open(v)' <=> Open(v)
    <3>1. Attended(v)' /\ Attended(v)
      BY <1>1, <2>3 DEF Attended
    <3> QED
      BY <2>5, <3>1 DEF Open
  <2>9. ServerBound(v)'
    <3>1. CASE moved /\ answered
      BY <2>2, <2>4, <2>5, <2>6, <2>7, <2>8, <3>1, ServerBalance
    <3>2. CASE moved /\ ~answered
      BY <2>4, <2>5, <2>7, <2>8, <3>2, ServerBalance
    <3>3. CASE ~moved
      BY <2>4, <2>5, <2>7, <2>8, <3>3, ServerBalance
    <3> QED
      BY <3>1, <3>2, <3>3
  <2>10. \A u \in Viewers : u # v => ServerBound(u)'
    BY <2>3, <2>4, <2>5, ServerOthers
  <2> QED
    BY <2>9, <2>10
<1>3. CASE Record(h) \/ WorkerDies(h)
  <2>1. /\ thread'[h].step = "idle" /\ \A g \in Threads : g # h => thread'[g] = thread[g]
        /\ UNCHANGED paid /\ mishaps' >= mishaps
    BY <1>1, <1>3 DEF Record, WorkerDies, Mishap, wallet, Inv, TypeOK
  <2>2. Paying(v)' \subseteq Paying(v) \ {h} /\ Paying(v)' \subseteq Paying(v)
    BY <2>1 DEF Paying
  <2>3. /\ \A u \in Viewers : u # v => view'[u] = view[u]
        /\ \/ mishaps' = mishaps + 1
           \/ thread[h].step = "won" /\ view'[v].status = "sent"
           \/ thread[h].step = "lost"
    <3>1. CASE Record(h)
      <4>1. \A u \in Viewers : u # v => view'[u] = view[u]
        BY <3>1 DEF Record, Credit, Fails, Inv, TypeOK
      <4>2. thread[h].step = "won" => view'[v].status = "sent"
        BY <3>1, CreditStatus DEF Record
      <4> QED
        BY <3>1, <4>1, <4>2 DEF Record
    <3>2. CASE WorkerDies(h)
      BY <3>2 DEF WorkerDies, Mishap, books
    <3> QED
      BY <1>3, <3>1, <3>2
  <2>4. ServerBound(v)'
    <3>1. CASE mishaps' = mishaps + 1
      BY <2>1, <2>2, <3>1, ServerBalance
    <3>2. CASE view'[v].status = "sent"
      <4>1. ~Open(v)'
        BY <3>2 DEF Open
      <4> QED
        BY <2>1, <2>2, <4>1, ServerBalance
    <3>3. CASE thread[h].step = "lost"
      <4>1. h \in Paying(v)
        BY <3>3 DEF Paying
      <4> QED
        BY <2>1, <2>2, <4>1, ServerBalance
    <3> QED
      BY <2>3, <3>1, <3>2, <3>3
  <2>5. \A u \in Viewers : u # v => ServerBound(u)'
    BY <2>1, <2>3, ServerOthers
  <2> QED
    BY <2>4, <2>5
<1> QED
  BY <1>2, <1>3 DEF ServerStep

\* Saves of old copies bring back a status, and are counted when they change one.
LEMMA SavedRows ==
    ASSUME Inv, TwoMinutesPass \/ ClickLock \/ ClickCommit \/ EditRead \/ EditSave \/ UNCHANGED vars
    PROVE  /\ UNCHANGED <<device, lease, paid, thread>>
           /\ \A u \in Viewers : \/ view'[u].status = view[u].status /\ view'[u].fresh = view[u].fresh
                                 \/ mishaps' = mishaps + 1
<1>1. CASE ClickCommit
  <2>1. view[click.of] = click.copy \/ mishaps' = mishaps + 1
    BY <1>1 DEF ClickCommit, Mishap
  <2>2. click.of \in Viewers /\ view' = [view EXCEPT ![click.of] = [click.copy EXCEPT !.clicked = TRUE]]
    BY <1>1 DEF ClickCommit, Inv, ClickInv
  <2>3. view[click.of] = click.copy => \A u \in Viewers : view'[u].status = view[u].status /\ view'[u].fresh = view[u].fresh
    BY <2>2 DEF Inv, TypeOK, View
  <2> QED
    BY <1>1, <2>1, <2>3 DEF ClickCommit, server, browsers, keys, wallet
<1>2. CASE TwoMinutesPass \/ ClickLock \/ EditRead \/ EditSave \/ UNCHANGED vars
  BY <1>2 DEF TwoMinutesPass, ClickLock, EditRead, EditSave, vars, books, server, browsers, keys, wallet
<1> QED
  BY <1>1, <1>2

LEMMA BoundedNext == ASSUME Inv, Inv', RailInv, RailInv', Bounded, [Next]_vars PROVE Bounded'
<1>1. mishaps \in Nat /\ mishaps' \in Nat /\ mishaps' >= mishaps /\ UNCHANGED rail
  BY MishapsGrow, RailKept
<1>2. CASE rail = "spark"
  <2> SUFFICES ASSUME \A u \in Viewers : SparkBound(u) PROVE \A u \in Viewers : SparkBound(u)'
    BY <1>1, <1>2 DEF Bounded
  <2>1. CASE \E v \in Viewers : Claim(v) \/ GrowsStale(v) \/ InvoiceForgotten(v) \/ ClickRead(v)
    <3>1. PICK v \in Viewers : Claim(v) \/ GrowsStale(v) \/ InvoiceForgotten(v) \/ ClickRead(v)
      BY <2>1
    <3>2. UNCHANGED <<device, lease, paid>>
      BY <3>1 DEF Claim, GrowsStale, InvoiceForgotten, ClickRead, browsers, keys, wallet
    <3>3. \A u \in Viewers : \/ view'[u].status = view[u].status
                             \/ view[u].status \in {"none", "failed"} /\ view'[u].status = "queued"
      <4>1. CASE Claim(v)
        BY <1>2, <4>1 DEF Claim, Claimable, Inv, TypeOK, View, RailInv
      <4>2. CASE GrowsStale(v)
        BY <4>2 DEF GrowsStale, Inv, TypeOK, View
      <4>3. CASE InvoiceForgotten(v) \/ ClickRead(v)
        BY <4>3 DEF InvoiceForgotten, ClickRead, books
      <4> QED
        BY <3>1, <4>1, <4>2, <4>3
    <3> QED
      BY <1>1, <1>2, <3>2, <3>3, SparkRows
  <2>2. CASE \E v \in Viewers : LeaseExpires(v)
    BY <1>2, <2>2, SparkLease
  <2>3. CASE \E h \in Threads : ServerStep(h)
    BY <1>2, <2>3 DEF ServerStep, Pay, Record, WorkerDies, RailInv
  <2>4. CASE \E d \in Devices : DeviceStep(d)
    <3>1. PICK d \in Devices : DeviceStep(d)
      BY <2>4
    <3>2. CASE Resolve(d) \/ PayInvoice(d)
      BY <1>2, <3>2 DEF Resolve, PayInvoice, Inv, BrowserInv
    <3> QED
      BY <1>2, <3>1, <3>2, SparkQueue, SparkTakeLease, SparkPay, SparkReport, SparkFailure, SparkLease, SparkDeath
         DEF DeviceStep
  <2>5. CASE TwoMinutesPass \/ ClickLock \/ ClickCommit \/ EditRead \/ EditSave \/ UNCHANGED vars
    BY <1>1, <1>2, <2>5, SavedRows, SparkRows
  <2> QED
    BY <2>1, <2>2, <2>3, <2>4, <2>5 DEF Next, ViewStep
<1>3. CASE rail = "server"
  <2> SUFFICES ASSUME \A u \in Viewers : ServerBound(u) PROVE \A u \in Viewers : ServerBound(u)'
    BY <1>1, <1>3 DEF Bounded
  <2>1. CASE \E v \in Viewers : Claim(v)
    BY <1>3, <2>1, ServerClaim
  <2>2. CASE \E v \in Viewers : GrowsStale(v) \/ InvoiceForgotten(v) \/ LeaseExpires(v) \/ ClickRead(v)
    <3>1. PICK v \in Viewers : GrowsStale(v) \/ InvoiceForgotten(v) \/ LeaseExpires(v) \/ ClickRead(v)
      BY <2>2
    <3>2. UNCHANGED <<thread, paid>>
      BY <3>1 DEF GrowsStale, InvoiceForgotten, LeaseExpires, ClickRead, server, wallet
    <3>3. \A u \in Viewers : \/ view'[u].status = view[u].status /\ view'[u].fresh = view[u].fresh
                             \/ view'[u].status = view[u].status /\ ~Attended(u)
      <4>1. CASE GrowsStale(v)
        <5>1. ~Attended(v)
          BY <4>1 DEF GrowsStale, Attended
        <5>2. \A u \in Viewers : view'[u].status = view[u].status /\ (u # v => view'[u] = view[u])
          BY <4>1 DEF GrowsStale, Inv, TypeOK, View
        <5> QED
          BY <5>1, <5>2
      <4>2. CASE InvoiceForgotten(v) \/ LeaseExpires(v) \/ ClickRead(v)
        BY <4>2 DEF InvoiceForgotten, LeaseExpires, ClickRead, books
      <4> QED
        BY <3>1, <4>1, <4>2
    <3> QED
      BY <1>1, <3>2, <3>3, ServerRows
  <2>3. CASE \E h \in Threads : ServerStep(h)
    BY <1>3, <2>3, ServerPay
  <2>4. CASE \E d \in Devices : DeviceStep(d)
    <3>1. PICK d \in Devices : DeviceStep(d)
      BY <2>4
    <3>2. device[d].step = "idle" /\ Fetch(d)
      BY <1>3, <3>1 DEF RailInv, DeviceStep, Fetch, TakeUp, TakeLease, PaySpark, LookForSend, Resolve, PayInvoice,
         ReportSent, ReportFailed, DeleteLease, DeleteInvoice, DeviceDies
    <3> QED
      BY <1>3, <3>2 DEF RailInv, Fetch
  <2>5. CASE TwoMinutesPass \/ ClickLock \/ ClickCommit \/ EditRead \/ EditSave \/ UNCHANGED vars
    BY <1>1, <2>5, SavedRows, ServerRows
  <2> QED
    BY <2>1, <2>2, <2>3, <2>4, <2>5 DEF Next, ViewStep
<1>4. CASE rail \notin {"spark", "server"}
  BY <1>1, <1>4 DEF Bounded
<1> QED
  BY <1>2, <1>3, <1>4

-----------------------------------------------------------------------------
(* Every mishap puts at most one reward between what was earned and paid *)

Unsent(v) == Count(view[v].status # "sent")

\* A browser is about to report a transfer to v that it has only seen in the list.
Resending(v) == \E d \in Devices : device[d].of = v /\ device[d].step = "resend"

\* An old copy may say of v that it has been sent.
CopySent(v) == click.of = v /\ click.copy.status = "sent"

\* v has been credited n times, once unless its row was brought back, and before
\* it was paid only on the word of another viewer's transfer.
CreditedTimes(v, n) ==
    /\ earned[v] = Reward * n
    /\ n + Unsent(v) <= 1 + mishaps
    /\ paid[v] = 0 /\ (n > 0 \/ Resending(v)) => n + Unsent(v) <= mishaps
    /\ n = 0 => view[v].status # "sent" /\ ~CopySent(v)

SparkBooks ==
    /\ \A v \in Viewers : \E n \in Nat : CreditedTimes(v, n)
    /\ \A d \in Devices : device[d].step = "paid" => paid[device[d].of] > 0

\* What was paid is credited, or will be by a thread that won, or is lost.
ServerBooks ==
    \A v \in Viewers : \E n \in Nat : earned[v] = Reward * n /\ paid[v] <= n + Cardinality(Winners(v)) + mishaps

Balanced == (rail = "spark" => SparkBooks) /\ (rail = "server" => ServerBooks)

LEMMA BalancedInit == Init => Balanced
<1> SUFFICES ASSUME Init PROVE SparkBooks /\ ServerBooks
  BY DEF Balanced
<1>1. Reward * 0 = 0
  BY RewardAssumption
<1>2. ASSUME NEW v \in Viewers PROVE CreditedTimes(v, 0) /\ earned[v] = Reward * 0 /\ paid[v] <= 0 + Cardinality(Winners(v)) + mishaps
  <2>1. Cardinality(Winners(v)) \in Nat
    BY WinnersFinite
  <2>2. /\ earned[v] = 0 /\ paid[v] = 0 /\ mishaps = 0 /\ view[v].status = "none" /\ ~Resending(v) /\ ~CopySent(v)
    BY DEF Init, Resending, CopySent, NoView, NoClick
  <2> QED
    BY <1>1, <2>1, <2>2 DEF CreditedTimes, Unsent, Count
<1>3. \A d \in Devices : device[d].step # "paid"
  BY DEF Init
<1> QED
  BY <1>2, <1>3 DEF SparkBooks, ServerBooks

\* What leaves the balance of a view as it is, or is counted:
LEMMA CreditStays ==
    ASSUME Inv, Inv', NEW v \in Viewers, \E n \in Nat : CreditedTimes(v, n),
           earned'[v] = earned[v], paid'[v] >= paid[v], mishaps' >= mishaps,
           \/ view'[v].status = "sent" <=> view[v].status = "sent"
           \/ mishaps' = mishaps + 1 /\ (Resending(v)' => Resending(v)),
           Resending(v)' => Resending(v) \/ paid[v] > 0 \/ mishaps' = mishaps + 1,
           CopySent(v)' => CopySent(v) \/ view[v].status = "sent",
           view'[v].status = "sent" => view[v].status = "sent" \/ CopySent(v)
    PROVE  \E n \in Nat : CreditedTimes(v, n)'
<1>1. PICK n \in Nat : CreditedTimes(v, n)
  OBVIOUS
<1>2. /\ Unsent(v) \in {0, 1} /\ Unsent(v)' \in {0, 1}
      /\ (view'[v].status = "sent" <=> view[v].status = "sent") => Unsent(v)' = Unsent(v)
  BY DEF Unsent, Count
<1>3. mishaps \in Nat /\ mishaps' \in Nat /\ paid[v] \in Nat /\ paid'[v] \in Nat
  BY BoundAssumption DEF Inv, TypeOK
<1>4. n + Unsent(v)' <= 1 + mishaps'
  BY <1>1, <1>2, <1>3 DEF CreditedTimes
<1>5. ASSUME paid'[v] = 0, n > 0 \/ Resending(v)' PROVE n + Unsent(v)' <= mishaps'
  <2>1. paid[v] = 0
    BY <1>3, <1>5
  <2>2. CASE n > 0 \/ Resending(v)
    <3>1. n + Unsent(v) <= mishaps
      BY <1>1, <2>1, <2>2 DEF CreditedTimes
    <3> QED
      BY <1>2, <1>3, <3>1
  <2>3. CASE n = 0 /\ ~Resending(v)
    <3>1. mishaps' = mishaps + 1 /\ (view'[v].status = "sent" <=> view[v].status = "sent")
      BY <1>5, <2>1, <2>3
    <3> QED
      BY <1>1, <1>2, <1>3, <3>1 DEF CreditedTimes
  <2> QED
    BY <1>3, <2>2, <2>3
<1>6. n = 0 => view'[v].status # "sent" /\ ~CopySent(v)'
  BY <1>1 DEF CreditedTimes
<1>7. CreditedTimes(v, n)'
  BY <1>1, <1>4, <1>5, <1>6 DEF CreditedTimes
<1> QED
  BY <1>7

\* a credit, which follows a payment or a transfer that was looked up.
LEMMA CreditCounts ==
    ASSUME Inv, Inv', NEW v \in Viewers, \E n \in Nat : CreditedTimes(v, n), Credit(v), view[v].status # "sent",
           paid[v] > 0 \/ Resending(v), paid'[v] = paid[v], mishaps' >= mishaps
    PROVE  \E n \in Nat : CreditedTimes(v, n)'
<1>1. PICK n \in Nat : CreditedTimes(v, n)
  OBVIOUS
<1>2. view'[v].status = "sent" /\ earned'[v] = earned[v] + Reward
  BY DEF Credit, Inv, TypeOK, View
<1>3. Unsent(v) = 1 /\ Unsent(v)' = 0
  BY <1>2 DEF Unsent, Count
<1>4. mishaps \in Nat /\ mishaps' \in Nat /\ paid[v] \in Nat
  BY BoundAssumption DEF Inv, TypeOK
<1>5. earned'[v] = Reward * (n + 1)
  BY <1>1, <1>2, RewardMore DEF CreditedTimes
<1>6. (n + 1) + Unsent(v)' <= 1 + mishaps' /\ (paid'[v] = 0 => (n + 1) + Unsent(v)' <= mishaps')
  BY <1>1, <1>3, <1>4 DEF CreditedTimes
<1>7. n + 1 \in Nat /\ n + 1 # 0
  OBVIOUS
<1>8. CreditedTimes(v, n + 1)'
  BY <1>5, <1>6, <1>7 DEF CreditedTimes
<1> QED
  BY <1>7, <1>8

LEMMA SparkBooksStay ==
    ASSUME Inv, Inv', SparkBooks, UNCHANGED earned, mishaps' >= mishaps,
           \A u \in Viewers :
                /\ paid'[u] >= paid[u]
                /\ \/ view'[u].status = "sent" <=> view[u].status = "sent"
                   \/ mishaps' = mishaps + 1 /\ (Resending(u)' => Resending(u))
                /\ Resending(u)' => Resending(u) \/ paid[u] > 0 \/ mishaps' = mishaps + 1
                /\ CopySent(u)' => CopySent(u) \/ view[u].status = "sent"
                /\ view'[u].status = "sent" => view[u].status = "sent" \/ CopySent(u),
           \A d \in Devices : device'[d].step = "paid" =>
                paid'[device'[d].of] > 0 \/ (device[d].step = "paid" /\ device'[d].of = device[d].of)
    PROVE  SparkBooks'
<1>1. ASSUME NEW u \in Viewers PROVE \E n \in Nat : CreditedTimes(u, n)'
  <2>1. earned'[u] = earned[u] /\ \E n \in Nat : CreditedTimes(u, n)
    BY DEF SparkBooks
  <2> QED
    BY <2>1, CreditStays
<1>2. ASSUME NEW d \in Devices, device'[d].step = "paid" PROVE paid'[device'[d].of] > 0
  <2>1. CASE device[d].step = "paid" /\ device'[d].of = device[d].of
    <3>1. device[d].of \in Viewers /\ paid[device[d].of] > 0
      BY <2>1 DEF SparkBooks, Inv, BrowserInv
    <3>2. paid[device[d].of] \in Nat /\ paid'[device[d].of] \in Nat
      BY <3>1 DEF Inv, TypeOK
    <3> QED
      BY <2>1, <3>1, <3>2
  <2> QED
    BY <1>2, <2>1
<1> QED
  BY <1>1, <1>2 DEF SparkBooks

\* Rows, leases and old copies of rows
LEMMA SparkBooksRows ==
    ASSUME Inv, Inv', RailInv, rail = "spark", SparkBooks, mishaps' >= mishaps,
           (\E v \in Viewers : ViewStep(v))
           \/ TwoMinutesPass \/ ClickLock \/ ClickCommit \/ EditRead \/ EditSave \/ UNCHANGED vars
    PROVE  SparkBooks'
<1>1. /\ UNCHANGED <<earned, paid, device>> /\ \A u \in Viewers : paid'[u] >= paid[u]
      /\ \A u \in Viewers : Resending(u)' <=> Resending(u)
  <2>1. UNCHANGED <<earned, paid, device>>
    <3>1. CASE \E v \in Viewers : ViewStep(v)
      BY <3>1 DEF ViewStep, Claim, GrowsStale, InvoiceForgotten, LeaseExpires, ClickRead, books, browsers, wallet
    <3>2. CASE TwoMinutesPass \/ ClickLock \/ ClickCommit \/ EditRead \/ EditSave \/ UNCHANGED vars
      BY <3>2 DEF TwoMinutesPass, ClickLock, ClickCommit, EditRead, EditSave, vars, books, browsers, wallet
    <3> QED
      BY <3>1, <3>2
  <2> QED
    BY <2>1 DEF Resending, Inv, TypeOK
<1>2. CASE ClickCommit
  <2>1. /\ click.of \in Viewers /\ view' = [view EXCEPT ![click.of] = [click.copy EXCEPT !.clicked = TRUE]]
        /\ click' = NoClick /\ (view[click.of] = click.copy \/ mishaps' = mishaps + 1)
    BY <1>2 DEF ClickCommit, Mishap, Inv, ClickInv
  <2>2. /\ view'[click.of].status = click.copy.status
        /\ \A u \in Viewers : u # click.of => view'[u] = view[u]
    BY <2>1 DEF Inv, TypeOK, View
  <2>3. \A u \in Viewers : ~CopySent(u)'
    BY <2>1 DEF CopySent, NoClick, NoView
  <2>4. ASSUME NEW u \in Viewers
        PROVE  /\ (view'[u].status = "sent" <=> view[u].status = "sent") \/ mishaps' = mishaps + 1
               /\ view'[u].status = "sent" => view[u].status = "sent" \/ CopySent(u)
    BY <2>1, <2>2 DEF CopySent
  <2> QED
    BY <1>1, <2>3, <2>4, SparkBooksStay
<1>3. CASE \E v \in Viewers : ClickRead(v)
  <2>1. PICK v \in Viewers : ClickRead(v)
    BY <1>3
  <2>2. \A u \in Viewers : CopySent(u)' => view[u].status = "sent"
    BY <2>1 DEF ClickRead, CopySent
  <2> QED
    BY <1>1, <2>1, <2>2, SparkBooksStay DEF ClickRead, books
<1>4. CASE (\E v \in Viewers : ViewStep(v) /\ ~ClickRead(v))
           \/ TwoMinutesPass \/ ClickLock \/ EditRead \/ EditSave \/ UNCHANGED vars
  <2>1. \A u \in Viewers : CopySent(u)' <=> CopySent(u)
    <3>1. click' = click \/ click' = [click EXCEPT !.step = "locked", !.seen = spent]
      BY <1>4 DEF ViewStep, Claim, GrowsStale, InvoiceForgotten, LeaseExpires, TwoMinutesPass, ClickLock,
                  EditRead, EditSave, vars, editing
    <3>2. click'.of = click.of /\ click'.copy = click.copy
      BY <3>1 DEF Inv, TypeOK
    <3> QED
      BY <3>2 DEF CopySent
  <2>2. \A u \in Viewers : view'[u].status = "sent" <=> view[u].status = "sent"
    <3>1. CASE \E v \in Viewers : Claim(v)
      BY <3>1 DEF Claim, Claimable, Inv, TypeOK, View
    <3>2. CASE \E v \in Viewers : GrowsStale(v)
      BY <3>2 DEF GrowsStale, Inv, TypeOK, View
    <3>3. CASE (\E v \in Viewers : InvoiceForgotten(v) \/ LeaseExpires(v))
               \/ TwoMinutesPass \/ ClickLock \/ EditRead \/ EditSave \/ UNCHANGED vars
      BY <3>3 DEF InvoiceForgotten, LeaseExpires, TwoMinutesPass, ClickLock, EditRead, EditSave, vars, books
    <3> QED
      BY <1>4, <3>1, <3>2, <3>3 DEF ViewStep
  <2> QED
    BY <1>1, <2>1, <2>2, SparkBooksStay
<1> QED
  BY <1>2, <1>3, <1>4

\* A browser that neither pays nor reports
LEMMA SparkBooksBrowser ==
    ASSUME Inv, Inv', RailInv, rail = "spark", SparkBooks, mishaps' >= mishaps, NEW d \in Devices,
           Fetch(d) \/ (\E v \in Viewers : TakeUp(d, v)) \/ TakeLease(d) \/ LookForSend(d) \/ ReportFailed(d)
           \/ DeleteLease(d) \/ DeleteInvoice(d) \/ DeviceDies(d)
    PROVE  SparkBooks'
<1>1. /\ UNCHANGED <<earned, paid, click>>
      /\ \A u \in Viewers : /\ paid'[u] >= paid[u]
                            /\ view'[u].status = "sent" <=> view[u].status = "sent"
                            /\ CopySent(u)' <=> CopySent(u)
  <2>1. UNCHANGED <<earned, paid, click>>
    BY DEF Fetch, TakeUp, TakeLease, LookForSend, ReportFailed, CompleteFailed, Fails, DeleteLease, DeleteInvoice,
           DeviceDies, books, wallet, editing
  <2>2. ASSUME NEW u \in Viewers PROVE view'[u].status = "sent" <=> view[u].status = "sent"
    <3>1. CASE ReportFailed(d)
      <4>1. device[d].of \in Viewers
        BY <3>1 DEF ReportFailed, Inv, BrowserInv
      <4>2. view' = view \/ (view[device[d].of].status # "sent" /\ view' = [view EXCEPT ![device[d].of].status = "failed"])
        BY <3>1 DEF ReportFailed, CompleteFailed, Fails, books
      <4> QED
        BY <4>1, <4>2 DEF Inv, TypeOK, View
    <3>2. CASE ~ReportFailed(d)
      BY <3>2 DEF Fetch, TakeUp, TakeLease, LookForSend, DeleteLease, DeleteInvoice, DeviceDies, books
    <3> QED
      BY <3>1, <3>2
  <2> QED
    BY <2>1, <2>2 DEF CopySent, Inv, TypeOK
<1>2. /\ \A e \in Devices : e # d => device'[e] = device[e]
      /\ \/ device'[d].step \notin {"paid", "resend"}
         \/ /\ device'[d].step = "resend" /\ device'[d].of = device[d].of
            /\ mishaps' = mishaps + 1 \/ paid[device[d].of] > 0
  <2>1. CASE Fetch(d) \/ DeviceDies(d)
    <3> DEFINE queued == {v \in Viewers : view[v].status = "queued"}
    <3>1. queued \in SUBSET Viewers /\ {} \in SUBSET Viewers /\ spent \in Nat /\ 0 \in Nat
      BY DEF Inv, TypeOK
    <3>2. \/ device' = [device EXCEPT ![d] = [step |-> "list", todo |-> queued, seen |-> spent,
                                             of |-> NoViewer, invoice |-> 0]]
          \/ device' = [device EXCEPT ![d] = [step |-> "idle", todo |-> {}, seen |-> 0, of |-> NoViewer, invoice |-> 0]]
      BY <2>1 DEF Fetch, DeviceDies
    <3> HIDE DEF queued
    <3>3. PICK r : Moves(d, r) /\ r.step \in {"idle", "list"}
      BY <3>1, <3>2, ResetMoves
    <3> QED
      BY <3>3 DEF Moves, Inv, TypeOK
  <2>2. CASE \E v \in Viewers : TakeUp(d, v)
    <3>1. PICK r : Moves(d, r) /\ r.step \in {"idle", "list", "asked"}
      BY <2>2, TakeUpMoves
    <3> QED
      BY <3>1 DEF Moves, Inv, TypeOK
  <2>3. CASE LookForSend(d)
    <3>1. device[d].of \in Viewers /\ paid[device[d].of] \in Nat
      BY <2>3 DEF LookForSend, Inv, TypeOK, BrowserInv
    <3>2. Step(d, "fail") \/ (Step(d, "resend") /\ (paid[device[d].of] = 0 => mishaps' = mishaps + 1))
      BY <2>3 DEF LookForSend, Mishap
    <3> QED
      BY <3>1, <3>2, AfterStep DEF DeviceSteps
  <2>4. CASE TakeLease(d) \/ ReportFailed(d) \/ DeleteLease(d) \/ DeleteInvoice(d)
    <3>1. \/ device' = [device EXCEPT ![d] = Next_(d)]
          \/ \E step \in {"leased", "failed", "sentUnleased", "failedUnleased"} : Step(d, step)
      BY <2>4 DEF TakeLease, ReportFailed, DeleteLease, DeleteInvoice, Answered, Step
    <3> QED
      BY <3>1, NextIdle, AfterStep DEF DeviceSteps
  <2> QED
    BY <2>1, <2>2, <2>3, <2>4
<1>3. ASSUME NEW u \in Viewers, Resending(u)' PROVE Resending(u) \/ paid[u] > 0 \/ mishaps' = mishaps + 1
  BY <1>2, <1>3 DEF Resending
<1>4. \A e \in Devices : device'[e].step = "paid" => device[e].step = "paid" /\ device'[e].of = device[e].of
  BY <1>2
<1> QED
  BY <1>1, <1>3, <1>4, SparkBooksStay

\* A browser that pays
LEMMA SparkBooksPay ==
    ASSUME Inv, Inv', RailInv, rail = "spark", SparkBooks, mishaps' >= mishaps, NEW d \in Devices, PaySpark(d)
    PROVE  SparkBooks'
<1>1. device[d].of \in Viewers /\ UNCHANGED <<view, earned, click>>
  BY DEF PaySpark, Inv, BrowserInv, books, editing
<1>2. /\ \A u \in Viewers : paid'[u] >= paid[u]
      /\ \E step \in {"paid", "check", "fail"} : Step(d, step) /\ (step = "paid" => paid'[device[d].of] > 0)
  BY <1>1 DEF PaySpark, Inv, TypeOK
<1>3. /\ \A e \in Devices : e # d => device'[e] = device[e]
      /\ device'[d].step # "resend" /\ (device'[d].step = "paid" => paid'[device'[d].of] > 0)
  BY <1>2, AfterStep DEF DeviceSteps
<1>4. \A u \in Viewers : Resending(u)' => Resending(u)
  BY <1>3 DEF Resending
<1>5. \A e \in Devices : device'[e].step = "paid" =>
          paid'[device'[e].of] > 0 \/ (device[e].step = "paid" /\ device'[e].of = device[e].of)
  BY <1>3
<1>6. \A u \in Viewers : CopySent(u)' <=> CopySent(u)
  BY <1>1 DEF CopySent
<1> QED
  BY <1>1, <1>2, <1>4, <1>5, <1>6, SparkBooksStay

\* and one that reports.
LEMMA SparkBooksReport ==
    ASSUME Inv, Inv', RailInv, rail = "spark", SparkBooks, mishaps' >= mishaps, NEW d \in Devices, ReportSent(d)
    PROVE  SparkBooks'
<1> SUFFICES ASSUME NEW v \in Viewers, v = device[d].of PROVE SparkBooks'
  BY DEF ReportSent, Inv, BrowserInv
<1>1. /\ UNCHANGED <<paid, click>> /\ device[d].step \in {"paid", "resend"}
      /\ (view[v].status # "sent" /\ Credit(v)) \/ UNCHANGED books
  BY DEF ReportSent, CompleteSent, ProofFits, wallet, editing
<1>2. /\ \A e \in Devices : e # d => device'[e] = device[e]
      /\ device'[d].step \notin {"paid", "resend"}
  <2>1. \/ device' = [device EXCEPT ![d] = Next_(d)]
        \/ \E step \in {"sent", "check", "fail"} : Step(d, step)
    BY DEF ReportSent, Answered
  <2> QED
    BY <2>1, NextIdle, AfterStep DEF DeviceSteps
<1>3. \A u \in Viewers : (Resending(u)' => Resending(u)) /\ (CopySent(u)' <=> CopySent(u)) /\ paid'[u] >= paid[u]
  BY <1>1, <1>2 DEF Resending, CopySent, Inv, TypeOK
<1>4. \A e \in Devices : device'[e].step = "paid" => device[e].step = "paid" /\ device'[e].of = device[e].of
  BY <1>2
<1>5. CASE UNCHANGED books
  BY <1>3, <1>4, <1>5, SparkBooksStay DEF books
<1>6. CASE view[v].status # "sent" /\ Credit(v)
  <2>1. \A u \in Viewers : u # v => view'[u] = view[u] /\ earned'[u] = earned[u]
    BY <1>6 DEF Credit, Inv, TypeOK
  <2>2. paid[v] > 0 \/ Resending(v)
    BY <1>1 DEF Resending, SparkBooks
  <2>3. ASSUME NEW u \in Viewers PROVE \E n \in Nat : CreditedTimes(u, n)'
    <3>1. \E n \in Nat : CreditedTimes(u, n)
      BY DEF SparkBooks
    <3>2. CASE u = v
      BY <1>1, <1>6, <2>2, <3>1, <3>2, CreditCounts
    <3>3. CASE u # v
      BY <1>3, <2>1, <3>1, <3>3, CreditStays
    <3> QED
      BY <3>2, <3>3
  <2> QED
    BY <1>1, <1>4, <2>3 DEF SparkBooks
<1> QED
  BY <1>1, <1>5, <1>6

\* The threads of the server: nothing is paid or credited,
LEMMA ServerBooksStay ==
    ASSUME Inv, Inv', ServerBooks, UNCHANGED <<earned, paid>>, mishaps' >= mishaps,
           \A u \in Viewers : Winners(u)' = Winners(u)
    PROVE  ServerBooks'
<1> SUFFICES ASSUME NEW u \in Viewers
             PROVE  \E n \in Nat : earned'[u] = Reward * n /\ paid'[u] <= n + Cardinality(Winners(u)') + mishaps'
  BY DEF ServerBooks
<1>1. PICK n \in Nat : earned[u] = Reward * n /\ paid[u] <= n + Cardinality(Winners(u)) + mishaps
  BY DEF ServerBooks
<1>2. Cardinality(Winners(u)) \in Nat /\ mishaps \in Nat /\ mishaps' \in Nat /\ paid[u] \in Nat
  BY WinnersFinite, BoundAssumption DEF Inv, TypeOK
<1> QED
  BY <1>1, <1>2

\* or a thread pays, records or dies.
LEMMA ServerBooksStep ==
    ASSUME Inv, Inv', ServerBooks, mishaps' >= mishaps, NEW h \in Threads, ServerStep(h)
    PROVE  ServerBooks'
<1> SUFFICES ASSUME NEW u \in Viewers
             PROVE  \E n \in Nat : earned'[u] = Reward * n /\ paid'[u] <= n + Cardinality(Winners(u)') + mishaps'
  BY DEF ServerBooks
<1>1. PICK n \in Nat : earned[u] = Reward * n /\ paid[u] <= n + Cardinality(Winners(u)) + mishaps
  BY DEF ServerBooks
<1>2. /\ Cardinality(Winners(u)) \in Nat /\ IsFiniteSet(Winners(u)) /\ mishaps \in Nat /\ mishaps' \in Nat
      /\ paid[u] \in Nat /\ thread[h].of \in Viewers
  <2>1. Cardinality(Winners(u)) \in Nat /\ IsFiniteSet(Winners(u))
    BY WinnersFinite
  <2>2. mishaps \in Nat /\ mishaps' \in Nat /\ paid[u] \in Nat
    BY BoundAssumption DEF Inv, TypeOK
  <2>3. thread[h].step # "idle"
    BY DEF ServerStep, Pay, Record, WorkerDies
  <2>4. thread[h].of \in Viewers
    BY <2>3 DEF Inv, ServerInv
  <2> QED
    BY <2>1, <2>2, <2>4
<1>3. CASE Pay(h)
  <2>1. PICK moved, answered \in BOOLEAN :
          /\ thread' = [thread EXCEPT ![h].step = IF moved /\ answered THEN "won" ELSE "lost"]
          /\ paid' = [paid EXCEPT ![thread[h].of] = IF moved THEN @ + 1 ELSE @]
          /\ Mishap(moved /\ ~answered)
    BY <1>3 DEF Pay
  <2>2. /\ thread'[h].of = thread[h].of /\ thread'[h].step = IF moved /\ answered THEN "won" ELSE "lost"
        /\ \A g \in Threads : g # h => thread'[g] = thread[g]
    BY <2>1 DEF Inv, TypeOK, Thread
  <2>3. UNCHANGED earned /\ thread[h].step = "paying"
    BY <1>3 DEF Pay, books
  <2>4. paid'[u] = IF moved /\ u = thread[h].of THEN paid[u] + 1 ELSE paid[u]
    BY <2>1 DEF Inv, TypeOK
  <2>5. CASE moved /\ answered /\ u = thread[h].of
    <3>1. Winners(u)' = Winners(u) \cup {h} /\ h \notin Winners(u)
      BY <2>2, <2>3, <2>5 DEF Winners
    <3>2. Cardinality(Winners(u)') = Cardinality(Winners(u)) + 1
      BY <1>2, <3>1, FS_AddElement
    <3> QED
      BY <1>1, <1>2, <2>3, <2>4, <2>5, <3>2
  <2>6. CASE ~(moved /\ answered /\ u = thread[h].of)
    <3>1. Winners(u)' = Winners(u)
      BY <2>2, <2>3, <2>6 DEF Winners
    <3>2. moved /\ u = thread[h].of => mishaps' = mishaps + 1
      BY <2>1, <2>6 DEF Mishap
    <3> QED
      BY <1>1, <1>2, <2>3, <2>4, <3>1, <3>2
  <2> QED
    BY <2>5, <2>6
<1>4. CASE Record(h) \/ WorkerDies(h)
  <2>1. /\ thread'[h].step = "idle" /\ \A g \in Threads : g # h => thread'[g] = thread[g]
        /\ UNCHANGED paid
    <3>1. CASE Record(h)
      BY <3>1 DEF Record, wallet, Inv, TypeOK
    <3>2. CASE WorkerDies(h)
      BY <3>2 DEF WorkerDies, wallet, Inv, TypeOK
    <3> QED
      BY <1>4, <3>1, <3>2
  <2>2. CASE thread[h].step = "won" /\ u = thread[h].of
    <3>1. Winners(u)' = Winners(u) \ {h} /\ h \in Winners(u)
      BY <2>1, <2>2 DEF Winners
    <3>2. Cardinality(Winners(u)') \in Nat /\ Cardinality(Winners(u)) = Cardinality(Winners(u)') + 1
      <4>1. Cardinality(Winners(u)') = Cardinality(Winners(u)) - 1
        BY <1>2, <3>1, FS_RemoveElement
      <4>2. Cardinality(Winners(u)') \in Nat
        BY <1>2, <3>1, FS_RemoveElement, FS_CardinalityType
      <4> QED
        BY <1>2, <4>1, <4>2
    <3>3. \/ earned'[u] = earned[u] + Reward
          \/ earned'[u] = earned[u] /\ mishaps' = mishaps + 1
      <4>1. CASE Record(h)
        BY <2>2, <4>1 DEF Record, Credit, Inv, TypeOK
      <4>2. CASE WorkerDies(h)
        BY <2>2, <4>2 DEF WorkerDies, Mishap, books
      <4> QED
        BY <1>4, <4>1, <4>2
    <3>4. CASE earned'[u] = earned[u] + Reward
      <4>1. earned'[u] = Reward * (n + 1) /\ n + 1 \in Nat
        BY <1>1, <3>4, RewardMore
      <4>2. paid'[u] <= (n + 1) + Cardinality(Winners(u)') + mishaps'
        BY <1>1, <1>2, <2>1, <3>2
      <4> QED
        BY <4>1, <4>2
    <3>5. CASE earned'[u] = earned[u] /\ mishaps' = mishaps + 1
      BY <1>1, <1>2, <2>1, <3>2, <3>5
    <3> QED
      BY <3>3, <3>4, <3>5
  <2>3. CASE ~(thread[h].step = "won" /\ u = thread[h].of)
    <3>1. Winners(u)' = Winners(u)
      BY <2>1, <2>3 DEF Winners
    <3>2. earned'[u] = earned[u]
      <4>1. CASE Record(h)
        BY <1>2, <2>3, <4>1 DEF Record, Credit, Fails, Inv, TypeOK
      <4>2. CASE WorkerDies(h)
        BY <4>2 DEF WorkerDies, books
      <4> QED
        BY <1>4, <4>1, <4>2
    <3> QED
      BY <1>1, <1>2, <2>1, <3>1, <3>2
  <2> QED
    BY <2>2, <2>3
<1> QED
  BY <1>3, <1>4 DEF ServerStep

LEMMA BalancedNext == ASSUME Inv, Inv', RailInv, Balanced, [Next]_vars PROVE Balanced'
<1>1. mishaps' >= mishaps /\ UNCHANGED rail
  BY MishapsGrow, RailKept
<1>2. CASE rail = "spark"
  <2>1. SparkBooks
    BY <1>2 DEF Balanced
  <2>2. CASE \E h \in Threads : ServerStep(h)
    BY <1>2, <2>2 DEF ServerStep, Pay, Record, WorkerDies, RailInv
  <2>3. CASE \E d \in Devices : DeviceStep(d)
    <3>1. PICK d \in Devices : DeviceStep(d)
      BY <2>3
    <3>2. ~Resolve(d) /\ ~PayInvoice(d)
      BY <1>2 DEF Resolve, PayInvoice, Inv, BrowserInv
    <3>3. SparkBooks'
      BY <1>1, <1>2, <2>1, <3>1, <3>2, SparkBooksBrowser, SparkBooksPay, SparkBooksReport DEF DeviceStep
    <3> QED
      BY <1>1, <1>2, <3>3 DEF Balanced
  <2>4. CASE (\E v \in Viewers : ViewStep(v))
             \/ TwoMinutesPass \/ ClickLock \/ ClickCommit \/ EditRead \/ EditSave \/ UNCHANGED vars
    <3>1. SparkBooks'
      BY <1>1, <1>2, <2>1, <2>4, SparkBooksRows
    <3> QED
      BY <1>1, <1>2, <3>1 DEF Balanced
  <2> QED
    BY <2>2, <2>3, <2>4 DEF Next
<1>3. CASE rail = "server"
  <2>1. ServerBooks
    BY <1>3 DEF Balanced
  <2>2. CASE \E h \in Threads : ServerStep(h)
    <3>1. ServerBooks'
      BY <1>1, <2>1, <2>2, ServerBooksStep
    <3> QED
      BY <1>1, <1>3, <3>1 DEF Balanced
  <2>3. CASE \E d \in Devices : DeviceStep(d)
    <3>1. PICK d \in Devices : DeviceStep(d)
      BY <2>3
    <3>2. device[d].step = "idle" /\ Fetch(d)
      BY <1>3, <3>1 DEF RailInv, DeviceStep, Fetch, TakeUp, TakeLease, PaySpark, LookForSend, Resolve, PayInvoice,
         ReportSent, ReportFailed, DeleteLease, DeleteInvoice, DeviceDies
    <3> QED
      BY <1>3, <3>2 DEF RailInv, Fetch
  <2>4. CASE (\E v \in Viewers : ViewStep(v))
             \/ TwoMinutesPass \/ ClickLock \/ ClickCommit \/ EditRead \/ EditSave \/ UNCHANGED vars
    <3>1. UNCHANGED <<earned, paid>> /\ \A u \in Viewers : Winners(u)' = Winners(u)
      <4>1. CASE \E v \in Viewers : Claim(v)
        <5>1. PICK v \in Viewers : Claim(v)
          BY <4>1
        <5>2. PICK h \in Threads : thread[h].step = "idle" /\ thread' = [thread EXCEPT ![h] = [of |-> v, step |-> "paying"]]
          BY <1>3, <5>1 DEF Claim
        <5>3. thread'[h].step = "paying" /\ \A g \in Threads : g # h => thread'[g] = thread[g]
          BY <5>2 DEF Inv, TypeOK
        <5> QED
          BY <5>1, <5>2, <5>3 DEF Claim, wallet, Winners
      <4>2. CASE ~\E v \in Viewers : Claim(v)
        <5>1. UNCHANGED <<earned, paid, thread>>
          BY <2>4, <4>2 DEF ViewStep, GrowsStale, InvoiceForgotten, LeaseExpires, ClickRead, TwoMinutesPass, ClickLock,
             ClickCommit, EditRead, EditSave, vars, books, server, wallet
        <5> QED
          BY <5>1 DEF Winners
      <4> QED
        BY <4>1, <4>2
    <3>2. ServerBooks'
      BY <1>1, <2>1, <3>1, ServerBooksStay
    <3> QED
      BY <1>1, <1>3, <3>2 DEF Balanced
  <2> QED
    BY <2>2, <2>3, <2>4 DEF Next
<1>4. CASE rail \notin {"spark", "server"}
  BY <1>1, <1>4 DEF Balanced
<1> QED
  BY <1>2, <1>3, <1>4

-----------------------------------------------------------------------------
(* The theorems about the books *)

LEMMA BooksInvHolds == Spec => [](Inv /\ RailInv /\ CreditInv /\ Exact /\ Bounded /\ Balanced)
<1> DEFINE I == Inv /\ RailInv /\ CreditInv /\ Exact /\ Bounded /\ Balanced
<1>1. Init => I
  BY InitInv, RailInit, CreditInit, ExactInit, BoundedInit, BalancedInit
<1>2. I /\ [Next]_vars => I'
  BY StepKeepsInv, RailNext, CreditNext, ExactNext, BoundedNext, BalancedNext
<1> QED
  BY <1>1, <1>2, PTL DEF Spec

\* No single lost call, death, late answer or overwritten row makes a viewer earn
\* more than was paid, for any number of viewers, threads and browsers.
THEOREM EarnedNeverExceedsPaid == Spec => []EarnedWithinPaid
BY BooksInvHolds, CreditWithinPaid, PTL

\* A view is paid once, and at most once more for every call, death, late lease or
\* overwritten row that went wrong, whatever the order in which tabs, request threads
\* and browsers take their steps (on the rail "lnurl": once, as long as nothing goes
\* wrong).
THEOREM PaidOnlyOnce == Spec => []PaidOnce
<1>1. Inv /\ RailInv /\ Exact /\ Bounded => PaidOnce
  <2> SUFFICES ASSUME Inv, RailInv, Exact, Bounded, rail # "lnurl" \/ mishaps = 0, NEW v \in Viewers
               PROVE  paid[v] <= 1 + mishaps
    BY DEF PaidOnce
  <2>1. paid[v] \in Nat /\ mishaps \in Nat /\ rail \in {"server", "spark", "lnurl"}
    BY BoundAssumption, RailsAssumption DEF Inv, TypeOK
  <2>2. CASE rail # "lnurl"
    <3>1. SparkBound(v) \/ ServerBound(v)
      BY <2>1, <2>2 DEF Bounded
    <3>2. /\ Cardinality(Loose(v)) \in Nat /\ Count(Payable(v)) \in 0 .. 1
          /\ Cardinality(Paying(v)) \in Nat /\ Count(Open(v)) \in 0 .. 1
      BY BoundTypes, FS_CardinalityType
    <3> QED
      BY <2>1, <3>1, <3>2 DEF SparkBound, ServerBound
  <2>3. CASE rail = "lnurl" /\ mishaps = 0
    <3>1. AllExact
      BY <2>3 DEF Exact
    <3>2. view[v].status \in {"none", "queued", "sent", "failed"}
      BY <2>3 DEF Inv, TypeOK, View, RailInv
    <3>3. CASE view[v].status # "queued" \/ Payers(v) = {}
      BY <3>1, <3>2, <3>3, <2>3 DEF AllExact, ViewsExact
    <3>4. CASE Payers(v) # {}
      BY <3>1, <3>4, <2>3 DEF AllExact, DevicesExact, StepsExact, Payers
    <3> QED
      BY <3>3, <3>4
  <2> QED
    BY <2>2, <2>3
<1> QED
  BY <1>1, BooksInvHolds, PTL

\* What has been spent and what is in flight
CeilingWithoutMishap == mishaps = 0 => spent + Reward * Cardinality(InFlight) <= budget

\* As long as nothing goes wrong, claims and credits together stay under the budget,
\* on every rail, for any number of claimers, tabs and browsers.
THEOREM CeilingIsKept == Spec => []CeilingWithoutMishap
<1>1. Exact => CeilingWithoutMishap
  BY DEF Exact, AllExact, SumsExact, CeilingWithoutMishap
<1> QED
  BY <1>1, BooksInvHolds, PTL

\* What is bounded in payments is bounded in amounts.
LEMMA SumsOfRewards ==
    \A m, n, k \in Nat : m <= n + k => Reward * m <= Reward * n + Reward * k /\ Reward * m <= Reward * (n + k)
<1> SUFFICES ASSUME NEW m \in Nat, NEW n \in Nat, NEW k \in Nat, m <= n + k
             PROVE  Reward * m <= Reward * n + Reward * k /\ Reward * m <= Reward * (n + k)
  OBVIOUS
<1>1. n + k \in Nat
  OBVIOUS
<1>2. Reward * m <= Reward * (n + k)
  BY <1>1, RewardMore
<1>3. Reward * (n + k) = Reward * n + Reward * k
  BY RewardAssumption
<1> QED
  BY <1>2, <1>3

\* Between what a viewer earned and what was paid to him there is at most one reward
\* for every mishap, when every outcome has been recorded.
LEMMA BooksBalance ==
    ASSUME Inv, RailInv, CreditInv, Bounded, Balanced, Recorded, rail # "lnurl", NEW v \in Viewers
    PROVE  earned[v] <= Reward * (paid[v] + mishaps) /\ Reward * paid[v] <= earned[v] + Reward * mishaps
<1>1. paid[v] \in Nat /\ mishaps \in Nat /\ earned[v] \in Nat /\ rail \in {"server", "spark"}
  BY BoundAssumption, RailsAssumption DEF Inv, TypeOK
<1>2. \A m, n, k \in Nat : m <= n + k => Reward * m <= Reward * n + Reward * k /\ Reward * m <= Reward * (n + k)
  BY SumsOfRewards
<1>3. Reward * paid[v] \in Nat /\ Reward * mishaps \in Nat /\ Reward * (paid[v] + mishaps) \in Nat
  <2>1. paid[v] + mishaps \in Nat
    BY <1>1
  <2>2. \A n \in Nat : Reward * n \in Nat
    BY RewardMore
  <2> QED
    BY <1>1, <2>1, <2>2
<1>4. CASE rail = "server"
  <2>1. Winners(v) = {} /\ Cardinality(Winners(v)) = 0
    BY FS_EmptySet DEF Recorded, Winners
  <2>2. earned[v] <= Reward * paid[v]
    <3>1. earned[v] + Reward * 0 <= Reward * paid[v]
      BY <1>4, <2>1 DEF CreditInv, ServerCredit
    <3>2. Reward * 0 = 0
      BY RewardAssumption
    <3> QED
      BY <1>1, <1>3, <3>1, <3>2
  <2>3. PICK n \in Nat : earned[v] = Reward * n /\ paid[v] <= n + 0 + mishaps
    BY <1>4, <2>1 DEF Balanced, ServerBooks
  <2>4. paid[v] <= n + mishaps /\ paid[v] <= paid[v] + mishaps
    BY <1>1, <2>3
  <2>5. Reward * paid[v] <= Reward * n + Reward * mishaps /\ Reward * paid[v] <= Reward * (paid[v] + mishaps)
    BY <1>1, <1>2, <2>4
  <2> QED
    BY <1>1, <1>3, <2>2, <2>3, <2>5
<1>5. CASE rail = "spark"
  <2>1. PICK n \in Nat : CreditedTimes(v, n)
    BY <1>5 DEF Balanced, SparkBooks
  <2>2. Unsent(v) \in 0 .. 1 /\ Count(Payable(v)) \in 0 .. 1 /\ Cardinality(Loose(v)) \in Nat
    BY BoundTypes, FS_CardinalityType DEF Unsent, Count
  <2>3. n <= paid[v] + mishaps
    <3>1. n + Unsent(v) <= 1 + mishaps /\ (paid[v] = 0 /\ n > 0 => n + Unsent(v) <= mishaps)
      BY <2>1 DEF CreditedTimes
    <3> QED
      BY <1>1, <2>2, <3>1
  <2>4. paid[v] <= n + mishaps
    <3>1. paid[v] + Cardinality(Loose(v)) + Count(Payable(v)) <= 1 + mishaps
      BY <1>5 DEF Bounded, SparkBound
    <3>2. CASE n = 0
      <4>1. view[v].status \in {"none", "queued", "failed"}
        <5>1. view[v].status # "sent"
          BY <2>1, <3>2 DEF CreditedTimes
        <5> QED
          BY <1>5, <5>1 DEF Inv, TypeOK, View, RailInv
      <4>2. \A d \in Devices : ~HasPaid(d, v)
        BY DEF Recorded, Deleting, HasPaid
      <4>3. Count(Payable(v)) = 1
        BY <4>1, <4>2 DEF Payable, Count
      <4> QED
        BY <1>1, <2>2, <3>1, <3>2, <4>3
    <3>3. CASE n # 0
      BY <1>1, <2>2, <3>1, <3>3
    <3> QED
      BY <3>2, <3>3
  <2>5. Reward * n <= Reward * (paid[v] + mishaps) /\ Reward * paid[v] <= Reward * n + Reward * mishaps
    BY <1>1, <1>2, <2>3, <2>4
  <2>6. earned[v] = Reward * n
    BY <2>1 DEF CreditedTimes
  <2> QED
    BY <2>5, <2>6
<1> QED
  BY <1>1, <1>4, <1>5

\* Every mishap, late leases included, puts at most one reward between what a viewer
\* has earned and what was paid to him, once every outcome has been recorded; and
\* until the first one earnings, payments, rows and the campaign's total tell the
\* same story.
THEOREM BooksAreExact == Spec => []BooksExact
<1>1. Inv /\ RailInv /\ CreditInv /\ Exact /\ Bounded /\ Balanced => BooksExact
  <2> SUFFICES ASSUME Inv, RailInv, CreditInv, Exact, Bounded, Balanced, Recorded
               PROVE  /\ rail # "lnurl" \/ mishaps = 0 =>
                            \A v \in Viewers : /\ earned[v] <= Reward * (paid[v] + mishaps)
                                               /\ Reward * paid[v] <= earned[v] + Reward * mishaps
                      /\ mishaps = 0 =>
                            /\ \A v \in Viewers : paid[v] > 0 <=> view[v].status = "sent"
                            /\ spent = Reward * Cardinality({v \in Viewers : view[v].status = "sent"})
    BY DEF BooksExact
  <2>1. ASSUME mishaps = 0, NEW v \in Viewers
        PROVE  earned[v] = Reward * paid[v] /\ (paid[v] > 0 <=> view[v].status = "sent")
    <3>1. AllExact
      BY <2>1 DEF Exact
    <3>2. view[v].status # "pending" /\ Payers(v) = {}
      BY <3>1 DEF AllExact, ThreadsExact, Recorded, Payers, Deleting
    <3>3. view[v].status # "sent" => paid[v] = 0
      BY <3>1, <3>2 DEF AllExact, ViewsExact, Inv, TypeOK, View
    <3>4. earned[v] = (IF view[v].status = "sent" THEN Reward ELSE 0) /\ (view[v].status = "sent" => paid[v] = 1)
      BY <3>1 DEF AllExact, ViewsExact
    <3>5. Reward * 0 = 0 /\ Reward * 1 = Reward
      BY RewardAssumption
    <3> QED
      BY <3>3, <3>4, <3>5
  <2>2. mishaps = 0 => spent = Reward * Cardinality({v \in Viewers : view[v].status = "sent"})
    BY DEF Exact, AllExact, SumsExact, Sent
  <2>3. ASSUME mishaps = 0, NEW v \in Viewers
        PROVE  earned[v] <= Reward * (paid[v] + mishaps) /\ Reward * paid[v] <= earned[v] + Reward * mishaps
    <3>1. Reward * paid[v] \in Nat /\ Reward * 0 = 0 /\ paid[v] + 0 = paid[v] /\ earned[v] + 0 = earned[v]
      BY RewardAssumption DEF Inv, TypeOK
    <3> QED
      BY <2>1, <2>3, <3>1
  <2> QED
    BY <2>1, <2>2, <2>3, BooksBalance
<1> QED
  BY <1>1, BooksInvHolds, PTL
=============================================================================
