------------------------------- MODULE Payouts -------------------------------
(***************************************************************************)
(* The rewards of one advertising campaign: claims of its views, the two   *)
(* ways of paying them, and the books kept about them.                     *)
(*                                                                         *)
(* On the rail "server" the request that claims a view also pays it, by    *)
(* calling the advertiser's wallet between two transactions.  On the rails *)
(* "spark" and "lnurl" the claim is queued and a browser of the advertiser *)
(* (useAdsPayer.ts) leases it, pays it and reports.  The wallets are       *)
(* outside the code: a call may pay and still be answered by an error.     *)
(***************************************************************************)
EXTENDS Integers, FiniteSets

CONSTANTS
    Viewers,        \* profiles that may claim the campaign's reward
    NoViewer,
    Threads,        \* request threads that pay on the rail "server"
    Devices,        \* the advertiser's browsers
    NoDevice,
    Rails,          \* the rails to consider
    Reward,         \* AdCampaign.reward_sats
    Budgets,        \* values of AdCampaign.budget_sats to consider
    MaxClaims,      \* bound: claims of the campaign
    MaxMishaps      \* bound: crashes, lost calls, late answers and leases, overwritten rows

ASSUME RailsAssumption == Rails \subseteq {"server", "spark", "lnurl"}
ASSUME RewardAssumption == Reward \in Nat \ {0} /\ Budgets \subseteq Nat
ASSUME BoundAssumption == MaxClaims \in Nat /\ MaxMishaps \in Nat
ASSUME FiniteAssumption == IsFiniteSet(Viewers) /\ IsFiniteSet(Threads) /\ IsFiniteSet(Devices)
ASSUME NobodyAssumption == NoViewer \notin Viewers /\ NoDevice \notin Devices

VARIABLES
    rail,       \* how this campaign's rewards are paid
    budget,     \* AdCampaign.budget_sats
    view,       \* the AdView row of each viewer, status "none" before the first claim
    spent,      \* AdCampaign.spent_sats
    earned,     \* AdsProfile.total_earned_sats of each viewer, from this campaign
    claims,     \* claims so far
    thread,     \* server rail: the claim a thread is paying
    lease,      \* the Redis lease of each view
    device,     \* what each browser is doing
    ledger,     \* the local ledger of each browser
    invoices,   \* invoices resolved so far
    cached,     \* the invoice cached for each view, 0 when there is none
    settled,    \* invoices that have been paid
    recent,     \* the wallet lists a payment made in the last two minutes
    paid,       \* number of payments that left the wallet for each viewer
    click,      \* record_ad_click in progress
    edit,       \* update_campaign in progress: the spent_sats of its copy
    mishaps     \* history: crashes, lost calls, late answers and leases, overwritten rows so far

books == <<view, spent, earned>>
server == <<claims, thread>>
keys == <<lease, cached>>
browsers == <<keys, device, ledger, invoices, recent>>
wallet == <<settled, paid>>
editing == <<click, edit>>
campaign == <<rail, budget>>
vars == <<campaign, books, server, browsers, wallet, editing, mishaps>>

View == [status : {"none", "pending", "queued", "sent", "failed"}, fresh : BOOLEAN,
         clicked : BOOLEAN, invoice : Nat]

Thread == [of : Viewers \cup {NoViewer}, step : {"idle", "paying", "won", "lost"}]

DeviceSteps == {"idle", "list", "asked", "leased", "resolved", "paid", "check", "resend", "fail",
                "sent", "failed", "sentUnleased", "failedUnleased"}

Browser == [step : DeviceSteps, todo : SUBSET Viewers, seen : Nat,
            of : Viewers \cup {NoViewer}, invoice : Nat]

TypeOK ==
    /\ rail \in Rails /\ budget \in Budgets
    /\ view \in [Viewers -> View]
    /\ spent \in Nat
    /\ earned \in [Viewers -> Nat]
    /\ claims \in Nat
    /\ thread \in [Threads -> Thread]
    /\ lease \in [Viewers -> Devices \cup {NoDevice}]
    /\ device \in [Devices -> Browser]
    /\ ledger \in [Devices -> Nat]
    /\ invoices \in Nat
    /\ cached \in [Viewers -> Nat]
    /\ settled \subseteq Nat
    /\ recent \in BOOLEAN
    /\ paid \in [Viewers -> Nat]
    /\ click \in [step : {"idle", "read", "locked"}, of : Viewers \cup {NoViewer}, copy : View, seen : Nat]
    /\ edit \in Nat \cup {-1}
    /\ mishaps \in 0 .. MaxMishaps

\* Something goes wrong in this step, if it does.
Mishap(happens) ==
    /\ happens => mishaps < MaxMishaps
    /\ mishaps' = IF happens THEN mishaps + 1 ELSE mishaps

-----------------------------------------------------------------------------
(* Rows and locks *)

\* record_ad_click has saved the view row and not committed yet.
RowFree(v) == ~(click.step = "locked" /\ click.of = v)

InFlight == {v \in Viewers : view[v].status \in {"pending", "queued"}}

Reserved(v) == Reward * Cardinality(InFlight \ {v})

\* (faulty variant: a payout in flight does not block a claim)
ClaimableInFlight(v) == view[v].status # "sent"

Claimable(v) ==
    \/ view[v].status \in {"none", "failed"}
    \/ view[v].status = "pending" /\ ~view[v].fresh

\* (faulty variant: nothing is set aside for payouts in flight)
WithinBudgetSpent(v) == spent + Reward <= budget

WithinBudget(v) == spent + Reserved(v) + Reward <= budget

\* record_ad_view, up to the end of its first transaction: the campaign row and
\* the view row are locked.
Claim(v) ==
    /\ claims < MaxClaims
    /\ RowFree(v)
    /\ Claimable(v)
    /\ WithinBudget(v)
    /\ claims' = claims + 1
    /\ view' = [view EXCEPT ![v].status = IF rail = "server" THEN "pending" ELSE "queued",
                            ![v].fresh = TRUE, ![v].invoice = 0]
    /\ IF rail = "server"
       THEN \E h \in Threads :
                /\ thread[h].step = "idle"
                /\ thread' = [thread EXCEPT ![h] = [of |-> v, step |-> "paying"]]
       ELSE UNCHANGED thread
    /\ UNCHANGED <<campaign, spent, earned, browsers, wallet, editing, mishaps>>

\* The totals move with the view's status.
Credit(v) ==
    /\ view' = [view EXCEPT ![v].status = "sent"]
    /\ spent' = spent + Reward
    /\ earned' = [earned EXCEPT ![v] = @ + Reward]

\* (faulty variant: a failure gives the reward back to the budget)
FailsWithRefund(v) ==
    /\ view' = [view EXCEPT ![v].status = "failed"]
    /\ spent' = spent - Reward
    /\ UNCHANGED earned

Fails(v) ==
    /\ view' = [view EXCEPT ![v].status = "failed"]
    /\ UNCHANGED <<spent, earned>>

-----------------------------------------------------------------------------
(* The server pays *)

\* send_payment_via_lnurl. Every failure looks the same to the caller, one that
\* happens after the wallet has paid included.
Pay(h) ==
    /\ thread[h].step = "paying"
    /\ \E moved, answered \in BOOLEAN :
          /\ thread' = [thread EXCEPT ![h].step = IF moved /\ answered THEN "won" ELSE "lost"]
          /\ paid' = [paid EXCEPT ![thread[h].of] = IF moved THEN @ + 1 ELSE @]
          /\ Mishap(moved /\ ~answered)
    /\ UNCHANGED <<campaign, books, claims, browsers, settled, editing>>

\* (faulty variant: a payment whose outcome is unknown is taken as made)
RecordAnyway(h) ==
    /\ thread[h].step \in {"won", "lost"}
    /\ RowFree(thread[h].of)
    /\ Credit(thread[h].of)
    /\ thread' = [thread EXCEPT ![h] = [of |-> NoViewer, step |-> "idle"]]
    /\ UNCHANGED <<campaign, claims, browsers, wallet, editing, mishaps>>

\* The second transaction of record_ad_view. It does not look at the row.
Record(h) ==
    /\ thread[h].step \in {"won", "lost"}
    /\ RowFree(thread[h].of)
    /\ IF thread[h].step = "won" THEN Credit(thread[h].of) ELSE Fails(thread[h].of)
    /\ thread' = [thread EXCEPT ![h] = [of |-> NoViewer, step |-> "idle"]]
    /\ UNCHANGED <<campaign, claims, browsers, wallet, editing, mishaps>>

WorkerDies(h) ==
    /\ thread[h].step # "idle"
    /\ thread' = [thread EXCEPT ![h] = [of |-> NoViewer, step |-> "idle"]]
    /\ Mishap(TRUE)
    /\ UNCHANGED <<campaign, books, claims, browsers, wallet, editing>>

\* PAYOUT_STALE_AFTER is longer than a live payment can take.
GrowsStale(v) ==
    /\ view[v].status = "pending" /\ view[v].fresh
    /\ \A h \in Threads : thread[h].of # v
    /\ view' = [view EXCEPT ![v].fresh = FALSE]
    /\ UNCHANGED <<campaign, spent, earned, server, browsers, wallet, editing, mishaps>>

-----------------------------------------------------------------------------
(* A browser pays *)

\* processQueue fetches the queue once and works through it.
Fetch(d) ==
    LET queued == {v \in Viewers : view[v].status = "queued"} IN
    /\ device[d].step = "idle"
    /\ queued # {}
    /\ device' = [device EXCEPT ![d] = [step |-> "list", todo |-> queued, seen |-> spent,
                                        of |-> NoViewer, invoice |-> 0]]
    /\ UNCHANGED <<campaign, books, server, keys, ledger, invoices, recent, wallet, editing, mishaps>>

\* The next item of the list, or the end of processQueue
Next_(d) ==
    [device[d] EXCEPT !.step = IF device[d].todo = {} THEN "idle" ELSE "list",
                      !.seen = IF device[d].todo = {} THEN 0 ELSE device[d].seen,
                      !.of = NoViewer, !.invoice = 0]

Verified(d) == device[d].seen + Reward <= budget /\ ledger[d] + Reward <= budget

\* payOne, and lease_payout up to its look at the row. An item that does not pass
\* is dropped from the list.
TakeUp(d, v) ==
    LET rest == device[d].todo \ {v} IN
    /\ device[d].step = "list" /\ v \in device[d].todo
    /\ IF Verified(d) /\ view[v].status = "queued"
       THEN device' = [device EXCEPT ![d].step = "asked", ![d].of = v, ![d].todo = rest]
       ELSE device' = [device EXCEPT ![d].step = IF rest = {} THEN "idle" ELSE "list",
                                     ![d].seen = IF rest = {} THEN 0 ELSE @, ![d].todo = rest]
    /\ UNCHANGED <<campaign, books, server, keys, ledger, invoices, recent, wallet, editing, mishaps>>

\* (faulty variant: the lease is taken whoever holds it)
LeaseOverwritten(v) == TRUE

LeaseFree(v) == lease[v] = NoDevice

\* The cache.add of lease_payout. The row is not looked at again: it may have been
\* paid or have failed in the meantime, and be leased too late.
TakeLease(d) ==
    LET v == device[d].of IN
    /\ device[d].step = "asked"
    /\ IF LeaseFree(v)
       THEN lease' = [lease EXCEPT ![v] = d] /\ device' = [device EXCEPT ![d].step = "leased"]
       ELSE UNCHANGED lease /\ device' = [device EXCEPT ![d] = Next_(d)]
    /\ UNCHANGED <<campaign, books, server, cached, ledger, invoices, recent, wallet, editing, mishaps>>

Step(d, step) == device' = [device EXCEPT ![d].step = step]

\* complete_payout has committed this browser's report, and is deleting keys.
Deleting(d) == device[d].step \in {"sent", "failed", "sentUnleased", "failedUnleased"}

\* A browser is at work with a view.
Busy(d, v) == device[d].of = v /\ device[d].step # "asked"

\* The lease is gone, also if somebody other than d is still at work with it.
LeaseLost(v, d) ==
    /\ lease' = [lease EXCEPT ![v] = NoDevice]
    /\ Mishap(lease[v] \notin {NoDevice, d} /\ Busy(lease[v], v))

\* The payment is reported: it enters the local ledger.
Answered(d) ==
    /\ ledger' = [ledger EXCEPT ![d] = @ + Reward]
    /\ device' = [device EXCEPT ![d] = Next_(d)]

\* paySpark: prepareSend fails, or executeSend returns a payment, or it throws
\* although the transfer may have gone through. It is paid twice when the lease
\* came too late.
PaySpark(d) ==
    /\ rail = "spark" /\ device[d].step = "leased"
    /\ \/ /\ Step(d, "fail")
          /\ UNCHANGED <<paid, recent, mishaps>>
       \/ \E moved, answered \in BOOLEAN :
             /\ answered => moved
             /\ Step(d, IF answered THEN "paid" ELSE "check")
             /\ paid' = [paid EXCEPT ![device[d].of] = IF moved THEN @ + 1 ELSE @]
             /\ recent' = (recent \/ moved)
             /\ Mishap(moved /\ (~answered \/ view[device[d].of].status # "queued"))
    /\ UNCHANGED <<campaign, books, server, keys, ledger, invoices, settled, editing>>

\* findRecentSparkSend takes any transfer of this amount, another viewer's too; it
\* finds none when the list cannot be read.
LookForSend(d) ==
    /\ device[d].step = "check"
    /\ \/ recent /\ Step(d, "resend") /\ Mishap(paid[device[d].of] = 0)
       \/ Step(d, "fail") /\ Mishap(paid[device[d].of] > 0 /\ view[device[d].of].status # "sent")
    /\ UNCHANGED <<campaign, books, server, keys, ledger, invoices, recent, wallet, editing>>

TwoMinutesPass ==
    /\ recent
    /\ recent' = FALSE
    /\ UNCHANGED <<campaign, books, server, keys, device, ledger, invoices, wallet, editing, mishaps>>

\* resolve_payout_invoice looks at the row again. An invoice that is still cached
\* from an earlier claim is handed out, and the row does not know it.
Resolve(d) ==
    LET v == device[d].of
        invoice == IF cached[v] # 0 THEN cached[v] ELSE invoices + 1 IN
    /\ rail = "lnurl" /\ device[d].step = "leased"
    /\ RowFree(v)
    /\ IF view[v].status = "queued"
       THEN /\ device' = [device EXCEPT ![d].step = "resolved", ![d].invoice = invoice]
            /\ IF cached[v] # 0
               THEN UNCHANGED <<invoices, cached, view>>
               ELSE /\ invoices' = invoice
                    /\ cached' = [cached EXCEPT ![v] = invoice]
                    /\ view' = [view EXCEPT ![v].invoice = invoice]
       ELSE Step(d, "fail") /\ UNCHANGED <<invoices, cached, view>>
    /\ Mishap(view[v].status = "queued" /\ cached[v] # 0 /\ \E e \in Devices : device[e].of = v /\ Deleting(e))
    /\ UNCHANGED <<campaign, spent, earned, server, lease, ledger, recent, wallet, editing>>

InvoiceForgotten(v) ==
    /\ cached[v] # 0
    /\ cached' = [cached EXCEPT ![v] = 0]
    /\ Mishap(\E d \in Devices : Busy(d, v))
    /\ UNCHANGED <<campaign, books, server, lease, device, ledger, invoices, recent, wallet, editing>>

\* payLnurl once the invoice is known: one that was paid before is only
\* reported. Without a preimage the browser goes on to the next item.
PayInvoice(d) ==
    LET invoice == device[d].invoice IN
    /\ device[d].step = "resolved"
    /\ \E moved, answered, proof \in BOOLEAN :
          /\ invoice \in settled => ~moved
          /\ settled' = IF moved THEN settled \cup {invoice} ELSE settled
          /\ paid' = [paid EXCEPT ![device[d].of] = IF moved THEN @ + 1 ELSE @]
          /\ Mishap(moved /\ ~(answered /\ proof))
          /\ IF invoice \in settled' /\ answered
             THEN device' = [device EXCEPT ![d] = IF proof THEN [@ EXCEPT !.step = "paid"] ELSE Next_(d)]
             ELSE Step(d, "fail")
    /\ UNCHANGED <<campaign, books, server, keys, ledger, invoices, recent, editing>>

\* A preimage fits the invoice on the row; a transfer id is only written down.
ProofFits(v, invoice) == rail = "spark" \/ (invoice # 0 /\ view[v].invoice = invoice)

\* (faulty variant: a second report of the same payout counts again)
CompleteSentTwice(v, invoice) == ProofFits(v, invoice) /\ Credit(v)

\* complete_payout with result 'sent', up to its commit; a refused proof changes
\* nothing.
CompleteSent(v, invoice) ==
    IF view[v].status # "sent" /\ ProofFits(v, invoice) THEN Credit(v) ELSE UNCHANGED books

Accepted(v, invoice) == view[v].status = "sent" \/ ProofFits(v, invoice)

\* complete_payout with any other result
CompleteFailed(v) == IF view[v].status # "sent" THEN Fails(v) ELSE UNCHANGED books

\* After its commit complete_payout deletes the lease and then the invoice.
Forget(v) ==
    /\ lease' = [lease EXCEPT ![v] = NoDevice]
    /\ cached' = [cached EXCEPT ![v] = 0]

\* reportSent: the call may be lost, or its answer, or the server refuses the
\* proof; then a Spark payer looks for the transfer again, once, and everything
\* else ends in a report of failure. Who gets his answer has waited for the
\* deletes; when the answer is lost they are taken with the commit.
ReportSent(d) ==
    LET v == device[d].of
        changed == view[v].status # "sent" /\ ProofFits(v, device[d].invoice) IN
    /\ device[d].step \in {"paid", "resend"}
    /\ \E delivered, answered \in BOOLEAN :
          /\ delivered => RowFree(v)
          /\ IF delivered THEN CompleteSent(v, device[d].invoice) ELSE UNCHANGED books
          /\ IF delivered /\ changed /\ ~answered THEN Forget(v) ELSE UNCHANGED keys
          /\ Mishap(~(delivered /\ answered))
          /\ IF delivered /\ answered /\ Accepted(v, device[d].invoice)
             THEN IF changed
                  THEN Step(d, "sent") /\ UNCHANGED ledger
                  ELSE Answered(d)
             ELSE /\ UNCHANGED ledger
                  /\ Step(d, IF rail = "spark" /\ device[d].step = "paid" THEN "check" ELSE "fail")
    /\ UNCHANGED <<campaign, server, invoices, recent, wallet, editing>>

\* reportFailed: tried again when the call is lost, or given up.
ReportFailed(d) ==
    LET v == device[d].of IN
    /\ device[d].step = "fail"
    /\ \/ /\ RowFree(v)
          /\ CompleteFailed(v)
          /\ device' = [device EXCEPT ![d] = IF view[v].status = "sent" THEN Next_(d) ELSE [@ EXCEPT !.step = "failed"]]
          /\ UNCHANGED mishaps
       \/ /\ UNCHANGED books
          /\ device' = [device EXCEPT ![d] = Next_(d)]
          /\ Mishap(TRUE)
    /\ UNCHANGED <<campaign, server, keys, ledger, invoices, recent, wallet, editing>>

\* The deletes of complete_payout, whoever holds the lease by now
DeleteLease(d) ==
    /\ device[d].step \in {"sent", "failed"}
    /\ LeaseLost(device[d].of, d)
    /\ Step(d, IF device[d].step = "sent" THEN "sentUnleased" ELSE "failedUnleased")
    /\ UNCHANGED <<campaign, books, server, ledger, invoices, cached, recent, wallet, editing>>

DeleteInvoice(d) ==
    /\ device[d].step \in {"sentUnleased", "failedUnleased"}
    /\ cached' = [cached EXCEPT ![device[d].of] = 0]
    /\ IF device[d].step = "sentUnleased"
       THEN Answered(d)
       ELSE UNCHANGED ledger /\ device' = [device EXCEPT ![d] = Next_(d)]
    /\ UNCHANGED <<campaign, books, server, lease, invoices, recent, wallet, editing, mishaps>>

\* The tab is closed. A call that has committed is carried through.
DeviceDies(d) ==
    /\ device[d].step # "idle"
    /\ device' = [device EXCEPT ![d] = [step |-> "idle", todo |-> {}, seen |-> 0, of |-> NoViewer, invoice |-> 0]]
    /\ lease' = IF device[d].step \in {"sent", "failed"} THEN [lease EXCEPT ![device[d].of] = NoDevice] ELSE lease
    /\ cached' = IF Deleting(d) THEN [cached EXCEPT ![device[d].of] = 0] ELSE cached
    /\ Mishap(TRUE)
    /\ UNCHANGED <<campaign, books, server, ledger, invoices, recent, wallet, editing>>

LeaseExpires(v) ==
    /\ lease[v] # NoDevice
    /\ LeaseLost(v, NoDevice)
    /\ UNCHANGED <<campaign, books, server, device, ledger, invoices, cached, recent, wallet, editing>>

-----------------------------------------------------------------------------
(* Whole-row saves of old copies *)

NoView == [status |-> "none", fresh |-> FALSE, clicked |-> FALSE, invoice |-> 0]

NoClick == [step |-> "idle", of |-> NoViewer, copy |-> NoView, seen |-> 0]

\* A bound: one such save is in progress at a time, and one view is clicked.
NobodySaves == click = NoClick /\ edit = -1

\* record_ad_click reads the view without a lock,
ClickRead(v) ==
    /\ NobodySaves /\ \A u \in Viewers : ~view[u].clicked
    /\ view[v].status # "none"
    /\ click' = [step |-> "read", of |-> v, copy |-> view[v], seen |-> 0]
    /\ UNCHANGED <<campaign, books, server, browsers, wallet, edit, mishaps>>

\* saves all of it and loads the campaign in one transaction,
ClickLock ==
    /\ click.step = "read"
    /\ click' = [click EXCEPT !.step = "locked", !.seen = spent]
    /\ UNCHANGED <<campaign, books, server, browsers, wallet, edit, mishaps>>

\* and saves all of the campaign.
ClickCommit ==
    /\ click.step = "locked"
    /\ view' = [view EXCEPT ![click.of] = [click.copy EXCEPT !.clicked = TRUE]]
    /\ spent' = click.seen
    /\ Mishap(view[click.of] # click.copy \/ spent # click.seen)
    /\ click' = NoClick
    /\ UNCHANGED <<campaign, earned, server, browsers, wallet, edit>>

\* update_campaign, when it leaves reward and budget alone
EditRead ==
    /\ NobodySaves
    /\ edit' = spent
    /\ UNCHANGED <<campaign, books, server, browsers, wallet, click, mishaps>>

EditSave ==
    /\ edit # -1
    /\ spent' = edit
    /\ Mishap(spent # edit)
    /\ edit' = -1
    /\ UNCHANGED <<campaign, view, earned, server, browsers, wallet, click>>

-----------------------------------------------------------------------------
Init ==
    /\ rail \in Rails /\ budget \in Budgets
    /\ view = [v \in Viewers |-> NoView]
    /\ spent = 0
    /\ earned = [v \in Viewers |-> 0]
    /\ claims = 0
    /\ thread = [h \in Threads |-> [of |-> NoViewer, step |-> "idle"]]
    /\ lease = [v \in Viewers |-> NoDevice]
    /\ device = [d \in Devices |-> [step |-> "idle", todo |-> {}, seen |-> 0, of |-> NoViewer, invoice |-> 0]]
    /\ ledger = [d \in Devices |-> 0]
    /\ invoices = 0
    /\ cached = [v \in Viewers |-> 0]
    /\ settled = {}
    /\ recent = FALSE
    /\ paid = [v \in Viewers |-> 0]
    /\ click = NoClick
    /\ edit = -1
    /\ mishaps = 0

ServerStep(h) == Pay(h) \/ Record(h) \/ WorkerDies(h)

DeviceStep(d) ==
    \/ Fetch(d) \/ (\E v \in Viewers : TakeUp(d, v)) \/ TakeLease(d) \/ PaySpark(d) \/ LookForSend(d)
    \/ Resolve(d) \/ PayInvoice(d) \/ ReportSent(d) \/ ReportFailed(d)
    \/ DeleteLease(d) \/ DeleteInvoice(d) \/ DeviceDies(d)

ViewStep(v) == Claim(v) \/ GrowsStale(v) \/ InvoiceForgotten(v) \/ LeaseExpires(v) \/ ClickRead(v)

Next ==
    \/ \E v \in Viewers : ViewStep(v)
    \/ \E h \in Threads : ServerStep(h)
    \/ \E d \in Devices : DeviceStep(d)
    \/ TwoMinutesPass \/ ClickLock \/ ClickCommit \/ EditRead \/ EditSave

Spec == Init /\ [][Next]_vars

-----------------------------------------------------------------------------
(* Properties *)

\* Nobody is shown a reward as paid, or credited with it, whose sats never left
\* the wallet ("spent/earned move only on 'sent', and 'sent' from a browser needs
\* proof"), whatever is lost, late, retried or overwritten.
SentMeansPaid ==
    \A v \in Viewers : view[v].status = "sent" \/ earned[v] > 0 => paid[v] > 0

\* Where 'sent' rests on the answer of a wallet or on a preimage. A transfer id
\* proves nothing.
ProvenMeansPaid == rail # "spark" => SentMeansPaid

\* "Idempotent for repeated 'sent' reports": no single lost call, crash, late answer
\* or overwritten row makes a viewer earn more than was paid.
EarnedWithinPaid ==
    mishaps <= 1 /\ rail # "spark" => \A v \in Viewers : earned[v] <= Reward * paid[v]

\* "View tracking prevents duplicate payments": with any number of tabs, request
\* threads, browsers and retries in any order, a view is paid once, and where a
\* failure is retried blindly (a claim that looked dead, a lease that came late or
\* was lost, a report that did not arrive) each such mishap costs at most one more
\* payment. On the rail "lnurl" the bound is shown as long as nothing goes wrong:
\* there one mishap may cost two, for a refused proof ends as a failure.
PaidOnce == rail # "lnurl" \/ mishaps = 0 => \A v \in Viewers : paid[v] <= 1 + mishaps

\* "budget_sats is a ceiling on the advertiser's wallet": claimers of the last
\* reward do not pass together, on either rail, and a mishap (a payment credited
\* late, an old copy saved over the row) carries at most one reward over it.
CeilingHolds == spent + Reward * Cardinality(InFlight) <= budget + Reward * mishaps

Recorded ==
    /\ \A h \in Threads : thread[h].step = "idle"
    /\ \A d \in Devices : device[d].step \in {"idle", "list", "asked"} \/ Deleting(d)

\* "Totals move exactly once": when every outcome has been recorded, what a viewer
\* earned is what he was paid, give or take one reward for each lost call, crash,
\* late answer or lease, and overwritten row (on the rail "lnurl", as long as there
\* was none). Until then exactly the views that are 'sent' have been paid, and the
\* campaign has spent one reward for each of them.
BooksExact ==
    Recorded =>
        /\ rail # "lnurl" \/ mishaps = 0 =>
              \A v \in Viewers : /\ earned[v] <= Reward * (paid[v] + mishaps)
                                 /\ Reward * paid[v] <= earned[v] + Reward * mishaps
        /\ mishaps = 0 =>
              /\ \A v \in Viewers : paid[v] > 0 <=> view[v].status = "sent"
              /\ spent = Reward * Cardinality({v \in Viewers : view[v].status = "sent"})
=============================================================================
