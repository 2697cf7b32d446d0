# Parahub in TLA+

Parahub is a Django platform (PostgreSQL, Redis, Neo4j, WebSockets) on which
people vote, lend, trade, ship and certify things with each other. This
directory models the parts of it where concurrent requests share state that
must stay right: polls and opinion polls, debts, shipments, the payouts of ads,
mesh passes, the election of guest gateways, and the anchoring of audit events.
Every definition is translated from the code; `PROJECT.json` gives the lines.

## The system

### How a request runs

The settings neither wrap requests in transactions nor raise PostgreSQL's
isolation level. A handler is therefore a sequence of statements at READ
COMMITTED, each committed at once unless the handler opens
`transaction.atomic()`. Several uvicorn workers and the timers run at the same
time. What a handler read before it took a row lock, or without one, may be old
when it writes. Side effects (Redis, Neo4j, WebSockets, push) are sent after
the commit, from `transaction.on_commit` or from the thread pool of
`parahub/background.py`, which drops tasks when it is full and loses them when
the process dies. These are the hazards of almost every component, and the
steps of the models are cut where they bite: at the reads before a lock, at the
lock, at the commit, at each message sent after it.

### Inventory

| component | state | operations | what makes it hard | what makes it correct |
|---|---|---|---|---|
| governance: identified polls (`governance/services.py`, `api.py`, `governance_tick`) | poll status, ballots, per-poll delegations, hash-chained log, final root | vote, delegate, revoke, end, finalize, count | check-then-write on two tables, a lock one handler does not take, closing during votes, bounded walks | one voice each, no circles, a linear log, a root that covers the ballots, counts that follow the chains |
| governance: opinion polls (`civic.py`, `civic_delegation.py`, `civic_api.py`) | pseudonymous rows, Redis aggregates, standing delegations, consent, frozen results | vote and vote again, ask/accept/decline/revoke, recompute, recount, erase, freeze and purge | reads before the lock, writes to Redis after the commit, erasure in many transactions, late threads | own votes win, nobody is spoken for unasked, aggregates are sums of rows, erased and purged votes stay away |
| governance: ideas (`civic_api.py`) | ideas, supporters, promoted polls | support, report, promote, reject | threshold reached twice, reject against promote | an idea becomes at most one poll |
| debts (`debts/`) | debt row, repayments, copy in Neo4j | create, confirm, reject, repay, graph jobs | unlocked whole-row saves, jobs in any order | the books balance, status fits amount, graph fits debt |
| barter (`barter/`) | Neo4j graph, exchanges, approvals | sync, find chains, propose, approve | graph lags the rows, concurrent approvals | an exchange completes only when all approve |
| shipments (`parahub/endpoints/shipments.py`, `logistics/`) | shipment status and hub, offers, events | deposit, offer, accept, complete, arrive, ready, pick up, cancel, expire | no row locks, requests act on what they read, an expiry job in two transactions | the log tells the status, a parcel under way has a carrier, an uncollected one is expired |
| tickets (`tickets/`) | tickets, sold counter | purchase, confirm, validate online and offline, refund | capacity checked early and counted late, double confirm, refund against scan | counter fits tickets, one payment per ticket, no use after refund |
| contracts (`parahub/endpoints/contracts.py`, `contracts/`) | contract, marks of both parties, verdict, reviews | sign, cancel, complete, arbitrate, escalate, judge | whole-row saves of unlocked copies | both marks complete it, signed is not cancelled |
| finance (`finance/`) | subscriptions, payments | start or renew, cancel, daily lapsing | renewal against the daily job, replayed reports | paid time is never taken away |
| mesh pass (`iot/mesh_pass.py`, `iot/api/mesh.py`) | expiry, credits, bound devices, fast clients of a router | invoice, poll, expire, renew, bind, unbind, list | concurrent polls and heartbeats, `now` older than the lock, SSH calls and answers lost or late | a payment is credited once, no day is taken back, the limit of devices, speed follows the pass |
| guest gateway (`iot/api/mesh.py`) | reports of nodes, cached designation, role of each node | report, elect, tell | islands split and merge, elections overlap, cache and nodes forget at different times | one terminator per island when the world stands still |
| ads (`parahub/endpoints/ads.py`, `frontend/composables/useAdsPayer.ts`, `ads/`) | campaign, views, earnings, leases, invoices, ledgers of browsers | claim, pay, record, lease, resolve, report, click, edit | payment outside the transaction, several browsers, lost and repeated reports, whole-row saves | budget never overspent, no view paid twice, nobody credited unpaid |
| rental | bookings | book, cancel, block | pre-check against constraint | no double booking (exclusion constraint) |
| treasury | allocations, epochs, log | allocate, freeze, log | log without a lock | linear log, epochs are final |
| audit log, OpenTimestamps (`audit_log/`) | proofs, batches, two git repositories, stamps | create, batch, stamp, sweep, upgrade, verify, push | a crash between git, tool and row; locks of dead processes | a batch holds its events, every proof is anchored, nothing stays uncommitted |
| identity, core, oidc_provider | profiles, verifications, moderation | verify, recover, sign in | counts read as gates | gates read current facts |
| rides, presence, transit, WebSockets, federation, iot, geo, voice, cms, parasos, market, energy, notifications, taxonomy, currency, support_kb, psy | caches, devices, content, reference data | many | best effort | – |
| frontend, infrastructure | – | – | – | – |

Calls between them: all use `identity` for eligibility; debts and market push
jobs to the barter graph; barter exchanges create contracts; governance,
debts and contracts feed the audit log; rental bookings may become contracts;
ads and finance credit payments; everything notifies.

## The modules

| module | models | checked by | proved in |
|---|---|---|---|
| `PollTally` | walks along delegations: the check of a new one, resolution, counting | through `PollCount` | lemmas in `PollsProofs`, `CivicPollProofs` |
| `PollCount` | every graph and ballot box that votes, delegations and revocations produce, and how it is counted | `MCPollTally` | `CivicPollProofs` |
| `Polls` | one identified poll (extends `PollTally`) | `MCPolls` | `PollsProofs` |
| `CivicPoll` | one opinion poll (extends `PollTally` for the walks) | `MCCivicPoll` | `CivicPollProofs` |
| `Debts` | one debt, its row in the barter graph, the pool's jobs | `MCDebts` | `DebtsProofs` |
| `Shipments` | one parcel, its offers, its log, the expiry job | `MCShipments` | `ShipmentsProofs` |
| `Payouts` | the rewards of one campaign: server, browsers, wallets, books | `MCPayouts` | `PayoutsProofs` |
| `PassLedger` | abstract: what a mesh pass promises | through `MeshPass` | – |
| `MeshPass` | passes, invoices, devices, heartbeats; implements `PassLedger` | `MCMeshPass` | `MeshPassProofs` |
| `GuestGateway` | the election of an island's terminator | `MCGuestGateway` | `GuestGatewayProofs` |
| `Anchoring` | the two jobs that anchor audit events | `MCAnchoring` | `AnchoringProofs` |

Definitions marked *(faulty variant: ...)* are plausible mistakes in the code
below them; replacing the definition by its variant must break a property, and
`PROJECT.json` says which. They are used nowhere else.

### Polls

A request is *read* (the handler has loaded the poll and tested its status), *tx*
(it has opened its transaction) or idle. `OpenVote` and `OpenDelegate` stand
for `select_for_update`, the checks of `VotingService`, and the read of the last log
entry; `CommitVote` and `CommitDelegate` make the rows visible. While such a
transaction is open nobody else gets the row (`PollRowFree`): neither another
request, nor the `UPDATE`s of the closers, nor, at its commit, a revocation,
whose log row refers to the poll by a foreign key that is checked then. But
`revoke_delegation` reads the last entry without that lock, which is what
`polls_chain` shows.

The hashes are abstracted to the identity of the entry: an entry has an `id`,
the order of its timestamp, and the `prev` it was chained to. `Closers` are page
reads, `_maybe_update_poll_statuses` and `governance_tick`: each reads the list
of overdue polls, updates them, and runs `finalize_poll`, in steps of their
own; any of them may die in between.

### PollTally, PollCount

The loops that follow delegations are functions `w[0 .. MaxChain]`: where the walk
is after each round. `Walks(g, v)` contains exactly one. The loop of
`check_can_delegate` succeeds when the walk has got to somebody without a
delegate; `resolve_delegations` takes the profile where the walk stopped unless
it has been there before. In simple mode every counted profile weighs 1;
`CountedFor` is the set of profiles counted for an option. `PollCount` adds the requests, one after
the other, that build a graph and a ballot box, and states what the loops ought to compute in terms
that contain no loop: `OnChain`, the least set closed under delegation, and `Acyclic`.

### CivicPoll

All writers of vote rows hold the poll's row lock from the first statement of
their transaction to the last, so a transaction is one step. Steps of their own
are: the gates and the cooldown before it (`CastRead`), the Redis delta after it
(`Delta`), the reads of `recompute_poll_materialization` before it
(`ComputeRead`), and the two halves of `recount_poll` (`CountRead`, `CountStore`).
A worker thread carries what it has read in its record. `row[v].via` is
`via_delegation`; `agg` is the Redis hash `counts`. Three history variables serve
the properties: `voice`, whose ballot a delegated row repeats; `agreed`, to whom accepted delegations
have ever passed on each profile's voice; and `alone`, which turns false when two
threads overlap, one dies, or a delegate declines.

`end_time` passes (`EndTimePasses`) before a tick or a page ends the poll (`End`). In between
`check_can_opinion_vote` shuts its gate for everybody (`InTime`), so nobody votes and a
recompute, which asks the same gate, expects no delegated row at all. The purge comes 30 days after the end, so it begins only
when no vote or recompute from before the end is still running, while
erasures, which look at ended polls too, may overlap it.

### Debts

`Begin` is the handler's read of the row and its checks; `Confirm`, `Reject` and `Repay`
are the write, the signal handlers and the commit. `confirm_debt` writes every
column of the copy it holds; `DebtRepayment.save` subtracts in the database and
reads the row again. Each queues jobs for the pool: `SyncJob` decides by the saved
object whether the node is to be deleted, `FetchAfterRepayment` by the row as it
reads it. Jobs run in any order and may be lost. The parties may be the same
profile in the code; the model keeps them apart, as two names for its requests.
`calm` is the history variable that says nothing overlapped and nothing was lost.

### Shipments

No endpoint locks the row. `Begin` is a handler's query: its filter on status, hub and
offer (`Finds`). The action named after the handler is everything from its first
save to its commit; it writes only the columns the code names, over whatever
the row has become. `PutDown` is shared by the hub's confirmation and the
carrier's completion. `expire_shipments` lists, saves and logs in three
steps (`ListOverdue`, `SaveExpired`, `LogExpired`) and may die between them. Time is one
bit, `overdue`. Offers lead to the destination: the model has one leg.

### Payouts

`rail` says who pays. On `server`, `Claim` is the first transaction of
`record_ad_view` (campaign and view locked), `Pay` the call of the advertiser's
wallet, `Record` the second transaction. On `spark` and `lnurl` the claim is queued;
a browser runs `processQueue` of `useAdsPayer.ts` from a list it fetched once
(`Fetch`, `TakeUp`, `TakeLease`, `PaySpark` or `Resolve` and `PayInvoice`,
`ReportSent`, `ReportFailed`), against `lease_payout`, `resolve_payout_invoice` and
`complete_payout` on the server. `TakeUp` goes as far as the look of `lease_payout` at the row, `TakeLease` is
the `cache.add` after it: the row may have been paid, have failed or have been claimed again in between. A report is
committed (`ReportSent`, `ReportFailed`), then the lease and the invoice are deleted one by one (`DeleteLease`,
`DeleteInvoice`). Wallets are external: a payment may go through
and be answered by an error. `ClickRead`, `ClickLock`, `ClickCommit` and `EditRead`, `EditSave`
are the two handlers that save whole rows they read before. `mishaps` counts what
went wrong: deaths, lost calls, late answers, leases that came too late and pay again, leases and invoices that
expire under a running payment, rows overwritten by an old copy.
`Resolve` reads and updates the view in one step, although the resolution of the
address lies between; a claim in between would need the view to have failed first.

### PassLedger and MeshPass

`PassLedger` has five variables and four actions: time passes, an invoice is
paid, a paid invoice is credited once, a pass that runs low is renewed. `MeshPass` has
the handlers. A transaction that uses `select_for_update` is two actions, one that
takes the lock and reads (`LockCredit`, `LockPass`, `LockForRenewal`, `LockForBind`) and one that
writes and commits (`Extend`, `Renew`, `Bind`), with `PassLocked` and `CreditLocked` in between. Each
actor remembers the clock it read on arrival, which may be days old when it
writes; that is why `PassLedger!Credit` and `Renew` choose a time `t` up to today. The
refinement maps the credited invoices to those whose row is `APPLIED`; everything else has
the same name. Django's `save` of a row that was deleted inserts it again (`Bind`),
and the keys of rows tell it from a row somebody else made (`FreshIds`).
`speed` is what the terminating router lets through; it is replaced by the list in
each heartbeat's answer, and changed at once over SSH when a device is bound or removed.

### GuestGateway

A heartbeat saves its report (`Beat`), reads the fleet and the cache (`Elect`), caches
and answers (`Tell`). `air` is the true partition into islands, `report` what the
server was told; `IslandOf` is the union-find of `_compute_islands` as a least closed
set. `round` is a history variable that counts complete rounds of answers since the
world or the overlap of elections last disturbed them. A node that loses the server keeps its role, and keeps
it on the air: such a terminator (`Stranded`) may stand beside the one that is elected among the nodes that still report, so
`OneTerminator` counts the two apart.

### Anchoring

`StampStep` is `batch_ots_stamp`, `CheckStep` is `verify_ots_batches`, one action for
each place where a death leaves something different behind: after a file, an add, a
commit, the stamp, the row, the push. Both take at most a number of files or batches, oldest first (`Limit`,
`CheckLimit`; 500 and 20 in the code). A git repository is a working tree, an
index, a list of commits, and `index.lock`. The versions of a public file are ordered: hash
only, pending stamp, complete stamp. `StampDies`, `CheckDies`, `OtsFails`, `StampGitFails`, `CheckGitFails` are
the faults, at any step, at most `MaxFaults`. A file is written as a whole. `OthersCommit` is the keyring, which commits the
whole index and clears a stale lock before.

## The runs

All bounds count operations; they are guards of actions and named constants.

| run | shows | bounds |
|---|---|---|
| `polls` | `OneVoice`, `NoCircle`, `LockedEntriesNeverFork`, `RootCoversBallots`, `BallotsFixedAfterEnd`, `OverduePollEnds` | 3 voters, 2 requests at once, 1 closer, 4 log entries |
| `tally` | `TallyFollowsChains`, `DelegationCheckIsExact` | 4 voters, 2 options, chains of at most 2 |
| `civic` | `OwnVotesWin`, `NoVoiceWithoutAgreement`, `PurgedForGood`, `RowsFollowDelegations`, `AggregatesExact`, `WithdrawnIsErased` | 3 voters, 2 options, 2 threads, 3 requests, every set of earlier delegations |
| `debts` | `StatusMatchesRemaining`, `NothingForgiven`, `GraphMatchesDebt` | 2 handlers, amount 2, 3 requests |
| `shipments` | `TimelineTellsStatus`, `CarriedBySomebody`, `OverdueIsCleared` | 2 hubs, 2 offers, 2 requests at once, 5 events |
| `payouts` | `ProvenMeansPaid`, `EarnedWithinPaid`, `PaidOnce`, `CeilingHolds`, `BooksExact` | all three rails, 2 viewers, 2 threads, 2 browsers, budgets of 1 and 2 rewards, 2 claims, 1 mishap |
| `mesh_pass` | `DeviceLimitHolds`, `KeepsLedger` (refinement) | 1 profile, 1 invoice, 2 devices where 1 is allowed, 2 requests, 2 nodes, 2 days |
| `mesh_speed` | `SpeedFollowsPass` | 2 profiles, 1 device, 2 requests, 1 node, 3 days |
| `guest_gateway` | `SettledInTwoRounds` | 3 nodes, one with old firmware, one without VPN, every partition, 2 heartbeats at once, 1 change |
| `anchoring` | `BatchHoldsItsEvents`, `EventuallyAnchored`, `NothingLeftBehind` | 2 proofs with files of their own, stamped together or apart, 1 batch checked in a run, 1 fault |
| `polls_chain` | finding: the log forks | as `polls`, 5 entries |
| `payouts_unpaid` | finding: a reward is credited that nobody paid | as `payouts`, rail `spark`, 3 claims |

Every passing run also checks the `TypeOK` of its module, except `tally` and `mesh_speed`, a second
instance of `MeshPass`.

Why these bounds: three voters are the least for a chain of two delegations and
a circle of three, four for a chain longer than a maximum of two; the code's
maximum is 10 and only its relation to the length of chains matters. Two
requests make every race of two; with the creation entry, four log entries leave
room for two requests that commit and a third that finds the poll closed. Amount 2 has a
partial repayment and a complete one. Three requests for the opinion poll allow
accept–vote–vote, vote–revoke–erase and the like, on top of delegations that are
older than the poll. Five shipment events take a parcel from creation through
deposit, pickup and arrival to delivery or expiry while a late writer
overwrites one of them. A budget of one reward makes two claimers compete for it; two claims
are one of each viewer, or a failure and its retry, which is where a late lease or a late report meets a new claim. `EarnedWithinPaid` is about one mishap. One
fault at any step, then runs without one, is a recovery from every point of both
jobs; more faults only repeat it, and the proofs bound neither faults nor mishaps. One
change of the world disturbs an election at every step, from every
initial partition; three nodes have islands of one, two and three.
Systems that serve a bounded number of requests stop, so deadlock is not
checked, except in `anchoring`, whose timers never stop.

Some properties are stated for requests that do not overlap
(`RowsFollowDelegations`, `AggregatesExact`, `WithdrawnIsErased`,
`GraphMatchesDebt`): the code gives no order to overlapping ones and
repairs the difference with the next recompute or recount, or not at all.
`PaidOnce`, `CeilingHolds` and `BooksExact` say what a mishap may cost: a view is paid once and at most once more
for each mishap, what is spent or in flight passes the budget by at most a reward for each, and once every
outcome is recorded at most a reward for each lies between what a viewer earned and was paid. Without a mishap, in every order of
viewers, threads, tabs and retries, nothing is lost. On the rail `lnurl`
the first and the third are stated without mishaps only: a forgotten invoice and the refused proof it leads to
cost two payments. `RowsFollowDelegations` promises a vote to those who delegated until `end_time`; from then until the tick it
promises only that no other vote stands there. `SettledInTwoRounds` leaves out terminators that lost the server. The others
hold for every interleaving, crash and loss of their model.

### Fairness

`polls`: a transaction that is open
commits or rolls back (weak fairness of the commit or `GiveUp`: a database
connection does not hold a lock for ever); some closer looks for overdue polls
again (weak fairness of `CloserRead`: `governance_tick` runs on a timer every 15
to 60 minutes, and every page read of the poll does the same); and its `UPDATE`
gets the row when the row is free again and again (strong fairness of
`CloserEnd`: PostgreSQL queues waiters for a row lock). Nothing says that a
closer does not die, nor that requests stop coming: they end because
the checks refuse them once the poll is overdue. The code does not promise more: a worker that dies between
the status update and `finalize_poll` leaves the poll without a root for ever.

`shipments`: the command is started by a timer and ends (weak fairness of `JobStep`), and
not every run dies before this row (strong fairness of `SaveExpired`).

`mesh_speed`: transactions end; the terminator beats every five minutes (weak
fairness of `Beat` and `List`), gets the row lock in the end, and not all of its answers are lost
(strong fairness of `LockForRenewal` and `Reply`). Requests and SSH calls owe nothing. The
property asks besides that the terminator's heartbeats are cut short only finitely often, since a
process that dies in each of them never answers.

`anchoring`: both jobs keep being started and each of their steps is taken or fails (weak fairness
of `StampStep` and `CheckStep`: systemd timers, subprocess timeouts), and a lock
nobody holds grows old (`LockAges`). Faults are bounded, so runs succeed at last.

## Findings

1. `polls_chain`: `revoke_delegation` does not lock the poll, so its entry may share
   its predecessor with another one; `verify_merkle_chain` then calls the log invalid,
   and `finalize_poll` only logs a warning.
2. `payouts_unpaid`: when `executeSend` throws, `findRecentSparkSend` takes any Spark
   transfer of the same amount in the last two minutes for the missing one. With
   one reward per campaign, the transfer to the viewer before has that amount.
   The view becomes `sent`, its viewer is credited, and is never paid.

Disagreements between the code and what is said about it, met while modelling
and confirmed with the models, which no run of this project keeps:

- governance: a revocation that read the poll before its end commits after it
  (`api.py:941`, against the comment at 940). The length check walks forward only, so a chain
  grows beyond the maximum from its far end and loses votes (`services.py:395`,
  against 13). A vote for the option the delegate has already cast returns early and stays
  the delegate's (`civic.py:196`, against `docs/modules/governance.md:69`). Voting does not override
  a per-poll delegation: `check_can_vote` refuses it (`governance.md:23`). A vote cannot be changed:
  `cast_vote` refuses a second one (against `governance.md:14`, "Vote can be changed until poll closes").
- opinion polls: between `end_time` and the tick that ends the poll, a recompute finds the gate of every delegator
  shut and deletes all delegated rows as stale (`civic_delegation.py:118` to 144 with `civic.py:144`, against
  `civic_delegation.py:7`, "correct under any sequence"). No later recompute brings them back, since only active polls
  are recomputed: the final counts lack every delegated vote. Any revocation or acceptance of a participant in that window
  is enough.
- debts: a partial repayment activates a debt its debtor has not confirmed (`models.py:237`,
  against `docs/modules/debts.md:14`). `confirm_debt` undoes a repayment that commits while it
  runs; `version` is counted and never compared (`api.py:350`, against `models.py:227`).
  Clearing through cycles is documented and has no code.
- shipments: accepting an offer does not look at the shipment, so a parcel that has been
  delivered or has expired is in transit again.
- ads: `lease_payout` looks at the row and then adds the lease (`ads.py:1685` and 1686). A browser that looked before another one
  reported and deleted its lease gets a lease for a view that is paid, and on Spark pays it again; if the other one
  reported a failure and somebody else claimed, the late payment passes the ceiling (against `ads.py:1679`, "makes sure only one of them
  pays"). Lease and invoice are deleted one after the other (1792 and 1793), so a browser that takes the lease in
  between may be handed the invoice of an earlier claim. A payout reported as failed frees its reservation and may still turn to `sent`, which
  passes the ceiling. `record_ad_click` and `update_campaign` save `spent_sats` as they read it. A
  report of success that is lost, followed by a report of failure, pays the viewer twice.
- mesh: `expire_mesh_invoices` does not ask LNbits, so an invoice paid and not polled within an
  hour expires and is never credited; a poll that loses this race still answers `paid`. The cache
  key of an island is its smallest MAC, so a node with a smaller one that joins may change a gateway
  called sticky. A terminator that loses the server keeps its role until it hears otherwise, and is still heard on its
  island: with the one elected in its place there are two (against `mesh.py:203`, where terminating on exactly one node is to rule out the DHCP race).
- audit log: files that were added and not committed are neither untracked nor dirty, so the
  straggler sweep does not see them (`batch_ots_stamp.py:112`, `verify_ots_batches.py:87`). A death between
  the upgrade of a stamp and the save of its batch leaves `ots_proof` pending for ever. Two
  proofs of one object and day share a file, which holds the first one's data. A death inside
  `write_text` leaves an empty file that `exists()` keeps for good (`services.py:211`). The check takes the oldest 20
  unverified batches (`verify_ots_batches.py:44`), so batches that can never be verified keep newer ones from being looked at.

## The proofs

`tlapm` checks every step of the eight proof modules, for all values of the constants
that satisfy the assumptions they are declared with: any number of voters, options, requests,
offers, viewers, browsers, devices, nodes, proofs, faults and mishaps.

`PollsProofs`. The properties are not inductive: that a vote cannot meet a
delegation depends on what an open transaction has checked. `Inv` (in `Polls`) adds

- `RowLockInv`: at most one transaction holds the poll's row,
- `ChecksInv`: what it checked still holds, since everybody who could change it needs the row,
- `LogInv`: timestamps of entries and transactions are below the clock, and
  whoever holds the row has seen every entry written under it,
- `ClosingInv`: a poll being finalized is ended, overdue, and not locked; a root read by a
  closer covers the ballots. The lock is free and stays free: a transaction that
  opens finds the poll overdue and gives up.

There is a lemma per group of actions. From `Inv` follow `TypeOK`, `OneVoice`,
`LockedEntriesNeverFork`, `RootCoversBallots`, and `BallotsFixedAfterEnd` as
an action property. `NoCircle` needs `CircleInv` besides: the graph that
was checked is free of circles, and only revocations, which remove edges, come
between the check and the commit. Its core is the lemma that a walk which comes
to an end passes through no circle that the new delegation could close; the
induction over the walk is a least-element argument over its steps: the lemma
`LeastNatural`, which rests on `WellFoundedInduction`.

`CivicPollProofs`. A recompute writes what it read before it had the lock, so the invariant speaks of
what each thread still means to write: `AgreementInv` says that every profile on a chain in
force, the voice of every delegated row and every speaker a thread has found is one its delegator's voice was passed on to by accepted
delegations; the lemma `ExpectedIsAgreed` takes that from the walk. `PurgeInv` says that once a thread
is about to purge, no other is on its way to a vote, and that none sets out again:
the poll is ended, and casts and recomputes start in active polls only. From `Inv` follow
`NoVoiceWithoutAgreement` and `PurgedForGood`; `OwnVotesWin` is proved of every step that
writes rows (`OwnVoteStays`). That threads are done 30 days after the end is
an assumption of the model (`FreezeRead`), and so of the proof; voters are finitely many.

What holds only of requests that came one at a time needs a second invariant, `Calm`: while nothing
has overlapped, at most one thread is busy, and what it has read is still so (`JobInv`). Each kind of job is
allowed to unsettle one thing: the aggregates until they are recounted (`Unsummed`), the rows until they
are recomputed (`Unspread`); a withdrawal has ended its delegations before it erases the row, and
has erased the row before it recounts (`Leaving`, `Erased`). There is a lemma per action; `ActsAlone` and
`CalmAfter` carry what they share. From `Calm` follow `AggregatesExact`, `WithdrawnIsErased`
and, with the chain lemmas below, `RowsFollowDelegations`.

The same module extends `PollCount`, whose variables are other ones, and proves its two claims. Between requests the graph has no
chain longer than `MaxChain` and nobody both votes and delegates (`CountInv`). That a walk reaches
exactly `OnChain` would be an induction over the walk; instead the lemmas argue by the first step at which a
walk is somewhere it should not be, or meets a profile again (`LeastNumber`, from `WFMin`): `WalkOnChain`, that a walk which ends has visited
every profile on the chain once (`EndedWalk`), and that one which does not end either
circles or has more than `MaxChain` steps behind it (`EndlessWalk`).

`DebtsProofs`. `Inv` adds `CopiesInv` to the two properties: every copy a
handler holds was consistent when it was read, and what it says remains,
with all that has been repaid since, is at least the debt. Writing such a copy back therefore
forgives nothing. `GraphMatchesDebt` needs `CalmInv`: as long as no two handlers have overlapped and no job
was lost or outran the request after it, a busy handler is alone and finds the pool empty, and whatever job is
waiting will write what the graph ought to hold, so that their order does not matter.

`ShipmentsProofs`. `TimelineTellsStatus` and `CarriedBySomebody` with the types are
inductive: whatever a request read, it writes a status and the event that
announces it together, and whoever ends the last accepted offer also ends the transit.

`PayoutsProofs`. That a credit means a payment rests on what the parties know: a
thread that has `won`, a browser that is at `paid`, and a view that is or will be
overwritten by a copy with status `sent` all stand for a payment that has left
the wallet. On `lnurl` the chain is longer: a preimage belongs to an invoice that
is settled, an invoice to one view, and a settled one means its viewer was paid. These
parts are `ServerInv`, `BrowserInv`, `ClickInv`, `Owned`, `Resolved` and `SettledMeansPaid` of the
invariant in the proof module.

The books need more. `RailInv`: the rail decides who pays, so threads and browsers never work on the
same campaign. `CreditInv`: on the rail `server` a viewer's earnings and what winning threads will
still add stay within what was paid to him; on `lnurl`, an invoice that is settled and that somebody can still
report has been paid and not credited, which one mishap cannot undo and two can. From it follows
`EarnedWithinPaid`. `Exact`: while no mishap has happened, a thread or a browser at work
owns its view (by the row's status, or by the lease), knows whether it was paid, and what is spent is a
reward for each view that is `sent`. From it follow the ceiling without a mishap (`CeilingIsKept`) and the
exact half of `BooksExact`; sums over viewers are cardinalities, so viewers are finitely many.

With mishaps, `Bounded` counts for each view what has been paid and what may still be: on `spark`, payments, browsers that
may pay without holding the lease (`Loose`) and one more if the lease or the row allows it (`Payable`) are at most
one and the mishaps; on `server` the same of threads (`Paying`) and an open row. Every step moves one of the
terms into another, or is a mishap. `PaidOnce` follows. `Balanced` does it for the books: on `spark` a viewer's earnings are `n` rewards, where
`n` and a row that is not `sent` yet are at most one and the mishaps, less by one while nothing was paid; on
`server` the payments are at most the credits, the threads that won, and the mishaps. With `Bounded` and `CreditInv`
this is `BooksExact`.

`MeshPassProofs`. The invariant says that locks exclude each other and that what a lock
holder remembers is still true: the expiry it read, the status `PENDING`, the number of devices, the row of
the device or that it is gone. `LimitOfDevices` needs that the rows a bind may add or bring
back are counted under the lock. `ImplementsLedger` shows that each step is a step of
`PassLedger` or leaves its variables alone; `NoDayTakenBack`, that with `RenewBelow <= HostDays` (the
settings default to 7 and 30) no step shortens a pass.

`AnchoringProofs`. `Inv` (in `Anchoring`) follows a run from the files to the row: what it has
gathered exists (`FilesInv`, `RunInv`), the label it writes is its own until the batch
is recorded (`LabelInv`), and the check touches only recorded batches (`CheckInv`).

`GuestGatewayProofs`. After a change of the world, rows, cache and roles may be anything. The invariant follows the
rounds of heartbeats since then: who has reported in this round has a current row (`RoundInv`), so after one round
all rows are. Elections that overlap are older than the round (`OverlapInv`), so from then on
an election reads current rows and keeps the node that its key designates, if that is
a candidate (`ElectionInv`); who has been answered in the second round uses the key of its
island, which designates rightly, and knows whether it is the one (`SettledInv`). That two nodes of one island have the same key
is a lemma about the least node of a set. After the second round this is said of
every node alive, which is `SettledInTwoRounds`. All of it supposes that nodes which fell silent have gone stale
(`FleetKnown`): until then an island may be led by one of them.

Only model-checked: the liveness properties (`OverduePollEnds`, `OverdueIsCleared`, `SpeedFollowsPass`,
`EventuallyAnchored`, `NothingLeftBehind`, as far as they rest on fairness), because fairness speaks of enabledness,
which is out of the prover's reach. The two runs that expect a violation refute their property,
so there is nothing to prove. `CeilingHolds` is proved without mishaps and model-checked with one: how often all views together pass the
ceiling would need a sum over viewers in the invariant. Every other property of a run is a theorem.

## Not modelled, and why

Governance: weights and quorum (arithmetic on sums that no other state depends on), drafts and
cancelled polls (cancelling exists in the admin site only), slider polls and per-municipality
counters (the same protocol over more keys), scopes and priorities of standing
delegations (one delegation per profile is what the priority rule picks), the repair by
a results page that finds no Redis hash (one more recount). Debts between one profile and
itself, deletion by cascade. Shipments: legs that end at another hub than the
destination, hub settings. Ads: targeting, the feed, changes of reward and budget while claims
exist (refused by the code once the campaign has a view), wallet balances. Mesh: how a device is found over SSH, grants by staff
after the start, `guest_gateway_force`, firmware too old to be a candidate. Audit log: the contents of
event files, keyring and federation registry as such. Everywhere: signatures, notifications, rate limits.

The components listed as not modelled in `PROJECT.json` fall in three groups. Tickets,
contracts, subscriptions, treasury, rental, ideas and exchanges have protocols worth a
model and are on the plan. Rides, presence, WebSockets, notifications and federation
are best effort and promise nothing across steps. The rest is imported data, geometry,
content, device traffic and user interface: code with little shared state, which is most
of the repository's lines.

## Plan

Done: polls, opinion polls, debts, shipments, payouts, mesh pass with its abstract ledger,
guest gateway, anchoring; proofs of all eight. Next, in this order:

1. `Tickets`: capacity checked early and counted late, a payment confirmed twice, a refund
   against a scan.
2. `Contracts` and `Subscriptions`: lost marks of parties, lapsing against renewal.
3. An abstract append-only log that `Polls` without revocations implements; treasury reuses it.
4. Ideas and exchanges.
5. Proofs: the safety half of the liveness properties (what an overdue parcel, a lapsed pass or an
   unanchored proof leads to in one step), and the refinement between `Polls` and the log of item 3.
