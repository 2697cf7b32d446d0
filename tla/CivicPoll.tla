------------------------------ MODULE CivicPoll ------------------------------
(***************************************************************************)
(* One anonymous opinion poll of a territory: the pseudonymous vote rows   *)
(* in PostgreSQL, the aggregates in Redis, the standing delegations that   *)
(* cast votes for others, erasure, and the purge after the poll.           *)
(*                                                                         *)
(* Every transaction that writes rows holds the poll's row lock from its   *)
(* first statement to its commit and is one step. What a handler reads     *)
(* before that lock, and what it sends to Redis after the commit, are      *)
(* steps of their own: other requests run in between.                      *)
(***************************************************************************)
EXTENDS PollTally

CONSTANTS
    Workers,        \* request threads and the governance timer
    MaxRequests     \* bound: requests served

ASSUME MaxRequestsAssumption == MaxRequests \in Nat

VARIABLES
    status,     \* Poll.status
    overdue,    \* Poll.end_time has passed
    purged,     \* Poll.frozen_results is set
    consent,    \* Profile.civic_opinion_consent
    standing,   \* StandingDelegation of each profile, in the poll's scope
    row,        \* OpinionVote by voter_token
    agg,        \* Redis hash civic:{poll}:counts
    worker,     \* what each thread is doing
    requests,   \* requests begun
    voice,      \* history: whose ballot a delegated row repeats
    agreed,     \* history: whom each profile's voice was ever passed on to
    alone       \* history: jobs never overlapped, none died, no delegate declined

vars == <<status, overdue, purged, consent, standing, row, agg, worker, requests,
          voice, agreed, alone>>

Nobody == [to |-> NoOne, accepted |-> FALSE]
NoVote == [option |-> NoOne, via |-> FALSE]
Counts == [Options -> Int]
Nothing == [v \in Voters |-> NoOne]
Zero == [o \in Options |-> 0]

Jobs == {"idle", "cast", "delta", "compute", "apply", "count", "store",
         "erase", "forget", "freeze", "drop"}

\* expect, speaker: payload and delegate_id of expected_tokens;
\* then: the step that follows once the aggregates are stored.
Worker == [pc : Jobs, who : Voters \cup {NoOne}, option : Options \cup {NoOne},
           old : Options \cup {NoOne}, expect : [Voters -> Options \cup {NoOne}],
           speaker : [Voters -> Voters \cup {NoOne}], counts : Counts,
           then : {"idle", "erase", "forget"}]

Idle == [pc |-> "idle", who |-> NoOne, option |-> NoOne, old |-> NoOne,
         expect |-> Nothing, speaker |-> Nothing, counts |-> Zero, then |-> "idle"]

TypeOK ==
    /\ status \in {"active", "ended"}
    /\ overdue \in BOOLEAN
    /\ purged \in BOOLEAN
    /\ consent \in [Voters -> BOOLEAN]
    /\ standing \in [Voters -> {Nobody} \cup [to : Voters, accepted : BOOLEAN]]
    /\ row \in [Voters -> {NoVote} \cup [option : Options, via : BOOLEAN]]
    /\ agg \in Counts
    /\ worker \in [Workers -> Worker]
    /\ requests \in 0 .. MaxRequests
    /\ voice \in [Voters -> Voters \cup {NoOne}]
    /\ agreed \in [Voters -> SUBSET Voters]
    /\ alone \in BOOLEAN

-----------------------------------------------------------------------------
(* Reading the rows *)

OwnVote(v) == IF row[v].via THEN NoOne ELSE row[v].option

\* (faulty variant: rows cast for others are left out of the sums)
TallyOwn == [o \in Options |-> Cardinality({v \in Voters : OwnVote(v) = o})]

\* recount_poll: "Aggregates remain a plain sum of rows"
Tally == [o \in Options |-> Cardinality({v \in Voters : row[v].option = o})]

\* (faulty variant: a delegation counts before the delegate accepts it)
DelegationsAsked == [v \in Voters |-> standing[v].to]

\* build_delegation_graph, over _operational_delegations
DelegationGraph ==
    [v \in Voters |-> IF standing[v].accepted THEN standing[v].to ELSE NoOne]

\* resolve_terminal: nobody, on a circle or when the chain is too long
Terminal(g, v) ==
    {w[MaxChain] : w \in
        {w \in Walks(g, v) : g[v] # NoOne /\ g[w[MaxChain]] = NoOne}}

\* v and everybody its voice is passed on to.
Chain(v) ==
    {u \in Voters : \A S \in SUBSET Voters :
        (v \in S /\ \A x \in S : standing[x].accepted => standing[x].to \in S) => u \in S}

\* check_can_opinion_vote, but for the status: end_time and consent
InTime(v) == ~overdue /\ consent[v]

\* The terminal delegate that each profile would be given the ballot of.
Speaker ==
    [v \in Voters |->
        LET voted == {t \in Terminal(DelegationGraph, v) : OwnVote(t) # NoOne}
        IN  IF InTime(v) /\ voted # {} THEN CHOOSE t \in voted : TRUE ELSE NoOne]

\* expected_tokens: the payloads
Expected == [v \in Voters |-> IF Speaker[v] = NoOne THEN NoOne ELSE OwnVote(Speaker[v])]

AllIdle == \A w \in Workers : worker[w].pc = "idle"

AtMostOneBusy == \A u, w \in Workers : worker[u].pc # "idle" /\ worker[w].pc # "idle" => u = w

Track == alone' = (alone /\ AtMostOneBusy' /\ (UNCHANGED worker => AllIdle))

-----------------------------------------------------------------------------
(* Casting a vote *)

Do(w, job) == worker' = [worker EXCEPT ![w] = job]

Request == requests < MaxRequests /\ requests' = requests + 1

\* (faulty variant: neither status nor end_time is looked at)
MayVoteAnyTime(v) == consent[v]

\* check_can_opinion_vote, against the poll as loaded by the endpoint
MayVote(v) == status = "active" /\ InTime(v)

\* The cooldown key keeps a profile's next vote off until this one is through.
CastRead(w, v, o) ==
    /\ worker[w].pc = "idle" /\ Request
    /\ MayVote(v)
    /\ \A u \in Workers : worker[u].who = v => worker[u].pc \notin {"cast", "delta"}
    /\ Do(w, [Idle EXCEPT !.pc = "cast", !.who = v, !.option = o])
    /\ UNCHANGED <<status, overdue, purged, consent, standing, row, agg, voice, agreed>>
    /\ Track

\* Early return: the row already holds this option, whoever put it there.
CastSame(w) ==
    /\ worker[w].pc = "cast"
    /\ row[worker[w].who].option = worker[w].option
    /\ Do(w, Idle)
    /\ UNCHANGED <<status, overdue, purged, consent, standing, row, agg, requests, voice, agreed>>
    /\ Track

CastCommit(w) ==
    /\ worker[w].pc = "cast"
    /\ row[worker[w].who].option # worker[w].option
    /\ row' = [row EXCEPT ![worker[w].who] = [option |-> worker[w].option, via |-> FALSE]]
    /\ voice' = [voice EXCEPT ![worker[w].who] = NoOne]
    /\ Do(w, [worker[w] EXCEPT !.pc = "delta", !.old = row[worker[w].who].option])
    /\ UNCHANGED <<status, overdue, purged, consent, standing, agg, requests, agreed>>
    /\ Track

\* _apply_redis_delta, after the commit; then the voter's ballot is fanned out
Delta(w) ==
    /\ worker[w].pc = "delta"
    /\ agg' = [o \in Options |->
                 agg[o] + (IF o = worker[w].option THEN 1 ELSE 0)
                        - (IF o = worker[w].old THEN 1 ELSE 0)]
    /\ Do(w, [Idle EXCEPT !.pc = "compute"])
    /\ UNCHANGED <<status, overdue, purged, consent, standing, row, requests, voice, agreed>>
    /\ Track

-----------------------------------------------------------------------------
(* recompute_poll_materialization and recount_poll *)

\* Graph, delegates' ballots and gates are read before the poll is locked.
ComputeRead(w) ==
    /\ worker[w].pc = "compute"
    /\ Do(w, [worker[w] EXCEPT !.pc = "apply",
                                !.expect = Expected, !.speaker = Speaker])
    /\ UNCHANGED <<status, overdue, purged, consent, standing, row, agg, requests, voice, agreed>>
    /\ Track

\* (faulty variant: an own vote does not keep the delegate's out)
RowOfDelegate(v, option) ==
    IF option # NoOne THEN [option |-> option, via |-> TRUE]
    ELSE IF row[v].via THEN NoVote
    ELSE row[v]

\* (faulty variant: a row is upserted before the delegate has voted)
RowWithoutBallot(v, option) ==
    IF OwnVote(v) # NoOne THEN row[v] ELSE [option |-> option, via |-> TRUE]

\* "Own votes always win"; stale delegated rows go; expected ones are upserted.
RowAfter(v, option) ==
    IF OwnVote(v) # NoOne THEN row[v]
    ELSE IF option # NoOne THEN [option |-> option, via |-> TRUE]
    ELSE NoVote

Apply(w) ==
    /\ worker[w].pc = "apply"
    /\ row' = [v \in Voters |-> RowAfter(v, worker[w].expect[v])]
    /\ voice' = [v \in Voters |-> IF row'[v].via THEN worker[w].speaker[v] ELSE NoOne]
    /\ Do(w, [worker[w] EXCEPT !.pc = "count", !.expect = Nothing, !.speaker = Nothing])
    /\ UNCHANGED <<status, overdue, purged, consent, standing, agg, requests, agreed>>
    /\ Track

CountRead(w) ==
    /\ worker[w].pc = "count"
    /\ Do(w, [worker[w] EXCEPT !.pc = "store", !.counts = Tally])
    /\ UNCHANGED <<status, overdue, purged, consent, standing, row, agg, requests, voice, agreed>>
    /\ Track

CountStore(w) ==
    /\ worker[w].pc = "store"
    /\ agg' = worker[w].counts
    /\ Do(w, [worker[w] EXCEPT !.pc = worker[w].then, !.then = "idle", !.counts = Zero])
    /\ UNCHANGED <<status, overdue, purged, consent, standing, row, requests, voice, agreed>>
    /\ Track

-----------------------------------------------------------------------------
(* Standing delegations *)

Create(v, d) ==
    /\ Request
    /\ consent[v] /\ v # d /\ standing[v] = Nobody
    /\ standing' = [standing EXCEPT ![v] = [to |-> d, accepted |-> FALSE]]
    /\ UNCHANGED <<status, overdue, purged, consent, row, agg, worker, voice, agreed>>
    /\ Track

\* (faulty variant: the rows are left as they are)
RecomputeNever(w, then) == Do(w, Idle)

\* polls_affected_by: only active polls are recomputed.
Recompute(w, then) ==
    Do(w, [Idle EXCEPT !.pc = IF status = "active" THEN "compute" ELSE then, !.then = then])

Accept(w, v) ==
    /\ worker[w].pc = "idle" /\ Request
    /\ standing[v] # Nobody /\ ~standing[v].accepted
    /\ consent[standing[v].to]
    /\ standing' = [standing EXCEPT ![v].accepted = TRUE]
    /\ agreed' = [u \in Voters |-> agreed[u] \cup (Chain(u)' \ {u})]
    /\ Recompute(w, "idle")
    /\ UNCHANGED <<status, overdue, purged, consent, row, agg, voice>>
    /\ Track

\* By either party; rows melt away on recompute.
Revoke(w, v) ==
    /\ worker[w].pc = "idle" /\ Request
    /\ standing[v] # Nobody
    /\ standing' = [standing EXCEPT ![v] = Nobody]
    /\ IF standing[v].accepted THEN Recompute(w, "idle") ELSE UNCHANGED worker
    /\ UNCHANGED <<status, overdue, purged, consent, row, agg, voice, agreed>>
    /\ Track

\* No recompute follows, even when the delegation was accepted before.
Decline(v) ==
    /\ Request
    /\ standing[v] # Nobody
    /\ standing' = [standing EXCEPT ![v] = Nobody]
    /\ UNCHANGED <<status, overdue, purged, consent, row, agg, worker, voice, agreed>>
    /\ alone' = FALSE

-----------------------------------------------------------------------------
(* Consent and erasure *)

Grant(v) ==
    /\ Request
    /\ ~consent[v]
    /\ consent' = [consent EXCEPT ![v] = TRUE]
    /\ UNCHANGED <<status, overdue, purged, standing, row, agg, worker, voice, agreed>>
    /\ Track

\* (faulty variant: delegations received by the profile live on)
OfGiver(v) == {u \in {v} : standing[u] # Nobody}

\* Delegations are revoked in both directions.
OfParty(v) == {u \in Voters : standing[u] # Nobody /\ (u = v \/ standing[u].to = v)}

Withdraw(w, v) ==
    /\ worker[w].pc = "idle" /\ Request
    /\ standing' = [u \in Voters |-> IF u \in OfParty(v) THEN Nobody ELSE standing[u]]
    /\ Do(w, [Idle EXCEPT !.who = v, !.then = "erase",
                !.pc = IF OfParty(v) # {} /\ status = "active" THEN "compute" ELSE "erase"])
    /\ UNCHANGED <<status, overdue, purged, consent, row, agg, voice, agreed>>
    /\ Track

EraseRow(w) ==
    /\ worker[w].pc = "erase"
    /\ row' = [row EXCEPT ![worker[w].who] = NoVote]
    /\ voice' = [voice EXCEPT ![worker[w].who] = NoOne]
    /\ Do(w, [worker[w] EXCEPT !.then = "forget",
                !.pc = IF row[worker[w].who] # NoVote THEN "count" ELSE "forget"])
    /\ UNCHANGED <<status, overdue, purged, consent, standing, agg, requests, agreed>>
    /\ Track

Forget(w) ==
    /\ worker[w].pc = "forget"
    /\ consent' = [consent EXCEPT ![worker[w].who] = FALSE]
    /\ Do(w, Idle)
    /\ UNCHANGED <<status, overdue, purged, standing, row, agg, requests, voice, agreed>>
    /\ Track

-----------------------------------------------------------------------------
(* The end of the poll *)

\* end_time passes; the status stays as it is until somebody looks.
EndTimePasses ==
    /\ ~overdue
    /\ overdue' = TRUE
    /\ UNCHANGED <<status, purged, consent, standing, row, agg, worker, requests,
                   voice, agreed, alone>>

\* governance_tick, or a page that lists polls
End ==
    /\ status = "active" /\ overdue
    /\ status' = "ended"
    /\ UNCHANGED <<overdue, purged, consent, standing, row, agg, worker, requests, voice, agreed>>
    /\ Track

\* governance_tick, 30 days after the end: what was going on then is long over.
FreezeRead(w) ==
    /\ worker[w].pc = "idle"
    /\ status = "ended" /\ ~purged /\ \E v \in Voters : row[v] # NoVote
    /\ \A u \in Workers :
          worker[u].pc \notin {"cast", "delta", "compute", "apply", "freeze", "drop"}
    /\ Do(w, [Idle EXCEPT !.pc = "freeze"])
    /\ UNCHANGED <<status, overdue, purged, consent, standing, row, agg, requests, voice, agreed>>
    /\ Track

FreezeCommit(w) ==
    /\ worker[w].pc = "freeze"
    /\ purged' = TRUE
    /\ row' = [v \in Voters |-> NoVote]
    /\ voice' = Nothing
    /\ Do(w, [Idle EXCEPT !.pc = "drop"])
    /\ UNCHANGED <<status, overdue, consent, standing, agg, requests, agreed>>
    /\ Track

DropKeys(w) ==
    /\ worker[w].pc = "drop"
    /\ agg' = Zero
    /\ Do(w, Idle)
    /\ UNCHANGED <<status, overdue, purged, consent, standing, row, requests, voice, agreed>>
    /\ Track

\* The thread dies: what it had not committed or sent stays undone.
Crash(w) ==
    /\ worker[w].pc # "idle"
    /\ Do(w, Idle)
    /\ UNCHANGED <<status, overdue, purged, consent, standing, row, agg, requests, voice, agreed>>
    /\ alone' = FALSE

-----------------------------------------------------------------------------
\* Standing delegations are older than the poll; nobody has voted yet.
Init ==
    /\ status = "active" /\ overdue = FALSE /\ purged = FALSE
    /\ consent = [v \in Voters |-> TRUE]
    /\ standing \in [Voters -> {Nobody} \cup [to : Voters, accepted : BOOLEAN]]
    /\ \A v \in Voters : standing[v].to # v
    /\ row = [v \in Voters |-> NoVote]
    /\ agg = Zero
    /\ worker = [w \in Workers |-> Idle]
    /\ requests = 0
    /\ voice = Nothing
    /\ agreed = [v \in Voters |-> Chain(v) \ {v}]
    /\ alone = TRUE

Cast(w) ==
    \/ \E v \in Voters, o \in Options : CastRead(w, v, o)
    \/ CastSame(w) \/ CastCommit(w) \/ Delta(w)

Materialize(w) == ComputeRead(w) \/ Apply(w) \/ CountRead(w) \/ CountStore(w)

Delegate(w) == \E v \in Voters : Accept(w, v) \/ Revoke(w, v)

Ask == \E v \in Voters : Grant(v) \/ \E d \in Voters : Create(v, d)

Erase(w) == EraseRow(w) \/ Forget(w) \/ \E v \in Voters : Withdraw(w, v)

Purge(w) == FreezeRead(w) \/ FreezeCommit(w) \/ DropKeys(w)

Next ==
    \/ \E w \in Workers :
          \/ Cast(w) \/ Materialize(w) \/ Delegate(w) \/ Erase(w) \/ Purge(w)
          \/ Crash(w)
    \/ Ask \/ EndTimePasses \/ End
    \/ \E v \in Voters : Decline(v)

Spec == Init /\ [][Next]_vars

-----------------------------------------------------------------------------
(* Properties *)

\* A vote somebody cast in person is only ever replaced by that person's next
\* vote or removed (erasure, purge): no recompute writes over it, however old
\* the reads it acts on are.
OwnVotesWin ==
    [][\A v \in Voters : OwnVote(v) # NoOne /\ row'[v] # row[v] => ~row'[v].via]_vars

\* A vote cast for somebody repeats the ballot of a delegate to whom, at one
\* moment, accepted delegations passed on that voice: nobody is spoken for by
\* somebody who never accepted, however old the graph a recompute acts on.
NoVoiceWithoutAgreement == \A v \in Voters : row[v].via => voice[v] \in agreed[v]

\* Once the raw votes are purged none comes back: not from a thread that is
\* late, not from a recompute, not from a new vote.
PurgedForGood == purged => \A v \in Voters : row[v] = NoVote

\* After any sequence of votes, acceptances, revocations and erasures, one at
\* a time, a profile that has not voted has the vote of the delegate at the end
\* of its chain, as soon as that one has voted, and no vote otherwise. Between
\* end_time and the tick that ends the poll a recompute finds every gate shut
\* and deletes the delegated rows: from then on the vote may be missing, but
\* never is another one in its place.
RowsFollowDelegations ==
    alone /\ AllIdle /\ status = "active" =>
        \A v \in Voters :
            LET votes == {OwnVote(u) : u \in {u \in Chain(v) : ~standing[u].accepted}} \ {NoOne}
            IN  OwnVote(v) = NoOne /\ Cardinality(Chain(v)) - 1 <= MaxChain =>
                    /\ row[v] # NoVote => row[v].via /\ row[v].option \in votes
                    /\ ~overdue /\ votes # {} => row[v] # NoVote

\* After any such sequence Redis holds the sum of the rows: deltas, recounts
\* and erasures cancel out.
AggregatesExact ==
    alone /\ AllIdle =>
        \A o \in Options : agg[o] = Cardinality({v \in Voters : row[v].option = o})

\* A profile that has withdrawn its consent has no vote left, its own or a
\* delegate's, and is on neither side of a delegation in force.
WithdrawnIsErased ==
    alone /\ AllIdle =>
        \A v \in Voters : ~consent[v] =>
            /\ row[v] = NoVote
            /\ \A u \in Voters : standing[u].accepted => v \notin {u, standing[u].to}

=============================================================================
