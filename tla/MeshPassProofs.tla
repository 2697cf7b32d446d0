---------------------------- MODULE MeshPassProofs ----------------------------
(***************************************************************************)
(* MeshPass implements PassLedger and keeps the limit of devices, for any  *)
(* number of profiles, invoices, devices, requests and nodes. IInv says    *)
(* what each actor may rely on between two of its steps.                   *)
(***************************************************************************)
EXTENDS MeshPass, FiniteSetTheorems, TLAPS

HoldsPass(x) == x.at \in {"extending", "writing", "topping"}
HoldsCredit(x) == x.at \in {"granting", "extending"}

\* What a memory x is worth in the current state.
Sound(x) ==
    /\ x.clock <= time
    /\ x.at \in {"checking", "crediting", "granting", "extending"} =>
          x.of \in Invoices /\ x.pass = Buyer[x.of]
    /\ x.at \in {"crediting", "granting", "extending"} => x.of \in paid
    /\ HoldsCredit(x) => invoice[x.of] = "PENDING"
    /\ x.at = "extending" => x.seen = covered[x.pass]
    /\ x.at \in {"binding", "writing", "activating"} => x.pass \in Profiles /\ x.of \in Macs
    /\ x.at = "unbinding" => x.of \in Macs
    /\ x.at \in {"renewing", "topping"} => x.pass \in Profiles
    /\ x.at = "topping" => covered[x.pass] <= x.clock + RenewBelow
    /\ x.at = "writing" =>
          /\ x.row = NoRow \/ x.row.pass = x.pass
          /\ Cardinality(BoundTo(x.pass) \cup {x.of}) <= MaxDevices

Remembers == \A a \in Actors : Sound(actor[a])

\* Two transactions never hold the same row.
Exclusive ==
    \A a, b \in Actors : a # b =>
        /\ HoldsPass(actor[a]) /\ HoldsPass(actor[b]) => actor[a].pass # actor[b].pass
        /\ HoldsCredit(actor[a]) /\ HoldsCredit(actor[b]) => actor[a].of # actor[b].of

IInv == TypeOK /\ Remembers /\ Exclusive /\ DeviceLimitHolds

-----------------------------------------------------------------------------
(* Lemmas *)

LEMMA SoundStart == IInv => Sound(Idle) /\ Idle \in Memory
BY PassAssumption DEF IInv, TypeOK, Sound, Idle, HoldsCredit, Memory, NoRow

\* One actor moves to the memory y: the invariant on the memories is a matter of
\* y, of the memories of the others, and of the rows y holds.
LEMMA ActorMoves ==
    ASSUME TypeOK, Exclusive, NEW a \in Actors, NEW y \in Memory,
           Goto(a, y), Sound(y)',
           \A b \in Actors \ {a} : Sound(actor[b])',
           HoldsPass(y) => (HoldsPass(actor[a]) /\ y.pass = actor[a].pass) \/ ~PassLocked(y.pass),
           HoldsCredit(y) => (HoldsCredit(actor[a]) /\ y.of = actor[a].of) \/ ~CreditLocked(y.of)
    PROVE  Remembers' /\ Exclusive' /\ actor' \in [Actors -> Memory]
<1>1. /\ actor' \in [Actors -> Memory]
      /\ actor'[a] = y
      /\ \A b \in Actors \ {a} : actor'[b] = actor[b]
  BY DEF Goto, TypeOK
<1>2. Remembers'
  BY <1>1 DEF Remembers, Sound
<1>3. ASSUME NEW b \in Actors \ {a}
      PROVE  /\ HoldsPass(y) /\ HoldsPass(actor[b]) => y.pass # actor[b].pass
             /\ HoldsCredit(y) /\ HoldsCredit(actor[b]) => y.of # actor[b].of
  BY <1>3 DEF Exclusive, PassLocked, CreditLocked, HoldsPass, HoldsCredit
<1>4. Exclusive'
  BY <1>1, <1>3 DEF Exclusive, HoldsPass, HoldsCredit
<1> QED
  BY <1>1, <1>2, <1>4

\* The same for a step that changes no row.
LEMMA ActorReads ==
    ASSUME IInv, NEW a \in Actors, NEW y \in Memory, Goto(a, y), Sound(y),
           UNCHANGED <<time, covered, invoice, paid, renewals, rows>>, speed' \subseteq Macs,
           HoldsPass(y) => (HoldsPass(actor[a]) /\ y.pass = actor[a].pass) \/ ~PassLocked(y.pass),
           HoldsCredit(y) => (HoldsCredit(actor[a]) /\ y.of = actor[a].of) \/ ~CreditLocked(y.of)
    PROVE  IInv'
<1>1. ASSUME NEW b \in Actors \ {a}
      PROVE  Sound(actor[b])'
  <2>1. actor'[b] = actor[b] /\ Sound(actor[b])
    BY DEF IInv, Remembers, TypeOK, Goto
  <2> QED
    BY <2>1 DEF Sound, HoldsCredit, BoundTo
<1>2. Sound(y)'
  BY DEF Sound, HoldsCredit, BoundTo
<1>4. Remembers' /\ Exclusive' /\ actor' \in [Actors -> Memory]
  BY <1>1, <1>2, ActorMoves DEF IInv
<1>5. TypeOK' /\ DeviceLimitHolds'
  BY <1>4 DEF IInv, TypeOK, DeviceLimitHolds, BoundTo
<1> QED
  BY <1>4, <1>5 DEF IInv

-----------------------------------------------------------------------------
(* Steps that only read, or that only tell the router *)

LEMMA StopKeeps ==
    ASSUME IInv, NEW a \in Actors, Die(a) \/ ReplyLost(a)
    PROVE  IInv'
<1>1. Goto(a, Idle) /\ speed' \subseteq Macs
  BY DEF Die, ReplyLost, Finish, IInv, TypeOK
<1>2. ~HoldsPass(Idle) /\ ~HoldsCredit(Idle)
  BY DEF HoldsPass, HoldsCredit, Idle
<1> QED
  BY <1>1, <1>2, SoundStart, ActorReads DEF Die, ReplyLost

LEMMA CheckInvoiceKeeps ==
    ASSUME IInv, NEW h \in Handlers, NEW i \in Invoices, CheckInvoice(h, i)
    PROVE  IInv'
<1> DEFINE y == [Idle EXCEPT !.at = "checking", !.of = i, !.pass = Buyer[i]]
<1>1. y \in Memory /\ Sound(y) /\ ~HoldsPass(y) /\ ~HoldsCredit(y)
  BY SoundStart, PassAssumption DEF Memory, Idle, Sound, HoldsPass, HoldsCredit, HandlerSteps
<1>2. h \in Actors /\ Goto(h, y) /\ speed' \subseteq Macs
  BY DEF CheckInvoice, Actors, IInv, TypeOK
<1> QED
  BY <1>1, <1>2, ActorReads DEF CheckInvoice

\* An actor in the middle of something that moves on, or ends its request.
LEMMA MemoryMoves ==
    ASSUME IInv, NEW a \in Actors
    PROVE  /\ actor[a] \in Memory /\ Sound(actor[a])
           /\ Finish(a) /\ UNCHANGED <<time, covered, invoice, paid, renewals, rows>>
                /\ speed' \subseteq Macs => IInv'
<1>1. actor[a] \in Memory /\ Sound(actor[a])
  BY DEF IInv, TypeOK, Remembers
<1>2. ~HoldsPass(Idle) /\ ~HoldsCredit(Idle)
  BY DEF HoldsPass, HoldsCredit, Idle
<1>3. ASSUME Finish(a), UNCHANGED <<time, covered, invoice, paid, renewals, rows>>,
             speed' \subseteq Macs
      PROVE  IInv'
  BY <1>2, <1>3, SoundStart, ActorReads DEF Finish
<1> QED
  BY <1>1, <1>3

LEMMA AnswerKeeps ==
    ASSUME IInv, NEW h \in Handlers, Answer(h)
    PROVE  IInv'
<1>1. h \in Actors /\ speed' \subseteq Macs
  BY DEF Actors, Answer, IInv, TypeOK
<1>2. CASE SaysPaid(actor[h].of) /\ Goto(h, [actor[h] EXCEPT !.at = "crediting"])
  <2> DEFINE y == [actor[h] EXCEPT !.at = "crediting"]
  <2>1. y \in Memory /\ Sound(y) /\ ~HoldsPass(y) /\ ~HoldsCredit(y)
    BY <1>1, <1>2, MemoryMoves
    DEF Answer, At, SaysPaid, Memory, Sound, HoldsPass, HoldsCredit, HandlerSteps
  <2> QED
    BY <1>1, <1>2, <2>1, ActorReads DEF Answer
<1>3. CASE Finish(h)
  BY <1>1, <1>3, MemoryMoves DEF Answer
<1> QED
  BY <1>2, <1>3 DEF Answer

LEMMA LockCreditKeeps ==
    ASSUME IInv, NEW h \in Handlers, LockCredit(h)
    PROVE  IInv'
<1>1. h \in Actors /\ speed' \subseteq Macs /\ time \in 0 .. MaxTime
  BY DEF Actors, LockCredit, IInv, TypeOK
<1>2. CASE StillPending(actor[h].of)
  <2> DEFINE y == [actor[h] EXCEPT !.at = "granting", !.clock = time]
  <2>1. Goto(h, y) /\ ~CreditLocked(y.of)
    BY <1>1, <1>2, MemoryMoves DEF LockCredit, Memory
  <2>2. actor[h] \in Memory /\ Sound(actor[h]) /\ actor[h].at = "crediting"
    BY <1>1, MemoryMoves DEF LockCredit, At
  <2>3. /\ y \in Memory /\ y.at = "granting" /\ y.clock = time
        /\ y.of = actor[h].of /\ y.pass = actor[h].pass
    BY <1>1, <2>2 DEF Memory, HandlerSteps
  <2>4. Sound(y) /\ ~HoldsPass(y)
    BY <1>1, <1>2, <2>2, <2>3 DEF StillPending, Sound, HoldsPass, HoldsCredit
  <2> QED
    BY <1>1, <2>1, <2>3, <2>4, ActorReads DEF LockCredit
<1>3. CASE ~StillPending(actor[h].of)
  BY <1>1, <1>3, MemoryMoves DEF LockCredit
<1> QED
  BY <1>2, <1>3

LEMMA LockPassKeeps ==
    ASSUME IInv, NEW h \in Handlers, LockPass(h)
    PROVE  IInv'
<1> DEFINE y == [actor[h] EXCEPT !.at = "extending", !.seen = covered[actor[h].pass]]
<1>1. h \in Actors /\ speed' \subseteq Macs
  BY DEF Actors, LockPass, IInv, TypeOK
<1>2. actor[h] \in Memory /\ Sound(actor[h]) /\ actor[h].at = "granting"
  BY <1>1, MemoryMoves DEF LockPass, At
<1>3. covered[actor[h].pass] \in Nat
  BY <1>2, PassAssumption DEF Sound, IInv, TypeOK
<1>4. y \in Memory /\ y.of = actor[h].of /\ y.pass = actor[h].pass
  BY <1>2, <1>3 DEF Memory, HandlerSteps
<1>5. Sound(y) /\ HoldsCredit(actor[h])
  BY <1>2, <1>3, <1>4 DEF Memory, Sound, HoldsCredit
<1>6. Goto(h, y) /\ ~PassLocked(y.pass)
  BY <1>4 DEF LockPass
<1> QED
  BY <1>1, <1>4, <1>5, <1>6, ActorReads DEF LockPass

LEMMA BeginBindKeeps ==
    ASSUME IInv, NEW h \in Handlers, NEW p \in Profiles, NEW m \in Macs, BeginBind(h, p, m)
    PROVE  IInv'
<1> DEFINE y == [Idle EXCEPT !.at = "binding", !.pass = p, !.of = m]
<1>1. y \in Memory /\ Sound(y) /\ ~HoldsPass(y) /\ ~HoldsCredit(y)
  BY SoundStart DEF Memory, Idle, Sound, HoldsPass, HoldsCredit, HandlerSteps
<1>2. h \in Actors /\ Goto(h, y) /\ speed' \subseteq Macs
  BY DEF BeginBind, Actors, IInv, TypeOK
<1> QED
  BY <1>1, <1>2, ActorReads DEF BeginBind

\* The devices of a pass are finitely many.
LEMMA BoundFinite ==
    ASSUME NEW p
    PROVE  IsFiniteSet(BoundTo(p)) /\ Cardinality(BoundTo(p)) \in Nat
BY PassAssumption, FS_Subset, FS_CardinalityType DEF BoundTo

LEMMA LockForBindKeeps ==
    ASSUME IInv, NEW h \in Handlers, LockForBind(h)
    PROVE  IInv'
<1> DEFINE p == actor[h].pass
           m == actor[h].of
           y == [actor[h] EXCEPT !.at = "writing", !.row = rows[m]]
           admitted == rows[m].pass = p \/ (rows[m] = NoRow /\ Cardinality(BoundTo(p)) < MaxDevices)
<1>1. /\ h \in Actors /\ speed' \subseteq Macs
      /\ actor[h] \in Memory /\ Sound(actor[h]) /\ actor[h].at = "binding"
  BY MemoryMoves DEF Actors, LockForBind, At, IInv, TypeOK
<1>2. p \in Profiles /\ m \in Macs /\ rows[m] \in Rows \cup {NoRow}
  BY <1>1 DEF Sound, IInv, TypeOK
<1>3. CASE admitted
  <2>1. y \in Memory /\ y.of = m /\ y.pass = p /\ y.at = "writing" /\ y.row = rows[m]
    BY <1>1, <1>2 DEF Memory, HandlerSteps
  <2>2. Cardinality(BoundTo(p) \cup {m}) <= MaxDevices
    <3>1. CASE rows[m].pass = p
      <4>1. BoundTo(p) \cup {m} = BoundTo(p)
        BY <1>2, <3>1 DEF BoundTo
      <4> QED
        BY <1>2, <4>1 DEF IInv, DeviceLimitHolds
    <3>2. CASE rows[m] = NoRow /\ Cardinality(BoundTo(p)) < MaxDevices
      <4>1. Cardinality(BoundTo(p) \cup {m}) <= Cardinality(BoundTo(p)) + 1
        BY BoundFinite, FS_AddElement
      <4>2. Cardinality(BoundTo(p) \cup {m}) \in Nat
        <5>1. IsFiniteSet(BoundTo(p) \cup {m})
          BY BoundFinite, FS_AddElement
        <5> QED
          BY <5>1, FS_CardinalityType
      <4> QED
        BY <3>2, <4>1, <4>2, BoundFinite, PassAssumption
    <3> QED
      BY <1>3, <3>1, <3>2
  <2>3. rows[m] = NoRow \/ rows[m].pass = p
    BY <1>3
  <2>4. Sound(y) /\ ~HoldsCredit(y)
    BY <1>1, <1>2, <2>1, <2>2, <2>3 DEF Sound, HoldsCredit, Memory
  <2>5. Goto(h, y) /\ ~PassLocked(y.pass)
    BY <1>3, <2>1 DEF LockForBind
  <2> QED
    BY <1>1, <2>1, <2>4, <2>5, ActorReads DEF LockForBind
<1>4. CASE ~admitted
  BY <1>1, <1>4, MemoryMoves DEF LockForBind
<1> QED
  BY <1>3, <1>4

LEMMA RouterToldKeeps ==
    ASSUME IInv, NEW a \in Actors, Activate(a) \/ Reply(a)
    PROVE  IInv'
<1>1. actor[a] \in Memory /\ Sound(actor[a])
  BY MemoryMoves
<1>2. speed' \subseteq Macs
  BY <1>1 DEF Activate, Reply, At, Sound, Memory, IInv, TypeOK
<1> QED
  BY <1>2, MemoryMoves DEF Activate, Reply

LEMMA BeginUnbindKeeps ==
    ASSUME IInv, NEW h \in Handlers, NEW p \in Profiles, NEW m \in Macs, BeginUnbind(h, p, m)
    PROVE  IInv'
<1> DEFINE y == [Idle EXCEPT !.at = "unbinding", !.of = m, !.row = rows[m]]
<1>1. rows[m] \in Rows \cup {NoRow} /\ speed' \subseteq Macs /\ h \in Actors
  BY DEF BeginUnbind, Actors, IInv, TypeOK
<1>2. y \in Memory /\ Sound(y) /\ ~HoldsPass(y) /\ ~HoldsCredit(y)
  BY <1>1, SoundStart DEF Memory, Idle, Sound, HoldsPass, HoldsCredit, HandlerSteps
<1>3. Goto(h, y)
  BY DEF BeginUnbind
<1> QED
  BY <1>1, <1>2, <1>3, ActorReads DEF BeginUnbind

LEMMA BeatKeeps ==
    ASSUME IInv, NEW n \in Nodes, Beat(n)
    PROVE  IInv'
<1>1. PICK step \in {"renewing", "listing"} :
         /\ Goto(n, [Idle EXCEPT !.at = step, !.pass = Owner[n], !.clock = time])
         /\ step = "renewing" => Owner[n] # Nobody
  BY DEF Beat
<1> DEFINE y == [Idle EXCEPT !.at = step, !.pass = Owner[n], !.clock = time]
<1>2. /\ n \in Actors /\ speed' \subseteq Macs /\ time \in 0 .. MaxTime
      /\ Owner[n] \in Profiles \cup {Nobody}
  BY PassAssumption DEF Beat, Actors, IInv, TypeOK
<1>3. y \in Memory /\ y.at = step /\ y.pass = Owner[n] /\ y.clock = time
  BY <1>1, <1>2, SoundStart DEF Memory, Idle, NodeSteps
<1>4. Sound(y) /\ ~HoldsPass(y) /\ ~HoldsCredit(y)
  BY <1>1, <1>2, <1>3 DEF Sound, HoldsPass, HoldsCredit
<1> QED
  BY <1>1, <1>2, <1>3, <1>4, ActorReads DEF Beat

LEMMA LockForRenewalKeeps ==
    ASSUME IInv, NEW n \in Nodes, LockForRenewal(n)
    PROVE  IInv'
<1>1. PICK step \in {"topping", "listing"} :
         /\ Goto(n, [actor[n] EXCEPT !.at = step])
         /\ step = "topping" => StillLow(actor[n].pass, actor[n].clock)
  BY DEF LockForRenewal
<1> DEFINE y == [actor[n] EXCEPT !.at = step]
<1>2. /\ n \in Actors /\ speed' \subseteq Macs
      /\ actor[n] \in Memory /\ Sound(actor[n]) /\ actor[n].at = "renewing"
  BY MemoryMoves DEF Actors, LockForRenewal, At, IInv, TypeOK
<1>3. y \in Memory /\ y.pass = actor[n].pass /\ y.at = step
  BY <1>2 DEF Memory, NodeSteps
<1>4. Sound(y) /\ ~HoldsCredit(y)
  BY <1>1, <1>2, <1>3 DEF Sound, HoldsCredit, StillLow, RunsLow, Memory
<1>5. ~PassLocked(y.pass)
  BY <1>3 DEF LockForRenewal
<1> QED
  BY <1>1, <1>2, <1>3, <1>4, <1>5, ActorReads DEF LockForRenewal

LEMMA ListKeeps ==
    ASSUME IInv, NEW n \in Nodes, List(n)
    PROVE  IInv'
<1> DEFINE y == [actor[n] EXCEPT !.at = "replying", !.list = PaidClients(n, actor[n].clock)]
<1>1. /\ n \in Actors /\ speed' \subseteq Macs
      /\ actor[n] \in Memory /\ Sound(actor[n])
      /\ PaidClients(n, actor[n].clock) \subseteq Macs
  BY MemoryMoves DEF Actors, List, IInv, TypeOK, PaidClients, ActiveAt
<1>2. y \in Memory /\ Sound(y) /\ ~HoldsPass(y) /\ ~HoldsCredit(y)
  BY <1>1 DEF Memory, Sound, HoldsPass, HoldsCredit, NodeSteps
<1> QED
  BY <1>1, <1>2, ActorReads DEF List

-----------------------------------------------------------------------------
(* Steps that change a row *)

\* Nothing but the clock, a new invoice or a payment changes.
LEMMA OutsideKeeps ==
    ASSUME IInv, Tick \/ \E i \in Invoices : AskInvoice(i) \/ PayInvoice(i)
    PROVE  IInv'
<1>1. /\ UNCHANGED <<covered, renewals, rows, speed, actor>>
      /\ time' \in 0 .. MaxTime /\ time <= time' /\ time \in 0 .. MaxTime
      /\ paid \subseteq paid' /\ paid' \subseteq {i \in Invoices : invoice'[i] # "NONE"}
      /\ invoice' \in [Invoices -> {"NONE", "PENDING", "APPLIED", "EXPIRED"}]
      /\ \A i \in Invoices : invoice[i] = "PENDING" => invoice'[i] = "PENDING"
  BY PassAssumption DEF Tick, AskInvoice, PayInvoice, IInv, TypeOK
<1>2. ASSUME NEW a \in Actors
      PROVE  Sound(actor[a])'
  <2>1. actor'[a] = actor[a] /\ actor[a] \in Memory /\ Sound(actor[a])
    BY <1>1, MemoryMoves
  <2> QED
    BY <1>1, <2>1 DEF Sound, HoldsCredit, BoundTo, Memory
<1>3. Remembers'
  BY <1>2 DEF Remembers
<1>4. TypeOK' /\ Exclusive' /\ DeviceLimitHolds'
  BY <1>1 DEF IInv, TypeOK, Exclusive, HoldsPass, HoldsCredit, DeviceLimitHolds, BoundTo
<1> QED
  BY <1>3, <1>4 DEF IInv

\* The command waits for a locked row, so no open transaction loses its invoice.
LEMMA ExpireInvoiceKeeps ==
    ASSUME IInv, NEW i \in Invoices, ExpireInvoice(i)
    PROVE  IInv'
<1>1. /\ UNCHANGED <<time, covered, paid, renewals, rows, speed, actor>>
      /\ invoice' = [invoice EXCEPT ![i] = "EXPIRED"]
  BY DEF ExpireInvoice
<1>2. ASSUME NEW a \in Actors
      PROVE  Sound(actor[a])'
  <2>1. actor'[a] = actor[a] /\ actor[a] \in Memory /\ Sound(actor[a])
    BY <1>1, MemoryMoves
  <2>2. HoldsCredit(actor[a]) => actor[a].of # i
    BY DEF ExpireInvoice, CreditLocked, HoldsCredit
  <2>3. HoldsCredit(actor[a]) => invoice'[actor[a].of] = "PENDING"
    BY <1>1, <2>1, <2>2 DEF Sound, HoldsCredit, IInv, TypeOK
  <2> QED
    BY <1>1, <2>1, <2>3 DEF Sound, HoldsCredit, BoundTo
<1>3. Remembers'
  BY <1>2 DEF Remembers
<1>4. TypeOK' /\ Exclusive' /\ DeviceLimitHolds'
  BY <1>1 DEF IInv, TypeOK, Exclusive, HoldsPass, HoldsCredit, DeviceLimitHolds, BoundTo
<1> QED
  BY <1>3, <1>4 DEF IInv

LEMMA ExtendKeeps ==
    ASSUME IInv, NEW h \in Handlers, Extend(h)
    PROVE  IInv'
<1> DEFINE p == actor[h].pass
           i == actor[h].of
<1>1. /\ h \in Actors /\ actor[h].at = "extending"
      /\ i \in Invoices /\ p = Buyer[i] /\ p \in Profiles
      /\ actor[h].seen \in Nat /\ actor[h].clock \in 0 .. MaxTime
      /\ InvoiceDays \in Nat /\ MaxTime \in Nat
  BY MemoryMoves, PassAssumption DEF Actors, Extend, At, Sound, Memory
<1>2. /\ UNCHANGED <<time, paid, renewals, rows, speed>> /\ Goto(h, Idle)
      /\ \A q \in Profiles \ {p} : covered'[q] = covered[q]
      /\ \A j \in Invoices \ {i} : invoice'[j] = invoice[j]
      /\ covered' \in [Profiles -> Nat]
      /\ invoice' = [invoice EXCEPT ![i] = "APPLIED"]
  BY <1>1 DEF Extend, Finish, Applied, Later, IInv, TypeOK
<1>3. ASSUME NEW b \in Actors \ {h}
      PROVE  Sound(actor[b])'
  <2>1. actor'[b] = actor[b] /\ actor[b] \in Memory /\ Sound(actor[b])
    BY <1>2, MemoryMoves DEF Goto, IInv, TypeOK
  <2>2. /\ HoldsPass(actor[b]) => actor[b].pass # p
        /\ HoldsCredit(actor[b]) => actor[b].of # i
    BY <1>1 DEF IInv, Exclusive, HoldsPass, HoldsCredit
  <2>3. /\ HoldsCredit(actor[b]) => invoice'[actor[b].of] = "PENDING"
        /\ actor[b].at \in {"extending", "topping"} => covered'[actor[b].pass] = covered[actor[b].pass]
    BY <1>1, <1>2, <2>1, <2>2, PassAssumption DEF Sound, HoldsCredit, HoldsPass
  <2> QED
    BY <1>2, <2>1, <2>3 DEF Sound, HoldsCredit, BoundTo
<1>4. Sound(Idle)' /\ Idle \in Memory /\ ~HoldsPass(Idle) /\ ~HoldsCredit(Idle)
  BY <1>2, SoundStart DEF Sound, Idle, HoldsCredit, HoldsPass
<1>5. Remembers' /\ Exclusive' /\ actor' \in [Actors -> Memory]
  BY <1>1, <1>2, <1>3, <1>4, ActorMoves DEF IInv
<1>6. TypeOK' /\ DeviceLimitHolds'
  BY <1>1, <1>2, <1>5 DEF IInv, TypeOK, DeviceLimitHolds, BoundTo
<1> QED
  BY <1>5, <1>6 DEF IInv

LEMMA RenewKeeps ==
    ASSUME IInv, NEW n \in Nodes, Renew(n)
    PROVE  IInv'
<1> DEFINE p == actor[n].pass
<1>1. /\ n \in Actors /\ actor[n].at = "topping" /\ p \in Profiles
      /\ actor[n] \in Memory /\ actor[n].clock \in 0 .. MaxTime
      /\ HostDays \in Nat /\ MaxTime \in Nat
  BY MemoryMoves, PassAssumption DEF Actors, Renew, At, Sound, Memory
<1> DEFINE moved == [actor[n] EXCEPT !.at = "listing"]
<1>a. moved \in Memory /\ moved.at = "listing" /\ moved.clock = actor[n].clock
  BY <1>1 DEF Memory, NodeSteps
<1> HIDE DEF moved
<1>b. PICK y \in Memory : y = moved
  BY <1>a
<1>0. y = [actor[n] EXCEPT !.at = "listing"] /\ y.at = "listing" /\ y.clock = actor[n].clock
  BY <1>a, <1>b DEF moved
<1>2. /\ UNCHANGED <<time, invoice, paid, rows, speed>> /\ Goto(n, y)
      /\ \A q \in Profiles \ {p} : covered'[q] = covered[q]
      /\ covered' \in [Profiles -> Nat] /\ renewals' \in [Profiles -> Nat]
  BY <1>0, <1>1 DEF Renew, IInv, TypeOK
<1>3. ASSUME NEW b \in Actors \ {n}
      PROVE  Sound(actor[b])'
  <2>1. actor'[b] = actor[b] /\ actor[b] \in Memory /\ Sound(actor[b])
    BY <1>2, MemoryMoves DEF Goto, IInv, TypeOK
  <2>2. HoldsPass(actor[b]) => actor[b].pass # p
    BY <1>1 DEF IInv, Exclusive, HoldsPass
  <2>3. actor[b].at \in {"extending", "topping"} => covered'[actor[b].pass] = covered[actor[b].pass]
    BY <1>1, <1>2, <2>1, <2>2, PassAssumption DEF Sound, HoldsPass
  <2> QED
    BY <1>2, <2>1, <2>3 DEF Sound, HoldsCredit, BoundTo
<1>4. Sound(y)' /\ ~HoldsPass(y) /\ ~HoldsCredit(y)
  <2>1. y.clock <= time
    BY <1>0, <1>1, MemoryMoves DEF Sound
  <2> QED
    BY <1>0, <1>2, <2>1 DEF Sound, HoldsPass, HoldsCredit
<1>5. Remembers' /\ Exclusive' /\ actor' \in [Actors -> Memory]
  BY <1>1, <1>2, <1>3, <1>4, ActorMoves DEF IInv
<1>6. TypeOK' /\ DeviceLimitHolds'
  BY <1>1, <1>2, <1>5 DEF IInv, TypeOK, DeviceLimitHolds, BoundTo
<1> QED
  BY <1>5, <1>6 DEF IInv

\* Fewer devices than before: the limit holds, also for those about to bind.
LEMMA FewerBound ==
    ASSUME IInv, NEW p, BoundTo(p)' \subseteq BoundTo(p)
    PROVE  /\ p \in Profiles => Cardinality(BoundTo(p)') <= MaxDevices
           /\ \A m \in Macs : Cardinality(BoundTo(p) \cup {m}) <= MaxDevices
                => Cardinality(BoundTo(p)' \cup {m}) <= MaxDevices
<1>0. MaxDevices \in Nat
  BY PassAssumption
<1>1. /\ IsFiniteSet(BoundTo(p)) /\ Cardinality(BoundTo(p)) \in Nat
      /\ Cardinality(BoundTo(p)') \in Nat
      /\ Cardinality(BoundTo(p)') <= Cardinality(BoundTo(p))
  BY BoundFinite, FS_Subset, FS_CardinalityType
<1>2. p \in Profiles => Cardinality(BoundTo(p)') <= MaxDevices
  BY <1>0, <1>1 DEF IInv, DeviceLimitHolds
<1>3. ASSUME NEW m \in Macs, Cardinality(BoundTo(p) \cup {m}) <= MaxDevices
      PROVE  Cardinality(BoundTo(p)' \cup {m}) <= MaxDevices
  <2>1. IsFiniteSet(BoundTo(p) \cup {m}) /\ BoundTo(p)' \cup {m} \subseteq BoundTo(p) \cup {m}
    BY <1>1, FS_AddElement
  <2>2. /\ Cardinality(BoundTo(p) \cup {m}) \in Nat
        /\ Cardinality(BoundTo(p)' \cup {m}) \in Nat
        /\ Cardinality(BoundTo(p)' \cup {m}) <= Cardinality(BoundTo(p) \cup {m})
    BY <2>1, FS_Subset, FS_CardinalityType
  <2> QED
    BY <1>0, <1>3, <2>2
<1> QED
  BY <1>2, <1>3

LEMMA UnbindKeeps ==
    ASSUME IInv, NEW h \in Handlers, Unbind(h)
    PROVE  IInv'
<1>1. /\ UNCHANGED <<time, covered, invoice, paid, renewals, speed>> /\ Goto(h, Idle)
      /\ rows' \in [Macs -> Rows \cup {NoRow}] /\ h \in Actors
      /\ \A m \in Macs : rows'[m] \in {rows[m], NoRow}
  BY DEF Unbind, Finish, Actors, IInv, TypeOK
<1>2. ASSUME NEW p \in Profiles
      PROVE  BoundTo(p)' \subseteq BoundTo(p)
  BY <1>1, PassAssumption DEF BoundTo, NoRow
<1>3. ASSUME NEW b \in Actors \ {h}
      PROVE  Sound(actor[b])'
  <2>1. actor'[b] = actor[b] /\ actor[b] \in Memory /\ Sound(actor[b])
    BY <1>1, MemoryMoves DEF Goto, IInv, TypeOK
  <2>2. CASE actor[b].at = "writing"
    <3>1. actor[b].pass \in Profiles /\ actor[b].of \in Macs
      BY <2>1, <2>2 DEF Sound
    <3>2. PICK p \in Profiles, m \in Macs : p = actor[b].pass /\ m = actor[b].of
      BY <3>1
    <3>3. Cardinality(BoundTo(p) \cup {m}) <= MaxDevices
      BY <2>1, <2>2, <3>2 DEF Sound
    <3>4. Cardinality(BoundTo(p)' \cup {m}) <= MaxDevices
      BY <1>2, <3>3, FewerBound
    <3> QED
      BY <1>1, <2>1, <2>2, <3>2, <3>4 DEF Sound, HoldsCredit, BoundTo
  <2>3. CASE actor[b].at # "writing"
    BY <1>1, <2>1, <2>3 DEF Sound, HoldsCredit
  <2> QED
    BY <2>2, <2>3
<1>4. Sound(Idle)' /\ Idle \in Memory /\ ~HoldsPass(Idle) /\ ~HoldsCredit(Idle)
  BY <1>1, SoundStart DEF Sound, Idle, HoldsCredit, HoldsPass
<1>5. Remembers' /\ Exclusive' /\ actor' \in [Actors -> Memory]
  BY <1>1, <1>3, <1>4, ActorMoves DEF IInv
<1>6. DeviceLimitHolds'
  BY <1>2, FewerBound DEF DeviceLimitHolds
<1>7. TypeOK'
  BY <1>1, <1>5 DEF IInv, TypeOK
<1> QED
  BY <1>5, <1>6, <1>7 DEF IInv

LEMMA BindKeeps ==
    ASSUME IInv, NEW h \in Handlers, Bind(h)
    PROVE  IInv'
<1>1. /\ h \in Actors /\ actor[h].at = "writing" /\ actor[h] \in Memory /\ Sound(actor[h])
  BY MemoryMoves DEF Actors, Bind, At
<1>2. PICK p \in Profiles, m \in Macs, saw \in Rows \cup {NoRow} :
         p = actor[h].pass /\ m = actor[h].of /\ saw = actor[h].row
  BY <1>1 DEF Sound, Memory
<1>3. /\ saw = NoRow \/ saw.pass = p
      /\ Cardinality(BoundTo(p) \cup {m}) <= MaxDevices
  BY <1>1, <1>2 DEF Sound
<1> DEFINE moved == [actor[h] EXCEPT !.at = "activating", !.row = NoRow]
<1>a. /\ moved \in Memory /\ moved.at = "activating" /\ moved.clock = actor[h].clock
      /\ moved.pass = p /\ moved.of = m
  BY <1>1, <1>2 DEF Memory, HandlerSteps
<1> HIDE DEF moved
<1>b. PICK y \in Memory : y = moved
  BY <1>a
<1>4. CASE Finish(h) /\ UNCHANGED rows
  BY <1>1, <1>4, MemoryMoves DEF Bind, IInv, TypeOK
<1>5. ASSUME NEW new \in Rows, new.pass = p, rows[m] \in {NoRow, saw},
             rows' = [rows EXCEPT ![m] = new], Goto(h, moved)
      PROVE  IInv'
  <2>1. /\ UNCHANGED <<time, covered, invoice, paid, renewals, speed>> /\ Goto(h, y)
        /\ rows' \in [Macs -> Rows \cup {NoRow}]
    BY <1>5, <1>b DEF Bind, IInv, TypeOK
  <2>2. ASSUME NEW q \in Profiles \ {p}
        PROVE  BoundTo(q)' = BoundTo(q)
    <3>1. rows[m].pass # q /\ rows'[m].pass # q
      BY <1>2, <1>3, <1>5, PassAssumption DEF NoRow, IInv, TypeOK
    <3> QED
      BY <1>5, <3>1 DEF BoundTo, IInv, TypeOK
  <2>3. BoundTo(p)' \subseteq BoundTo(p) \cup {m}
    BY <1>5 DEF BoundTo, IInv, TypeOK
  <2>4. ASSUME NEW b \in Actors \ {h}
        PROVE  Sound(actor[b])'
    <3>1. actor'[b] = actor[b] /\ actor[b] \in Memory /\ Sound(actor[b])
      BY <2>1, MemoryMoves DEF Goto, IInv, TypeOK
    <3>2. CASE actor[b].at = "writing"
      <4>1. actor[b].pass \in Profiles \ {p} /\ actor[b].of \in Macs
        BY <1>1, <1>2, <3>1, <3>2 DEF Sound, IInv, Exclusive, HoldsPass
      <4>2. PICK q \in Profiles \ {p} : q = actor[b].pass
        BY <4>1
      <4>3. BoundTo(q)' = BoundTo(q)
        BY <2>2
      <4> QED
        BY <2>1, <3>1, <3>2, <4>2, <4>3 DEF Sound, HoldsCredit, BoundTo
    <3>3. CASE actor[b].at # "writing"
      BY <2>1, <3>1, <3>3 DEF Sound, HoldsCredit
    <3> QED
      BY <3>2, <3>3
  <2>5. Sound(y)' /\ ~HoldsPass(y) /\ ~HoldsCredit(y)
    <3>1. y.clock <= time
      BY <1>1, <1>a, <1>b DEF Sound
    <3> QED
      BY <1>a, <1>b, <2>1, <3>1 DEF Sound, HoldsPass, HoldsCredit
  <2>6. Remembers' /\ Exclusive' /\ actor' \in [Actors -> Memory]
    BY <1>1, <2>1, <2>4, <2>5, ActorMoves DEF IInv
  <2>7. Cardinality(BoundTo(p)') <= MaxDevices
    <3>1. IsFiniteSet(BoundTo(p) \cup {m})
      BY BoundFinite, FS_AddElement
    <3>2. /\ Cardinality(BoundTo(p)') <= Cardinality(BoundTo(p) \cup {m})
          /\ Cardinality(BoundTo(p)') \in Nat /\ Cardinality(BoundTo(p) \cup {m}) \in Nat
      BY <2>3, <3>1, FS_Subset, FS_CardinalityType
    <3> QED
      BY <1>3, <3>2, PassAssumption
  <2>8. DeviceLimitHolds'
    BY <2>2, <2>7 DEF IInv, DeviceLimitHolds
  <2>9. TypeOK'
    BY <2>1, <2>6 DEF IInv, TypeOK
  <2> QED
    BY <2>6, <2>8, <2>9 DEF IInv
<1>6. CASE saw = NoRow /\ rows[m] = NoRow /\ FreshIds(m) # {}
  <2>1. (CHOOSE id \in FreshIds(m) : TRUE) \in RowIds
    BY <1>6 DEF FreshIds
  <2>2. PICK id \in RowIds : id = CHOOSE k \in FreshIds(m) : TRUE
    BY <2>1
  <2>3. [pass |-> p, id |-> id] \in Rows
    BY DEF Rows
  <2>4. CASE rows' = [rows EXCEPT ![m] = [pass |-> p, id |-> id]] /\ Goto(h, moved)
    BY <1>5, <1>6, <2>3, <2>4
  <2> QED
    BY <1>2, <1>4, <1>6, <2>2, <2>4 DEF Bind, moved
<1>7. CASE saw # NoRow /\ rows[m] \in {saw, NoRow}
  <2>1. CASE rows' = [rows EXCEPT ![m] = saw] /\ Goto(h, moved)
    BY <1>2, <1>3, <1>5, <1>7, <2>1
  <2> QED
    BY <1>2, <1>4, <1>7, <2>1 DEF Bind, moved
<1> QED
  BY <1>2, <1>4, <1>6, <1>7 DEF Bind

-----------------------------------------------------------------------------
(* The invariant *)

LEMMA InitIInv == Init => IInv
<1> SUFFICES ASSUME Init PROVE IInv
  OBVIOUS
<1>1. TypeOK /\ Sound(Idle) /\ Idle \in Memory
  BY PassAssumption DEF Init, TypeOK, Sound, Idle, HoldsCredit, Memory, NoRow
<1>2. \A a \in Actors : actor[a] = Idle
  BY DEF Init
<1>3. Remembers /\ Exclusive
  BY <1>1, <1>2 DEF Remembers, Exclusive, HoldsPass, HoldsCredit, Idle
<1>4. ASSUME NEW p \in Profiles
      PROVE  Cardinality(BoundTo(p)) <= MaxDevices
  <2>1. BoundTo(p) = {}
    BY PassAssumption DEF Init, BoundTo, NoRow
  <2> QED
    BY <2>1, FS_EmptySet, PassAssumption
<1> QED
  BY <1>1, <1>3, <1>4 DEF IInv, DeviceLimitHolds

LEMMA HandlerKeeps ==
    ASSUME IInv, NEW h \in Handlers, HandlerStep(h)
    PROVE  IInv'
<1>1. h \in Actors
  BY DEF Actors
<1> QED
  BY <1>1, CheckInvoiceKeeps, BeginBindKeeps, BeginUnbindKeeps, AnswerKeeps, LockCreditKeeps,
     LockPassKeeps, ExtendKeeps, LockForBindKeeps, BindKeeps, RouterToldKeeps, UnbindKeeps
  DEF HandlerStep

LEMMA NodeKeeps ==
    ASSUME IInv, NEW n \in Nodes, NodeStep(n)
    PROVE  IInv'
<1>1. n \in Actors
  BY DEF Actors
<1> QED
  BY <1>1, BeatKeeps, LockForRenewalKeeps, RenewKeeps, ListKeeps, RouterToldKeeps, StopKeeps
  DEF NodeStep

LEMMA NextIInv == IInv /\ [Next]_vars => IInv'
<1> SUFFICES ASSUME IInv, [Next]_vars PROVE IInv'
  OBVIOUS
<1>1. CASE UNCHANGED vars
  <2>1. TypeOK' /\ Exclusive' /\ DeviceLimitHolds'
    BY <1>1 DEF IInv, vars, TypeOK, Exclusive, HoldsPass, HoldsCredit, DeviceLimitHolds, BoundTo
  <2>2. Remembers'
    BY <1>1 DEF IInv, vars, Remembers, Sound, HoldsCredit, BoundTo
  <2> QED
    BY <2>1, <2>2 DEF IInv
<1>2. CASE Tick \/ \E i \in Invoices : AskInvoice(i) \/ PayInvoice(i)
  BY <1>2, OutsideKeeps
<1>3. CASE \E i \in Invoices : ExpireInvoice(i)
  BY <1>3, ExpireInvoiceKeeps
<1>4. CASE \E h \in Handlers : HandlerStep(h)
  BY <1>4, HandlerKeeps
<1>5. CASE \E n \in Nodes : NodeStep(n)
  BY <1>5, NodeKeeps
<1>6. CASE \E a \in Actors : Die(a)
  BY <1>6, StopKeeps
<1> QED
  BY <1>1, <1>2, <1>3, <1>4, <1>5, <1>6 DEF Next

\* What an actor remembers stays true until it acts on it: nobody else writes a
\* row it holds, and a pass with a place left for a device keeps that place.
THEOREM PassInvHolds == Spec => []IInv
<1>1. Init => IInv
  BY InitIInv
<1>2. IInv /\ [Next]_vars => IInv'
  BY NextIInv
<1> QED
  BY <1>1, <1>2, PTL DEF Spec

\* The state of the pass and of its actors keeps its type.
THEOREM PassTypeCorrect == Spec => []TypeOK
<1>1. IInv => TypeOK
  BY DEF IInv
<1> QED
  BY <1>1, PassInvHolds, PTL

\* No pass ever has more devices than it allows: the place counted under the
\* lock of mesh_bind is still free when the row is written.
THEOREM LimitOfDevices == Spec => []DeviceLimitHolds
<1>1. IInv => DeviceLimitHolds
  BY DEF IInv
<1> QED
  BY <1>1, PassInvHolds, PTL

-----------------------------------------------------------------------------
(* The refinement *)

\* An extension credits its invoice once: it is paid and still pending.
LEMMA ExtendCredits ==
    ASSUME IInv, NEW h \in Handlers, Extend(h)
    PROVE  \E i \in Invoices : Ledger!Credit(i)
<1> DEFINE i == actor[h].of
           p == actor[h].pass
<1>1. /\ h \in Actors /\ actor[h].at = "extending" /\ i \in Invoices /\ p = Buyer[i] /\ i \in paid
      /\ invoice[i] = "PENDING" /\ actor[h].seen = covered[p]
      /\ actor[h].clock \in 0 .. time /\ time \in 0 .. MaxTime
  <2>1. h \in Actors /\ actor[h].at = "extending" /\ actor[h] \in Memory /\ Sound(actor[h])
    BY MemoryMoves DEF Actors, Extend, At
  <2>2. /\ MaxTime \in Nat /\ time \in 0 .. MaxTime
        /\ actor[h].clock \in 0 .. MaxTime /\ actor[h].clock <= time
    BY <2>1, PassAssumption DEF Sound, Memory, IInv, TypeOK
  <2>3. actor[h].clock \in 0 .. time
    BY <2>2
  <2> QED
    BY <2>1, <2>2, <2>3 DEF Sound, HoldsCredit
<1>2. {j \in Invoices : invoice'[j] = "APPLIED"} = {j \in Invoices : invoice[j] = "APPLIED"} \cup {i}
  BY <1>1 DEF Extend, Applied, IInv, TypeOK
<1>3. covered' = [covered EXCEPT ![Buyer[i]] = Ledger!Later(@, actor[h].clock) + InvoiceDays]
  BY <1>1, PassAssumption DEF Extend, Later, Ledger!Later, IInv, TypeOK
<1>4. i \notin {j \in Invoices : invoice[j] = "APPLIED"}
  BY <1>1
<1> QED
  BY <1>1, <1>2, <1>3, <1>4 DEF Ledger!Credit, Extend

\* A heartbeat tops up a pass that runs low when it is written.
LEMMA RenewRenews ==
    ASSUME IInv, NEW n \in Nodes, Renew(n)
    PROVE  \E p \in Profiles : Ledger!Renew(p)
<1> DEFINE p == actor[n].pass
<1>1. /\ p \in Profiles /\ actor[n].clock \in 0 .. time
      /\ covered[p] <= actor[n].clock + RenewBelow
  <2>1. n \in Actors /\ actor[n].at = "topping" /\ actor[n] \in Memory /\ Sound(actor[n])
    BY MemoryMoves DEF Actors, Renew, At
  <2>2. /\ MaxTime \in Nat /\ time \in 0 .. MaxTime
        /\ actor[n].clock \in 0 .. MaxTime /\ actor[n].clock <= time
    BY <2>1, PassAssumption DEF Sound, Memory, IInv, TypeOK
  <2>3. actor[n].clock \in 0 .. time
    BY <2>2
  <2> QED
    BY <2>1, <2>3 DEF Sound
<1> QED
  BY <1>1 DEF Ledger!Renew, Renew

LEMMA StepKeepsLedger ==
    ASSUME IInv, [Next]_vars
    PROVE  [Ledger!Next]_(Ledger!vars)
<1>1. CASE UNCHANGED <<time, covered, invoice, paid, renewals>>
  BY <1>1 DEF Ledger!vars
<1>2. CASE Tick
  BY <1>2 DEF Tick, Ledger!Next, Ledger!Tick
<1>3. CASE \E i \in Invoices : AskInvoice(i) \/ ExpireInvoice(i)
  <2>1. {j \in Invoices : invoice'[j] = "APPLIED"} = {j \in Invoices : invoice[j] = "APPLIED"}
    BY <1>3 DEF AskInvoice, ExpireInvoice, IInv, TypeOK
  <2> QED
    BY <1>3, <2>1 DEF AskInvoice, ExpireInvoice, Ledger!vars
<1>4. CASE \E i \in Invoices : PayInvoice(i)
  BY <1>4 DEF PayInvoice, Ledger!Next, Ledger!Pay
<1>5. CASE \E h \in Handlers : Extend(h)
  BY <1>5, ExtendCredits DEF Ledger!Next
<1>6. CASE \E n \in Nodes : Renew(n)
  BY <1>6, RenewRenews DEF Ledger!Next
<1>7. CASE \E h \in Handlers : HandlerStep(h) /\ ~Extend(h)
  BY <1>1, <1>7
  DEF HandlerStep, CheckInvoice, BeginBind, BeginUnbind, Answer, LockCredit, LockPass,
      LockForBind, Bind, Activate, Unbind
<1>8. CASE \E n \in Nodes : NodeStep(n) /\ ~Renew(n)
  BY <1>1, <1>8 DEF NodeStep, Beat, LockForRenewal, List, Reply, ReplyLost
<1>9. CASE (\E a \in Actors : Die(a)) \/ UNCHANGED vars
  BY <1>1, <1>9 DEF Die, vars
<1> QED
  BY <1>2, <1>3, <1>4, <1>5, <1>6, <1>7, <1>8, <1>9 DEF Next

\* The server keeps the ledger's promises: a paid invoice extends the pass once,
\* a renewal only tops up a pass that runs low, and no pass is ever shortened by
\* polls, heartbeats, crashes and the expiry job in any order.
THEOREM ImplementsLedger == Spec => KeepsLedger
<1>1. Init => Ledger!Init
  BY DEF Init, Ledger!Init
<1>2. IInv /\ [Next]_vars => [Ledger!Next]_(Ledger!vars)
  BY StepKeepsLedger
<1> QED
  BY <1>1, <1>2, PassInvHolds, PTL DEF Spec, KeepsLedger, Ledger!Spec

\* When the renewal threshold lies within the days it renews for, as the default
\* settings have it, no step takes a day back from a pass: a late heartbeat does
\* not overwrite the longer expiry of a payment.
THEOREM NoDayTakenBack ==
    ASSUME RenewBelow <= HostDays
    PROVE  Spec => [][\A p \in Profiles : covered[p] <= covered'[p]]_covered
<1>1. ASSUME IInv, [Next]_vars, NEW p \in Profiles
      PROVE  covered[p] <= covered'[p]
  <2>1. /\ covered \in [Profiles -> Nat] /\ time \in Nat
        /\ InvoiceDays \in Nat /\ HostDays \in Nat /\ RenewBelow \in Nat
    BY <1>1, PassAssumption DEF IInv, TypeOK
  <2>2. CASE UNCHANGED covered
    BY <2>1, <2>2
  <2>3. CASE \E i \in Invoices : Ledger!Credit(i)
    <3>1. PICK i \in Invoices, t \in 0 .. time :
             covered' = [covered EXCEPT ![Buyer[i]] = Ledger!Later(@, t) + InvoiceDays]
      BY <2>3 DEF Ledger!Credit
    <3> QED
      BY <2>1, <3>1, PassAssumption DEF Ledger!Later
  <2>4. CASE \E q \in Profiles : Ledger!Renew(q)
    <3>1. PICK q \in Profiles, t \in 0 .. time :
             /\ covered[q] <= t + RenewBelow
             /\ covered' = [covered EXCEPT ![q] = t + HostDays]
      BY <2>4 DEF Ledger!Renew
    <3> QED
      BY <2>1, <3>1
  <2> QED
    BY <1>1, <2>2, <2>3, <2>4, StepKeepsLedger
    DEF Ledger!Next, Ledger!vars, Ledger!Tick, Ledger!Pay
<1>2. IInv /\ [Next]_vars => [\A p \in Profiles : covered[p] <= covered'[p]]_covered
  BY <1>1
<1> QED
  BY <1>2, PassInvHolds, PTL DEF Spec
=============================================================================
