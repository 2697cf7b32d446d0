------------------------------ MODULE Shipments ------------------------------
(***************************************************************************)
(* One parcel of the logistics app: its Shipment row, the offers of        *)
(* carriers, the ShipmentEvent log, the endpoints that move it and the     *)
(* hourly expiry command.                                                  *)
(*                                                                         *)
(* No endpoint locks the row. Each one reads with a filter on the status,  *)
(* answers 404 when the filter finds nothing, and later writes only the    *)
(* columns it names, without looking again. What it writes, from the first *)
(* save to the commit, holds the row and is one step.                      *)
(***************************************************************************)
EXTENDS Naturals, Sequences

CONSTANTS
    Hubs,           \* active hubs
    Origin,         \* Shipment.origin_hub
    Destination,    \* Shipment.destination_hub
    NoHub,          \* current_hub is NULL
    Offers,         \* ids of CarrierOffer rows, each of a carrier of its own
    Handlers,       \* request threads
    MaxEvents       \* bound: no request begins once the log is that long

ASSUME HubsAssumption == Origin \in Hubs /\ Destination \in Hubs /\ NoHub \notin Hubs

VARIABLES
    shipment,   \* the Shipment row
    offers,     \* status of every offer, "NONE" before it exists
    events,     \* event_type of the ShipmentEvent rows, in the order of their commits
    handler,    \* the request each thread has read for and not written yet
    job         \* the expiry command's progress on this shipment

vars == <<shipment, offers, events, handler, job>>

Statuses == {"CREATED", "AT_ORIGIN", "IN_TRANSIT", "AT_HUB", "READY", "DELIVERED", "EXPIRED", "CANCELLED"}

OfferStatuses == {"NONE", "OFFERED", "ACCEPTED", "COMPLETED", "CANCELLED"}

EventTypes == {"CREATED", "DEPOSITED", "CARRIER_PICKUP", "ARRIVED", "READY", "DELIVERED", "EXPIRED", "CANCELLED"}

\* Overdue stands for the comparisons with the clock: expires_at <= now, or a
\* creation more than seven days ago while the shipment waits for its deposit.
Shipment == [status : Statuses, hub : Hubs \cup {NoHub}, overdue : BOOLEAN]

SenderOps == {"deposit", "cancel"}
OfferOps == {"offer", "accept", "complete"}
HubOps == {"confirm_arrival", "mark_ready", "verify_pickup"}

Requests ==
    [op : SenderOps, of : {NoHub}] \cup [op : OfferOps, of : Offers] \cup [op : HubOps, of : Hubs]

Idle == [op |-> "none", of |-> NoHub]

TypeOK ==
    /\ shipment \in Shipment
    /\ offers \in [Offers -> OfferStatuses]
    /\ events \in Seq(EventTypes)
    /\ handler \in [Handlers -> Requests \cup {Idle}]
    /\ job \in {"idle", "listed", "saved"}

-----------------------------------------------------------------------------
(* Reading: the filter of each endpoint *)

\* The request finds its rows.
Finds(request) ==
    LET s == shipment IN
    \/ request.op \in SenderOps /\ s.status = "CREATED"
    \/ /\ request.op = "offer"
       /\ offers[request.of] = "NONE"
       /\ s.status \in {"AT_ORIGIN", "AT_HUB"} /\ s.hub # NoHub
    \/ request.op = "accept" /\ offers[request.of] = "OFFERED"
    \/ request.op = "complete" /\ offers[request.of] = "ACCEPTED"
    \/ request.op = "confirm_arrival" /\ s.status = "IN_TRANSIT"
    \/ request.op = "mark_ready" /\ s.hub = request.of /\ s.status \in {"AT_ORIGIN", "AT_HUB"}
    \/ request.op = "verify_pickup" /\ s.hub = request.of /\ s.status = "READY"

Busy(h) == handler[h] # Idle

Begin(h, request) ==
    /\ ~Busy(h)
    /\ Len(events) < MaxEvents
    /\ Finds(request)
    /\ handler' = [handler EXCEPT ![h] = request]
    /\ UNCHANGED <<shipment, offers, events, job>>

-----------------------------------------------------------------------------
(* Writing *)

\* _add_event, in the same transaction as the row
AddEvent(type) == events' = Append(events, type)

\* (faulty variant: an arrival at the destination is logged as any other)
ArrivalEventPlain(hub) == "ARRIVED"

\* (faulty variant: the event is given the status as its type)
ArrivalEventIsStatus(hub) == IF hub = Destination THEN "READY" ELSE "AT_HUB"

ArrivalEvent(hub) == IF hub = Destination THEN "READY" ELSE "ARRIVED"

Done(h) ==
    /\ handler' = [handler EXCEPT ![h] = Idle]
    /\ UNCHANGED job

Deposit(h) ==
    /\ handler[h].op = "deposit"
    /\ shipment' = [status |-> "AT_ORIGIN", hub |-> Origin, overdue |-> FALSE]
    /\ AddEvent("DEPOSITED")
    /\ UNCHANGED offers
    /\ Done(h)

Cancel(h) ==
    /\ handler[h].op = "cancel"
    /\ shipment' = [shipment EXCEPT !.status = "CANCELLED"]
    /\ AddEvent("CANCELLED")
    /\ UNCHANGED offers
    /\ Done(h)

CreateOffer(h) ==
    /\ handler[h].op = "offer"
    /\ offers[handler[h].of] = "NONE"
    /\ offers' = [offers EXCEPT ![handler[h].of] = "OFFERED"]
    /\ UNCHANGED <<shipment, events>>
    /\ Done(h)

\* (faulty variant: the update that calls off the open offers takes in o)
NoneAccepted(o) ==
    [p \in Offers |-> IF offers[p] = "OFFERED" \/ p = o THEN "CANCELLED" ELSE offers[p]]

\* The offers once o is accepted: the others that are still open are called off.
Accepted(o) ==
    [p \in Offers |-> IF p = o THEN "ACCEPTED"
                      ELSE IF offers[p] = "OFFERED" THEN "CANCELLED" ELSE offers[p]]

Accept(h) ==
    /\ handler[h].op = "accept"
    /\ offers' = Accepted(handler[h].of)
    /\ shipment' = [shipment EXCEPT !.status = "IN_TRANSIT", !.hub = NoHub]
    /\ AddEvent("CARRIER_PICKUP")
    /\ Done(h)

\* The parcel is put down at a hub, by its operator or by the carrier.
PutDown(hub) ==
    /\ shipment' = [status |-> IF hub = Destination THEN "READY" ELSE "AT_HUB",
                    hub |-> hub, overdue |-> FALSE]
    /\ AddEvent(ArrivalEvent(hub))

Complete(h) ==
    /\ handler[h].op = "complete"
    /\ offers' = [offers EXCEPT ![handler[h].of] = "COMPLETED"]
    /\ PutDown(Destination)
    /\ Done(h)

ConfirmArrival(h) ==
    /\ handler[h].op = "confirm_arrival"
    /\ PutDown(handler[h].of)
    /\ UNCHANGED offers
    /\ Done(h)

MarkReady(h) ==
    /\ handler[h].op = "mark_ready"
    /\ shipment' = [shipment EXCEPT !.status = "READY"]
    /\ AddEvent("READY")
    /\ UNCHANGED offers
    /\ Done(h)

\* The receiver's code has been compared with the row as it was read.
VerifyPickup(h) ==
    /\ handler[h].op = "verify_pickup"
    /\ shipment' = [shipment EXCEPT !.status = "DELIVERED"]
    /\ AddEvent("DELIVERED")
    /\ UNCHANGED offers
    /\ Done(h)

\* The process dies, or PostgreSQL aborts one of two accepting transactions
\* that wait for each other's offers.
GiveUp(h) ==
    /\ Busy(h)
    /\ UNCHANGED <<shipment, offers, events>>
    /\ Done(h)

-----------------------------------------------------------------------------
(* expire_shipments *)

TimePasses ==
    /\ ~shipment.overdue
    /\ shipment' = [shipment EXCEPT !.overdue = TRUE]
    /\ UNCHANGED <<offers, events, handler, job>>

Waiting == {"CREATED", "AT_ORIGIN", "AT_HUB", "READY"}

\* (faulty variant: the filter keeps what is not overdue)
ListedEarly == job = "idle" /\ ~shipment.overdue /\ shipment.status \in Waiting

Listed == job = "idle" /\ shipment.overdue /\ shipment.status \in Waiting

ListOverdue ==
    /\ Listed
    /\ job' = "listed"
    /\ UNCHANGED <<shipment, offers, events, handler>>

\* Rows that come before this one in the list may take any time.
SaveExpired ==
    /\ job = "listed"
    /\ shipment' = [shipment EXCEPT !.status = "EXPIRED"]
    /\ job' = "saved"
    /\ UNCHANGED <<offers, events, handler>>

\* A transaction of its own
LogExpired ==
    /\ job = "saved"
    /\ AddEvent("EXPIRED")
    /\ job' = "idle"
    /\ UNCHANGED <<shipment, offers, handler>>

JobDies ==
    /\ job # "idle"
    /\ job' = "idle"
    /\ UNCHANGED <<shipment, offers, events, handler>>

-----------------------------------------------------------------------------
\* create_shipment has committed.
Init ==
    /\ shipment = [status |-> "CREATED", hub |-> NoHub, overdue |-> FALSE]
    /\ offers = [o \in Offers |-> "NONE"]
    /\ events = <<"CREATED">>
    /\ handler = [h \in Handlers |-> Idle]
    /\ job = "idle"

Write(h) ==
    \/ Deposit(h) \/ Cancel(h) \/ CreateOffer(h) \/ Accept(h) \/ Complete(h)
    \/ ConfirmArrival(h) \/ MarkReady(h) \/ VerifyPickup(h) \/ GiveUp(h)

JobStep == ListOverdue \/ SaveExpired \/ LogExpired \/ JobDies

Next ==
    \/ \E h \in Handlers : (\E request \in Requests : Begin(h, request)) \/ Write(h)
    \/ TimePasses
    \/ JobStep

\* A timer starts the command every hour, every run of it comes to an end, and
\* not every run is killed before it reaches this row.
Fairness == WF_vars(JobStep) /\ SF_vars(SaveExpired)

Spec == Init /\ [][Next]_vars /\ Fairness

-----------------------------------------------------------------------------
(* Properties *)

\* The status that an event of the log announces
Announces ==
    [CREATED |-> "CREATED", DEPOSITED |-> "AT_ORIGIN", CARRIER_PICKUP |-> "IN_TRANSIT", ARRIVED |-> "AT_HUB",
     READY |-> "READY", DELIVERED |-> "DELIVERED", EXPIRED |-> "EXPIRED", CANCELLED |-> "CANCELLED"]

\* i is the latest entry of the log that is not an expiry.
Latest(i) ==
    /\ i \in DOMAIN events
    /\ events[i] # "EXPIRED"
    /\ \A j \in DOMAIN events : j > i => events[j] = "EXPIRED"

\* "Event timeline: full history of status changes": whatever overwrites what,
\* the row's status is the one its latest event announces. Expiry alone may run
\* ahead of the log or be missing from it, because it logs in a second
\* transaction.
TimelineTellsStatus ==
    \A i \in DOMAIN events :
        Latest(i) => shipment.status \in {Announces[events[i]], "EXPIRED"}

\* A parcel under way is in the hands of a carrier whose offer was accepted and
\* not completed, and at no hub, even when acceptances, completions and hub
\* operators overtake each other.
CarriedBySomebody ==
    shipment.status = "IN_TRANSIT" =>
        shipment.hub = NoHub /\ \E o \in Offers : offers[o] = "ACCEPTED"

\* A parcel nobody comes for does not stay in the hub for ever, although the
\* command may die on the way: it is expired, or something happens to it.
OverdueIsCleared ==
    shipment.overdue /\ shipment.status \in Waiting ~> ~shipment.overdue \/ shipment.status \notin Waiting

-----------------------------------------------------------------------------
Inv == TypeOK /\ TimelineTellsStatus /\ CarriedBySomebody
=============================================================================
