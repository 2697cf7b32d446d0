--------------------------- MODULE ShipmentsProofs ---------------------------
(***************************************************************************)
(* Inv is an inductive invariant of Shipments, for every number of hubs,   *)
(* offers and request threads and every bound on the log.                  *)
(***************************************************************************)
EXTENDS Shipments, TLAPS

\* An entry that is no expiry becomes the latest one: when it announces the
\* status written with it, the timeline goes on telling the status.
LEMMA EntryTellsStatus ==
    ASSUME events \in Seq(EventTypes), NEW e \in EventTypes \ {"EXPIRED"},
           AddEvent(e), shipment'.status = Announces[e]
    PROVE  TimelineTellsStatus'
<1>1. /\ Len(events) \in Nat /\ DOMAIN events = 1 .. Len(events)
      /\ events' = Append(events, e)
      /\ DOMAIN events' = 1 .. Len(events) + 1
      /\ events'[Len(events) + 1] = e
  BY DEF AddEvent
<1> SUFFICES ASSUME NEW i \in DOMAIN events', Latest(i)'
             PROVE  shipment'.status \in {Announces[events'[i]], "EXPIRED"}
  BY DEF TimelineTellsStatus
<1>2. i = Len(events) + 1
  <2>1. Len(events) + 1 > i => events'[Len(events) + 1] = "EXPIRED"
    BY <1>1 DEF Latest
  <2> QED
    BY <1>1, <2>1
<1> QED
  BY <1>1, <1>2

\* An expiry changes nothing in what the rest of the log tells.
LEMMA ExpiryTellsNothing ==
    ASSUME events \in Seq(EventTypes), TimelineTellsStatus, AddEvent("EXPIRED"),
           UNCHANGED shipment
    PROVE  TimelineTellsStatus'
<1>1. /\ Len(events) \in Nat /\ DOMAIN events = 1 .. Len(events)
      /\ DOMAIN events' = 1 .. Len(events) + 1
      /\ events'[Len(events) + 1] = "EXPIRED"
      /\ \A i \in 1 .. Len(events) : events'[i] = events[i]
  BY DEF AddEvent
<1> SUFFICES ASSUME NEW i \in DOMAIN events', Latest(i)'
             PROVE  shipment.status \in {Announces[events'[i]], "EXPIRED"}
  BY DEF TimelineTellsStatus
<1>2. i \in 1 .. Len(events)
  BY <1>1 DEF Latest
<1>3. Latest(i)
  BY <1>1, <1>2 DEF Latest
<1> QED
  BY <1>1, <1>2, <1>3 DEF TimelineTellsStatus

\* A request names what its operation works on.
LEMMA RequestNames ==
    ASSUME TypeOK, NEW h \in Handlers
    PROVE  /\ handler[h].op \in OfferOps => handler[h].of \in Offers
           /\ handler[h].op \in HubOps => handler[h].of \in Hubs
<1>1. handler[h] \in Requests \cup {Idle}
  BY DEF TypeOK
<1> QED
  BY <1>1 DEF Requests, Idle, OfferOps, HubOps, SenderOps

\* The shipment has just been created.
LEMMA InitInv == Init => Inv
BY HubsAssumption DEF Init, Inv, TypeOK, Shipment, Statuses, OfferStatuses, EventTypes, Idle,
   TimelineTellsStatus, Latest, Announces, CarriedBySomebody

\* Reading changes nothing but the thread.
LEMMA BeginKeepsInv ==
    ASSUME Inv, NEW h \in Handlers, NEW request \in Requests, Begin(h, request)
    PROVE  Inv'
<1>1. /\ UNCHANGED <<shipment, offers, events, job>>
      /\ handler' = [handler EXCEPT ![h] = request]
  BY DEF Begin
<1>2. TypeOK'
  BY <1>1 DEF Inv, TypeOK
<1>3. TimelineTellsStatus' /\ CarriedBySomebody'
  BY <1>1 DEF Inv, TimelineTellsStatus, Latest, CarriedBySomebody
<1> QED
  BY <1>2, <1>3 DEF Inv

\* A thread that ends keeps the types of what it does not touch.
LEMMA DoneKeepsTypes ==
    ASSUME TypeOK, NEW h \in Handlers, Done(h)
    PROVE  /\ handler' \in [Handlers -> Requests \cup {Idle}]
           /\ job' \in {"idle", "listed", "saved"}
BY DEF TypeOK, Done

\* A write that says where the parcel is and logs it, and leaves it in nobody's
\* hands, keeps the invariant whatever the offers become.
LEMMA LoggedWriteKeepsInv ==
    ASSUME Inv, NEW h \in Handlers, Done(h),
           NEW e \in EventTypes \ {"EXPIRED", "CARRIER_PICKUP"}, AddEvent(e),
           shipment' \in Shipment, shipment'.status = Announces[e],
           offers' \in [Offers -> OfferStatuses]
    PROVE  Inv'
<1>1. events' \in Seq(EventTypes)
  BY DEF Inv, TypeOK, AddEvent
<1>2. TypeOK'
  BY <1>1, DoneKeepsTypes DEF Inv, TypeOK
<1>3. TimelineTellsStatus'
  BY EntryTellsStatus DEF Inv, TypeOK
<1>4. shipment'.status # "IN_TRANSIT"
  BY DEF Announces, EventTypes
<1>5. CarriedBySomebody'
  BY <1>4 DEF CarriedBySomebody
<1> QED
  BY <1>2, <1>3, <1>5 DEF Inv

\* Putting a parcel down, by a carrier or by a hub, keeps the invariant.
LEMMA PutDownKeepsInv ==
    ASSUME Inv, NEW h \in Handlers, Done(h), NEW hub \in Hubs, PutDown(hub),
           offers' \in [Offers -> OfferStatuses]
    PROVE  Inv'
<1>1. shipment' \in Shipment
  BY DEF PutDown, Shipment, Statuses
<1>2. /\ ArrivalEvent(hub) \in EventTypes \ {"EXPIRED", "CARRIER_PICKUP"}
      /\ shipment'.status = Announces[ArrivalEvent(hub)]
  BY DEF PutDown, ArrivalEvent, EventTypes, Announces
<1>3. AddEvent(ArrivalEvent(hub))
  BY DEF PutDown
<1> HIDE DEF ArrivalEvent
<1> QED
  BY <1>1, <1>2, <1>3, LoggedWriteKeepsInv

\* Every write of a request keeps the invariant.
LEMMA WriteKeepsInv ==
    ASSUME Inv, NEW h \in Handlers, Write(h)
    PROVE  Inv'
<1>1. CASE Deposit(h)
  <2>1. shipment' \in Shipment /\ shipment'.status = Announces["DEPOSITED"]
    BY <1>1, HubsAssumption DEF Deposit, Shipment, Statuses, Announces
  <2> QED
    BY <1>1, <2>1, LoggedWriteKeepsInv DEF Deposit, EventTypes, Inv, TypeOK
<1>2. CASE Cancel(h)
  <2>1. shipment' \in Shipment /\ shipment'.status = Announces["CANCELLED"]
    BY <1>2 DEF Cancel, Shipment, Statuses, Announces, Inv, TypeOK
  <2> QED
    BY <1>2, <2>1, LoggedWriteKeepsInv DEF Cancel, EventTypes, Inv, TypeOK
<1>3. CASE CreateOffer(h)
  <2>1. /\ offers' \in [Offers -> OfferStatuses]
        /\ \A o \in Offers : offers[o] = "ACCEPTED" => offers'[o] = "ACCEPTED"
    BY <1>3 DEF CreateOffer, Inv, TypeOK, OfferStatuses
  <2>2. TypeOK'
    BY <1>3, <2>1, DoneKeepsTypes DEF CreateOffer, Inv, TypeOK
  <2>3. TimelineTellsStatus' /\ CarriedBySomebody'
    BY <1>3, <2>1 DEF CreateOffer, Inv, TimelineTellsStatus, Latest, CarriedBySomebody
  <2> QED
    BY <2>2, <2>3 DEF Inv
<1>4. CASE Accept(h)
  <2>1. handler[h].of \in Offers
    BY <1>4, RequestNames DEF Accept, Inv, OfferOps
  <2>2. /\ offers' \in [Offers -> OfferStatuses]
        /\ offers'[handler[h].of] = "ACCEPTED"
    BY <1>4, <2>1 DEF Accept, Accepted, Inv, TypeOK, OfferStatuses
  <2>3. /\ shipment' \in Shipment /\ shipment'.hub = NoHub
        /\ shipment'.status = Announces["CARRIER_PICKUP"]
    BY <1>4 DEF Accept, Shipment, Statuses, Announces, Inv, TypeOK
  <2>4. events' \in Seq(EventTypes)
    BY <1>4 DEF Accept, AddEvent, EventTypes, Inv, TypeOK
  <2>5. TypeOK'
    BY <1>4, <2>2, <2>3, <2>4, DoneKeepsTypes DEF Accept, Inv, TypeOK
  <2>6. TimelineTellsStatus'
    BY <1>4, <2>3, EntryTellsStatus DEF Accept, EventTypes, Inv, TypeOK
  <2>7. CarriedBySomebody'
    BY <2>1, <2>2, <2>3 DEF CarriedBySomebody
  <2> QED
    BY <2>5, <2>6, <2>7 DEF Inv
<1>5. CASE Complete(h)
  <2>1. offers' \in [Offers -> OfferStatuses]
    BY <1>5 DEF Complete, Inv, TypeOK, OfferStatuses
  <2> QED
    BY <1>5, <2>1, HubsAssumption, PutDownKeepsInv DEF Complete
<1>6. CASE ConfirmArrival(h)
  <2>1. handler[h].of \in Hubs
    BY <1>6, RequestNames DEF ConfirmArrival, Inv, HubOps
  <2> QED
    BY <1>6, <2>1, PutDownKeepsInv DEF ConfirmArrival, Inv, TypeOK
<1>7. CASE MarkReady(h)
  <2>1. shipment' \in Shipment /\ shipment'.status = Announces["READY"]
    BY <1>7 DEF MarkReady, Shipment, Statuses, Announces, Inv, TypeOK
  <2> QED
    BY <1>7, <2>1, LoggedWriteKeepsInv DEF MarkReady, EventTypes, Inv, TypeOK
<1>8. CASE VerifyPickup(h)
  <2>1. shipment' \in Shipment /\ shipment'.status = Announces["DELIVERED"]
    BY <1>8 DEF VerifyPickup, Shipment, Statuses, Announces, Inv, TypeOK
  <2> QED
    BY <1>8, <2>1, LoggedWriteKeepsInv DEF VerifyPickup, EventTypes, Inv, TypeOK
<1>9. CASE GiveUp(h)
  <2>1. TypeOK'
    BY <1>9, DoneKeepsTypes DEF GiveUp, Inv, TypeOK
  <2>2. TimelineTellsStatus' /\ CarriedBySomebody'
    BY <1>9 DEF GiveUp, Inv, TimelineTellsStatus, Latest, CarriedBySomebody
  <2> QED
    BY <2>1, <2>2 DEF Inv
<1> QED
  BY <1>1, <1>2, <1>3, <1>4, <1>5, <1>6, <1>7, <1>8, <1>9 DEF Write

\* Time and the expiry command keep the invariant.
LEMMA ExpiryKeepsInv ==
    ASSUME Inv, TimePasses \/ JobStep
    PROVE  Inv'
<1>1. CASE TimePasses
  <2>1. shipment' \in Shipment /\ shipment'.status = shipment.status /\ shipment'.hub = shipment.hub
    BY <1>1 DEF TimePasses, Inv, TypeOK, Shipment
  <2>2. TypeOK'
    BY <1>1, <2>1 DEF TimePasses, Inv, TypeOK
  <2> QED
    BY <1>1, <2>1, <2>2 DEF TimePasses, Inv, TimelineTellsStatus, Latest, CarriedBySomebody
<1>2. CASE SaveExpired
  <2>1. shipment' \in Shipment /\ shipment'.status = "EXPIRED"
    BY <1>2 DEF SaveExpired, Inv, TypeOK, Shipment, Statuses
  <2>2. TypeOK'
    BY <1>2, <2>1 DEF SaveExpired, Inv, TypeOK
  <2> QED
    BY <2>1, <2>2 DEF Inv, TimelineTellsStatus, CarriedBySomebody
<1>3. CASE LogExpired
  <2>1. TypeOK'
    BY <1>3 DEF LogExpired, AddEvent, EventTypes, Inv, TypeOK
  <2>2. TimelineTellsStatus'
    BY <1>3, ExpiryTellsNothing DEF LogExpired, Inv, TypeOK
  <2> QED
    BY <1>3, <2>1, <2>2 DEF LogExpired, Inv, CarriedBySomebody
<1>4. CASE ListOverdue \/ JobDies
  <2>1. TypeOK'
    BY <1>4 DEF ListOverdue, JobDies, Inv, TypeOK
  <2> QED
    BY <1>4, <2>1 DEF ListOverdue, JobDies, Inv, TimelineTellsStatus, Latest, CarriedBySomebody
<1> QED
  BY <1>1, <1>2, <1>3, <1>4 DEF JobStep

\* The invariant holds in every reachable state of a shipment.
THEOREM ShipmentInvHolds == Spec => []Inv
<1>1. Inv /\ [Next]_vars => Inv'
  <2> SUFFICES ASSUME Inv, [Next]_vars PROVE Inv'
    OBVIOUS
  <2>1. CASE UNCHANGED vars
    BY <2>1 DEF vars, Inv, TypeOK, TimelineTellsStatus, Latest, CarriedBySomebody
  <2>2. CASE Next
    BY <2>2, BeginKeepsInv, WriteKeepsInv, ExpiryKeepsInv DEF Next
  <2> QED
    BY <2>1, <2>2
<1> QED
  BY InitInv, <1>1, PTL DEF Spec

\* The rows keep their types.
THEOREM ShipmentTypeCorrect == Spec => []TypeOK
<1>1. Inv => TypeOK
  BY DEF Inv
<1> QED
  BY <1>1, ShipmentInvHolds, PTL

\* However requests and the expiry command overtake each other, the latest entry
\* of the timeline announces the status of the row, expiry apart.
THEOREM TimelineIsTrue == Spec => []TimelineTellsStatus
<1>1. Inv => TimelineTellsStatus
  BY DEF Inv
<1> QED
  BY <1>1, ShipmentInvHolds, PTL

\* A parcel under way always has a carrier whose offer was accepted.
THEOREM NeverLostUnderWay == Spec => []CarriedBySomebody
<1>1. Inv => CarriedBySomebody
  BY DEF Inv
<1> QED
  BY <1>1, ShipmentInvHolds, PTL
=============================================================================
