----------------------------- MODULE MCOperations -----------------------------
EXTENDS Pricing, Accounts, Reservations, Workforce, Chargers
CONSTANTS Topics
VARIABLE topic
MCId == Plan \cup Subscription \cup Tariff \cup Rule \cup {User, Clock} \cup Code \cup Token
        \cup {Rental, Tour} \cup Hire \cup Seats \cup Pack \cup Swap
        \cup {Driver, Route, Claim} \cup Shift \cup Payout \cup Rating \cup Stop \cup Student \cup Trip
        \cup Incident \cup Job
        \cup {Station, Presence} \cup ChargePoint \cup Connector \cup Template \cup Queued
MCHireEdit == {[first |-> 1]}
MCSeatsEdit == {[participants |-> 2]}
Rated(flat, kwh, minute) == [flat |-> flat, kwh |-> kwh, minute |-> minute]
MCRate == {Rated(1000, 40000, 10000)}
Term(type, priority, from, to, least, kind, on, value, cap) ==
  [type |-> type, priority |-> priority, from |-> from, to |-> to, plan |-> None, least |-> least,
   kind |-> kind, on |-> on, value |-> value, cap |-> cap]
MCTerms == {Term("TIME_OF_USE", 2, 8, 22, 0, "multiplier", "total", 150, 0),
            Term("TIME_OF_USE", 1, 22, 8, 0, "multiplier", "total", 50, 0),
            Term("PROMOTIONAL", 1, None, None, 5, "discount", "total", 50, 3000)}
MCBenefit == {[free |-> 5, percent |-> 0], [free |-> 0, percent |-> 10], [free |-> 5, percent |-> 10]}
Records == NoAccounts @@ NoReservations @@ NoChargers
MCTokenOf == [n \in 0..MaxSecond |-> SetToSeq(Token)[n + 1]]
\* What no definition chooses among.
Alike == Permutations(Call) \cup Permutations(Subscription) \cup Permutations(Hire)
         \cup Permutations(Seats)
Init == topic \in Topics /\ CallsInit(Records)
\* One call at a time.
Alone(c) == \A d \in Call \ {c} : Free(d)
On(t, A) == topic = t /\ A
Next ==
  /\ UNCHANGED topic
  /\ \/ \E c \in Call :
          \/ On("subscriptions", SubscriptionsNext(c))
          \/ On("pricing", Alone(c) /\ PricingNext(c))
          \/ On("accounts", AccountsNext(c))
          \/ On("rentals", RentalsNext(c)) \/ On("tours", ToursNext(c)) \/ On("swaps", SwapsNext(c))
          \/ On("shifts", DriversNext(c) \/ ShiftsNext(c)) \/ On("payouts", DriversNext(c) \/ PayoutsNext(c))
          \/ On("routes", RoutesNext(c) \/ StopsNext(c))
          \/ On("students", RoutesNext(c) \/ StudentsNext(c) \/ StartTrip(c))
          \/ On("trips", CreateRoute(c) \/ TripsNext(c))
          \/ On("reimbursements", ReimbursementsNext(c))
          \/ On("incidents", IncidentsNext(c)) \/ On("jobs", JobsNext(c))
          \/ On("stations", StationsNext(c) \/ ChargePointsNext(c))
          \/ On("connectors", CreateStation(c) \/ CreateChargePoint(c) \/ ConnectorsNext(c))
          \/ On("templates", CreateStation(c) \/ CreateChargePoint(c) \/ TemplatesNext(c))
          \/ On("queue", QueueNext(c))
          \/ Step(c)
     \/ On("pricing", TimePasses) \/ On("accounts", SecondPasses)
     \/ On("queue", ChargerChanges)
     \/ Restart
Spec == Init /\ [][Next]_<<vars, topic>>
TypeOK == SubscriptionsRows(row) /\ PricingRows(row) /\ AccountsRows(row) /\ ReservationsRows(row)
          /\ WorkforceRows(row) /\ ChargersRows(row)
===============================================================================
