------------------------------ MODULE Reservations ------------------------------
(***************************************************************************)
(* RentalsService, ToursService and SwapService: a rental vehicle and a    *)
(* tour with their bookings, and the batteries of a swap station.  Each    *)
(* booking is checked against the others in one query and inserted by      *)
(* another.  Bookings of other vehicles and other dates of a tour do not   *)
(* matter.  A booking ends on the day it begins or later.                  *)
(***************************************************************************)
EXTENDS Calls, Integers, FiniteSets, FiniteSetsExt

CONSTANTS
  Rental, Hire,     \* the row of RentalVehicle; rows of RentalBooking
  Tour, Seats,      \* the row of Tour; rows of TourBooking of one date
  Pack, Swap,       \* rows of BatteryPack and SwapSession
  Day, Capacity,    \* days; capacities and numbers of participants
  HireEdit,         \* fields a client writes in a booking of the vehicle,
  SeatsEdit         \* and in one of the tour

HireStatus == {"PENDING", "CONFIRMED", "IN_PROGRESS", "COMPLETED", "CANCELLED"}

\* What a client can write in a booking of a tour is not restricted; other words count as PENDING.
SeatsStatus == {"PENDING", "CONFIRMED", "CANCELLED"}

RentalRow == [available : BOOLEAN]
HireRow == [first : Day, last : Day, status : HireStatus]
SeatsRow == [participants : Capacity, status : SeatsStatus]

\* What a client can write later in a booking of the vehicle, and in one of the tour.
HireFields == [first : Day \cup {None}, last : Day \cup {None}, status : HireStatus \cup {None}]
SeatsFields == [participants : Capacity \cup {None}, status : SeatsStatus \cup {None}]

ASSUME EditAssumption ==
  /\ HireEdit \subseteq {Given(fields) : fields \in HireFields}
  /\ SeatsEdit \subseteq {Given(fields) : fields \in SeatsFields}

ASSUME RentalsAssumption ==
  /\ {Rental} \cup Hire \subseteq Id /\ Rental \notin Hire /\ Day \subseteq Int
  /\ None # NoField /\ None \notin RentalRow \cup HireRow \cup HireEdit \cup [status : HireStatus]
  /\ Unseen \notin HireRow

\* A tour without a capacity, or of capacity 0, takes any number: those are left out.
ASSUME ToursAssumption ==
  /\ {Tour} \cup Seats \subseteq Id /\ Tour \notin Seats /\ IsFiniteSet(Seats)
  /\ Capacity \subseteq Nat \ {0}
  /\ None # NoField /\ None \notin [capacity : Capacity] \cup SeatsRow \cup SeatsEdit \cup [status : SeatsStatus]
  /\ Unseen \notin [capacity : Capacity] \cup SeatsRow

RentalsRows(records) ==
  /\ records[Rental] \in RentalRow \cup {None}
  /\ \A b \in Hire : records[b] \in HireRow \cup {None}

ToursRows(records) ==
  /\ records[Tour] \in [capacity : Capacity] \cup {None}
  /\ \A b \in Seats : records[b] \in SeatsRow \cup {None}

ReservationsRows(records) ==
  /\ RentalsRows(records) /\ ToursRows(records)
  /\ \A p \in Pack : records[p] \in [charged : BOOLEAN]
  /\ \A s \in Swap : records[s] \in [pack : Pack, status : {"INITIATED", "COMPLETED"}] \cup {None}

NoReservations == [p \in Pack |-> [charged |-> TRUE]]

\* A method for bookings of these statuses.
ChangeBooking(c, T, statuses, status) ==
  \E b \in Rows(T) : row[b].status \in statuses /\ Decide(c, <<Put(b, [status |-> status])>>)

-------------------------------------------------------------------------------
(* Rentals *)

RentalInput == RentalRow

CreateRentalVehicle(c) ==
  \E input \in RentalInput : Rental \in Unused({Rental}) /\ Decide(c, <<Insert(Rental, input)>>)

UpdateRentalVehicle(c) ==
  \E input \in RentalInput : row[Rental] # None /\ Decide(c, <<Overwrite(Rental, input)>>)

DeleteRentalVehicle(c) == row[Rental] # None /\ Decide(c, <<Then("drop rental", Rental)>>)

\* The database refuses as long as there are bookings; they are never deleted.
DropRental(c) ==
  At(c, "drop rental") /\ Rows(Hire) = {} /\ Perform(c, "drop rental", Rental, None, <<>>)

Blocking == {b \in Rows(Hire) : row[b].status \notin {"CANCELLED", "COMPLETED"}}

\* Days on which one booking ends and the next begins are not compared.
Mutant_Overlaps(b, first, last) == row[b].first < last /\ row[b].last > first

\* The day on which a booking ends is not free yet.
Overlaps(b, first, last) == row[b].first <= last /\ row[b].last >= first

HireInput == {h \in [first : Day, last : Day, status : {"PENDING"}] : h.first <= h.last}

CreateHire(c) ==
  \E b \in Unused(Hire), input \in HireInput :
    /\ row[Rental] # None /\ row[Rental].available
    /\ \A other \in Blocking : ~Overlaps(other, input.first, input.last)
    /\ Decide(c, <<Both(Insert(b, input), Exists(Rental))>>)

\* Dates and status as the client likes, whatever other bookings there are.
UpdateHire(c) ==
  \E b \in Rows(Hire), edit \in HireEdit : Decide(c, <<Overwrite(b, edit)>>)

\* Whatever the status is.
ConfirmHire(c) == \E b \in Rows(Hire) : Decide(c, <<Overwrite(b, [status |-> "CONFIRMED"])>>)

CheckOut(c) == ChangeBooking(c, Hire, {"CONFIRMED"}, "IN_PROGRESS")

CheckIn(c) == ChangeBooking(c, Hire, {"IN_PROGRESS"}, "COMPLETED")

CancelHire(c) == ChangeBooking(c, Hire, HireStatus \ {"IN_PROGRESS", "COMPLETED"}, "CANCELLED")

-------------------------------------------------------------------------------
(* Tours *)

TourInput == [capacity : Capacity]

CreateTour(c) ==
  \E input \in TourInput : Tour \in Unused({Tour}) /\ Decide(c, <<Insert(Tour, input)>>)

UpdateTour(c) ==
  \E input \in TourInput : row[Tour] # None /\ Decide(c, <<Overwrite(Tour, input)>>)

DeleteTour(c) == row[Tour] # None /\ Decide(c, <<Then("drop tour", Tour)>>)

DropTour(c) ==
  At(c, "drop tour") /\ Rows(Seats) = {} /\ Perform(c, "drop tour", Tour, None, <<>>)

\* The participants of a booking, unless it is cancelled.
Places == [b \in Seats |-> IF row[b] # None /\ row[b].status # "CANCELLED" THEN row[b].participants ELSE 0]

Taken(T) == SumFunctionOnSet(Places, T)

\* A place is free: the number of participants is not looked at.
Mutant_HasRoom(n) == Taken(Rows(Seats)) < row[Tour].capacity

HasRoom(n) == Taken(Rows(Seats)) + n <= row[Tour].capacity

\* Whether the tour is active is not asked.
SeatsInput == [participants : Capacity, status : {"PENDING"}]

BookTour(c) ==
  \E b \in Unused(Seats), input \in SeatsInput :
    /\ row[Tour] # None /\ HasRoom(input.participants)
    /\ Decide(c, <<Both(Insert(b, input), Exists(Tour))>>)

UpdateTourBooking(c) ==
  \E b \in Rows(Seats), edit \in SeatsEdit : Decide(c, <<Overwrite(b, edit)>>)

CancelTourBooking(c) == ChangeBooking(c, Seats, SeatsStatus \ {"CANCELLED"}, "CANCELLED")

\* Whatever the status is.
ConfirmTourBooking(c) == \E b \in Rows(Seats) : Decide(c, <<Overwrite(b, [status |-> "CONFIRMED"])>>)

-------------------------------------------------------------------------------
(* Battery swaps *)

\* Nothing reserves the pack: nor does any method change its status.
InitiateSwap(c) ==
  \E s \in Unused(Swap), p \in Pack :
    row[p].charged /\ Decide(c, <<Insert(s, [pack |-> p, status |-> "INITIATED"])>>)

CompleteSwap(c) == \E s \in Rows(Swap) : Decide(c, <<Overwrite(s, [status |-> "COMPLETED"])>>)

-------------------------------------------------------------------------------
RentalsNext(c) ==
  \/ CreateRentalVehicle(c) \/ UpdateRentalVehicle(c) \/ DeleteRentalVehicle(c) \/ DropRental(c)
  \/ CreateHire(c) \/ UpdateHire(c) \/ ConfirmHire(c) \/ CheckOut(c) \/ CheckIn(c) \/ CancelHire(c)

ToursNext(c) ==
  \/ CreateTour(c) \/ UpdateTour(c) \/ DeleteTour(c) \/ DropTour(c)
  \/ BookTour(c) \/ UpdateTourBooking(c) \/ CancelTourBooking(c) \/ ConfirmTourBooking(c)

SwapsNext(c) == InitiateSwap(c) \/ CompleteSwap(c)

\* The rentals on their own.
RentalsSpec ==
  CallsInit(NoField) /\ [][(\E c \in Call : RentalsNext(c) \/ Step(c)) \/ Restart]_vars

\* The tours on their own.
ToursSpec ==
  CallsInit(NoField) /\ [][(\E c \in Call : ToursNext(c) \/ Step(c)) \/ Restart]_vars

-------------------------------------------------------------------------------
(* Properties *)

\* Two bookings of a vehicle that still stand have no day in common, unless one of them was
\* made while other calls wrote, was edited or confirmed by hand, or was brought back by a call
\* that had read it before.
VehicleRentedOnce ==
  \A b, other \in Blocking \ (crowded \cup raced) :
    b # other => row[b].first > row[other].last \/ row[b].last < row[other].first

\* Those who booked a tour fit in it, together, without bookings that were made while other
\* calls wrote or were edited; as long as nobody lowers the capacity.
ToursFit ==
  row[Tour] # None /\ Tour \notin raced =>
    Taken(Rows(Seats) \ (crowded \cup raced)) <= row[Tour].capacity
===============================================================================
