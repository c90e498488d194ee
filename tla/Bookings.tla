------------------------------- MODULE Bookings -------------------------------
(***************************************************************************)
(* The bookings of one station: BookingsService (create, update,           *)
(* updateStatus, remove) and FleetSchedulingService.createFleetBooking,    *)
(* which share the table Booking.                                          *)
(*                                                                         *)
(* Every call is two queries: one looks (for a booking in the way, or for  *)
(* the booking to change), one writes what was decided on.  No transaction *)
(* and no constraint of the table ties them together, and other calls run  *)
(* in between.  A call that is refused, or one of whose queries fails,     *)
(* leaves the table alone.                                                 *)
(***************************************************************************)
EXTENDS Naturals, FiniteSets

CONSTANTS
  Job,        \* calls; the booking that a call creates goes by its name
  Connector,
  Whole,      \* a booking without a connectorId
  Priority,   \* priority scores fleets book with; a booking by a user has none (0)
  MaxTime,    \* bound: times
  None

ASSUME BookingsAssumption ==
  /\ Priority \subseteq Nat \ {0}
  /\ MaxTime \in Nat
  /\ None \notin Nat

Time == 0..MaxTime
Live == {"CONFIRMED", "CHECKED_IN", "IN_PROGRESS"}
Final == {"CANCELLED", "COMPLETED"}
Status == Live \cup Final \cup {"PENDING", "EXPIRED"}

Slot == [conn : Connector \cup {Whole}, from : Time, to : Time]
Row == [slot : Slot, score : Priority \cup {0}, status : Status]
\* A field of an update that is None is not written.
Change == [from : Time \cup {None}, to : Time \cup {None}, status : Status \cup {None}]

ASSUME NoRowAssumption == None \notin Row \cup Status

VARIABLES
  row,        \* row[b]: the booking b
  pc,         \* the write a call is about to do, or how it ended
  target,     \* target[j]: the booking j is going to write
  new,        \* new[j]: the row j is going to insert
  change,     \* change[j]: the change j is going to make
  saw,        \* saw[b]: the bookings that were in the table when b was checked
  altered,    \* bookings that were moved, or brought back after they had stopped to count
  ended,      \* bookings that were final at some time
  raced       \* bookings that two calls were changing at the same time

table == <<row, altered, ended>>
calls == <<pc, target, new, change>>
vars == <<table, calls, saw, raced>>

TypeOK ==
  /\ row \in [Job -> Row \cup {None}]
  /\ pc \in [Job -> {"new", "insert", "update", "delete", "done", "refused", "failed"}]
  /\ target \in [Job -> Job]
  /\ new \in [Job -> Row \cup {None}]
  /\ change \in [Job -> Change \cup {None}]
  /\ saw \in [Job -> SUBSET Job]
  /\ altered \in SUBSET Job
  /\ ended \in SUBSET Job
  /\ raced \in SUBSET Job

Init ==
  /\ row = [b \in Job |-> None]
  /\ pc = [j \in Job |-> "new"]
  /\ target = [j \in Job |-> j]
  /\ new = [j \in Job |-> None]
  /\ change = [j \in Job |-> None]
  /\ saw = [b \in Job |-> {}]
  /\ altered = {} /\ ended = {} /\ raced = {}

Goto(j, l) == pc' = [pc EXCEPT ![j] = l]

Booked == {b \in Job : row[b] # None}

-------------------------------------------------------------------------------
(* New bookings *)

\* A booking that was checked in does not block its slot any more.
Mutant_Blocks(r, s) ==
  /\ r.status \in {"CONFIRMED", "IN_PROGRESS"}
  /\ s.conn = Whole \/ r.slot.conn = s.conn
  /\ r.slot.from < s.to /\ r.slot.to > s.from

\* The query for bookings in the way of slot s.  Without a connector it finds those of every
\* connector; with one it finds that connector's, and none of the whole station.
Blocks(r, s) ==
  /\ r.status \in Live
  /\ s.conn = Whole \/ r.slot.conn = s.conn
  /\ r.slot.from < s.to /\ r.slot.to > s.from

InTheWay(s) == {b \in Booked : Blocks(row[b], s)}

\* The look before an insert, and what is going to be inserted if all is well.
CheckSlot(j, s, p, ok) ==
  /\ pc[j] = "new"
  /\ saw' = [saw EXCEPT ![j] = Booked]
  /\ IF ok
     THEN /\ Goto(j, "insert")
          /\ new' = [new EXCEPT ![j] = [slot |-> s, score |-> p, status |-> "CONFIRMED"]]
     ELSE Goto(j, "refused") /\ UNCHANGED new
  /\ UNCHANGED <<table, target, change, raced>>

\* create
CheckBooking(j, s) == CheckSlot(j, s, 0, s.from < s.to /\ InTheWay(s) = {})

\* createFleetBooking does not compare the times, and overrides bookings of a lower score.
\* Those stay as they are.
CheckFleetBooking(j, s, p) ==
  CheckSlot(j, s, p, \A b \in InTheWay(s) : row[b].score < p)

Insert(j) ==
  /\ pc[j] = "insert"
  /\ row' = [row EXCEPT ![j] = new[j]]
  /\ Goto(j, "done")
  /\ UNCHANGED <<altered, ended, target, new, change, saw, raced>>

-------------------------------------------------------------------------------
(* Changes *)

\* A final booking can be updated.
Mutant_Find(j, b, l) ==
  /\ pc[j] = "new"
  /\ Goto(j, IF b \in Booked THEN l ELSE "refused")
  /\ target' = [target EXCEPT ![j] = b]
  /\ raced' = IF \E k \in Job \ {j} : pc[k] \in {"update", "delete"} /\ target[k] = b
              THEN raced \cup {b} ELSE raced
  /\ UNCHANGED <<table, new, saw>>

\* findOne, and the test for a finalised booking that update and updateStatus make.
Find(j, b, l) ==
  /\ pc[j] = "new"
  /\ Goto(j, IF b \in Booked /\ (l = "delete" \/ row[b].status \notin Final)
             THEN l ELSE "refused")
  /\ target' = [target EXCEPT ![j] = b]
  /\ raced' = IF \E k \in Job \ {j} : pc[k] \in {"update", "delete"} /\ target[k] = b
              THEN raced \cup {b} ELSE raced
  /\ UNCHANGED <<table, new, saw>>

\* update with new times, or with one of them or neither.
FindToMove(j, b, f, t) ==
  /\ Find(j, b, "update")
  /\ change' = [change EXCEPT ![j] = [from |-> f, to |-> t, status |-> None]]

\* updateStatus, of which check-in and cancellation are cases.
FindToSet(j, b, s) ==
  /\ Find(j, b, "update")
  /\ change' = [change EXCEPT ![j] = [from |-> None, to |-> None, status |-> s]]

FindToRemove(j, b) == Find(j, b, "delete") /\ UNCHANGED change

\* A field that the caller left out is written as null.
Mutant_Or(v, w) == v

\* Prisma does not write a field that is undefined.
Or(v, w) == IF v = None THEN w ELSE v

\* The row r after the change c.
Applied(c, r) ==
  [slot |-> [conn |-> r.slot.conn, from |-> Or(c.from, r.slot.from), to |-> Or(c.to, r.slot.to)],
   score |-> r.score,
   status |-> Or(c.status, r.status)]

Alters(r, q) == r.slot # q.slot \/ (r.status \notin Live /\ q.status \in Live)

\* The update, whatever has become of the booking by now; it throws if it is gone.
Update(j) ==
  LET b == target[j]
      r == Applied(change[j], row[b])
  IN  /\ pc[j] = "update"
      /\ IF b \in Booked
         THEN /\ row' = [row EXCEPT ![b] = r]
              /\ altered' = IF Alters(row[b], r) THEN altered \cup {b} ELSE altered
              /\ ended' = IF r.status \in Final THEN ended \cup {b} ELSE ended
              /\ Goto(j, "done")
         ELSE Goto(j, "failed") /\ UNCHANGED table
      /\ UNCHANGED <<target, new, change, saw, raced>>

Delete(j) ==
  /\ pc[j] = "delete"
  /\ row' = [row EXCEPT ![target[j]] = None]
  /\ Goto(j, IF target[j] \in Booked THEN "done" ELSE "failed")
  /\ UNCHANGED <<altered, ended, target, new, change, saw, raced>>

-------------------------------------------------------------------------------
(* Other ends *)

\* The caller may not see the booking, the fleet or the vehicle is not found, or a query
\* fails.  PATCH :id/extend ends here too: it writes a column that is not there.
GiveUp(j) ==
  /\ pc[j] \in {"new", "insert", "update", "delete"}
  /\ Goto(j, IF pc[j] = "new" THEN "refused" ELSE "failed")
  /\ UNCHANGED <<table, target, new, change, saw, raced>>

-------------------------------------------------------------------------------
Next ==
  \E j \in Job :
    \/ \E s \in Slot : CheckBooking(j, s) \/ \E p \in Priority : CheckFleetBooking(j, s, p)
    \/ \E b \in Job :
         \/ \E f, t \in Time \cup {None} : FindToMove(j, b, f, t)
         \/ \E s \in Status : FindToSet(j, b, s)
         \/ FindToRemove(j, b)
    \/ Insert(j) \/ Update(j) \/ Delete(j)
    \/ GiveUp(j)

Spec == Init /\ [][Next]_vars

-------------------------------------------------------------------------------
(* Properties *)

Overlap(r, q) == r.from < q.to /\ r.to > q.from

SameConnector(r, q) == r.conn = q.conn \/ r.conn = Whole \/ q.conn = Whole

Clash(a, b) ==
  /\ a # b /\ a \in Booked /\ b \in Booked
  /\ row[a].status \in Live /\ row[b].status \in Live
  /\ Overlap(row[a].slot, row[b].slot) /\ SameConnector(row[a].slot, row[b].slot)

\* Two bookings in force never claim one connector at one time.
NoDoubleBooking == \A a, b \in Job : ~Clash(a, b)

\* Two bookings in force that nobody moved or brought back clash for three reasons only: they
\* were checked at the same time; the later one is a fleet's and outranks the earlier one; or
\* it names a connector and the earlier one has the whole station.
ClashIsExplained ==
  \A a, b \in Job \ altered : Clash(a, b) /\ a \in saw[b] =>
    \/ row[a].score < row[b].score
    \/ row[a].slot.conn = Whole /\ row[b].slot.conn # Whole

\* A booking that was cancelled or completed stays so, or is removed, unless two calls were
\* changing it at the same time.
FinalUnlessRaced ==
  \A b \in ended \ raced : b \in Booked => row[b].status \in Final
===============================================================================
