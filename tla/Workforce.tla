------------------------------- MODULE Workforce -------------------------------
(***************************************************************************)
(* DriversService, ShuttleService, OperationsService and                   *)
(* ReimbursementService: the people of a fleet and what they do.  One      *)
(* driver, one shuttle route and one reimbursement are modelled; fields    *)
(* that no code reads again are left out, and a method that only writes    *)
(* such fields asks no more than that the record exists.                   *)
(***************************************************************************)
EXTENDS Calls, FiniteSets, FiniteSetsExt

CONSTANTS
  Driver, Shift, Payout, Rating,   \* the row of Driver; rows of DriverShift, ...
  Route, Stop, Student, Trip,      \* the row of ShuttleRoute; rows of RouteStop, ...
  Claim,                           \* the row of HomeChargingReimbursement
  Incident, Job,                   \* rows
  Amount,                          \* amounts of payouts and claims
  MaxAttendance                    \* the model's bound on the entries of a trip

ShiftStatus == {"SCHEDULED", "ACTIVE", "COMPLETED", "MISSED", "CANCELLED"}

ClaimStatus == {"PENDING", "APPROVED", "REJECTED", "PAID"}

IncidentStatus == {"OPEN", "ACKNOWLEDGED", "IN_PROGRESS", "RESOLVED", "CLOSED"}

JobStatus == {"OPEN", "ASSIGNED", "IN_PROGRESS", "COMPLETED", "CANCELLED", "SLA_BREACH"}

PayoutRow == [amount : Amount, status : {"PENDING", "COMPLETED"}]
StudentRow == [route : {Route, None}, active : BOOLEAN]
TripRow == [status : {"IN_PROGRESS", "COMPLETED"},
            attendance : UNION {[1..n -> Student] : n \in 0..MaxAttendance}]
ClaimRow == [status : ClaimStatus, requested : Amount, approved : Amount \cup {None},
             rejectedAt : BOOLEAN]

\* The times that are set, and whether the metadata hold a recovery time.
IncidentRow == [status : IncidentStatus, acknowledgedAt : BOOLEAN, resolvedAt : BOOLEAN,
                recovery : BOOLEAN]
JobRow == [status : JobStatus, startedAt : BOOLEAN, completedAt : BOOLEAN]

\* What updates may write: None stands for a field that is not given.
IncidentFields ==
  [status : IncidentStatus \cup {None}, acknowledgedAt : {TRUE, None},
   resolvedAt : {TRUE, None}, recovery : BOOLEAN \cup {None}]
ClaimFields ==
  [status : {"PENDING", "PAID", None}]
    \cup [status : {"APPROVED"}, approved : Amount]
    \cup [status : {"REJECTED"}, rejectedAt : {TRUE}]

\* None is no record, nor data of an update; Unseen is no record.
ASSUME WorkforceAssumption ==
  /\ Incident \subseteq Id /\ Claim \in Id
  /\ None \notin IncidentStatus /\ None \notin ClaimStatus /\ None \notin BOOLEAN
  /\ None \notin IncidentRow /\ None \notin ClaimRow /\ Unseen \notin ClaimRow
  /\ \A fields \in IncidentFields : Given(fields) # None
  /\ \A fields \in ClaimFields : Given(fields) # None

\* The same for drivers.  Their tables have names of their own.
ASSUME DriversAssumption ==
  /\ {Driver} \cup Shift \cup Payout \cup Rating \subseteq Id
  /\ Driver \notin Shift \cup Payout \cup Rating /\ Payout \cap Rating = {}
  /\ Shift \cap (Payout \cup Rating) = {}
  /\ IsFiniteSet(Call) /\ IsFiniteSet(Payout) /\ Amount \subseteq Nat
  /\ None # NoField /\ None \notin ShiftStatus /\ None \notin [earned : Nat] \cup PayoutRow
  /\ None \notin [status : ShiftStatus \cup {"COMPLETED"}] \cup [score : 1..5]

DriversRows(records) ==
  /\ records[Driver] \in [earned : Nat] \cup {None}
  /\ \A s \in Shift : records[s] \in [status : ShiftStatus] \cup {None}
  /\ \A p \in Payout : records[p] \in PayoutRow \cup {None}
  /\ \A r \in Rating : records[r] \in [score : 1..5] \cup {None}

\* And for shuttles.
ASSUME ShuttleAssumption ==
  /\ {Route} \cup Stop \cup Student \cup Trip \subseteq Id /\ Route \notin Stop \cup Student \cup Trip
  /\ Stop \cap (Student \cup Trip) = {} /\ Student \cap Trip = {}
  /\ IsFiniteSet(Stop) /\ MaxAttendance \in Nat
  /\ None # NoField /\ None # Route /\ None \notin BOOLEAN
  /\ None \notin [active : BOOLEAN] \cup [sequence : Nat] \cup StudentRow \cup TripRow
  /\ None \notin [route : {Route}] \cup [status : {"COMPLETED"}]
  /\ None \notin [attendance : UNION {[1..n -> Student] : n \in 0..MaxAttendance}]
  /\ Unseen \notin TripRow

ShuttleRows(records) ==
  /\ records[Route] \in [active : BOOLEAN] \cup {None}
  /\ \A s \in Stop : records[s] \in [sequence : 1..Cardinality(Stop)] \cup {None}
  /\ \A s \in Student : records[s] \in StudentRow \cup {None}
  /\ \A t \in Trip : records[t] \in TripRow \cup {None}

WorkforceRows(records) ==
  /\ DriversRows(records)
  /\ ShuttleRows(records)
  /\ records[Claim] \in ClaimRow \cup {None}
  /\ \A i \in Incident : records[i] \in IncidentRow \cup {None}
  /\ \A j \in Job : records[j] \in JobRow \cup {None}

-------------------------------------------------------------------------------
(* Drivers *)

\* One profile for a user: the database refuses the second.
CreateDriver(c) == Driver \in Unused({Driver}) /\ Decide(c, <<Insert(Driver, [earned |-> 0])>>)

UpdateDriver(c) == row[Driver] # None /\ Decide(c, <<Exists(Driver)>>)

DeleteDriver(c) == row[Driver] # None /\ Decide(c, <<Then("drop driver", Driver)>>)

\* The database refuses as long as there are shifts, payouts or ratings.
DropDriver(c) ==
  At(c, "drop driver") /\ Rows(Shift \cup Payout \cup Rating) = {}
    /\ Perform(c, "drop driver", Driver, None, <<>>)

CreateShift(c) ==
  \E s \in Unused(Shift) :
    Decide(c, <<Both(Insert(s, [status |-> "SCHEDULED"]), Exists(Driver))>>)

\* A client may write any status at any time.
ShiftEdit == {Given(fields) : fields \in [status : ShiftStatus \cup {None}]}

UpdateShift(c) == \E s \in Rows(Shift), edit \in ShiftEdit : Decide(c, <<Overwrite(s, edit)>>)

\* A method for shifts of these statuses.
ChangeShift(c, statuses, status) ==
  \E s \in Rows(Shift) :
    row[s].status \in statuses /\ Decide(c, <<Put(s, [status |-> status])>>)

StartShift(c) == ChangeShift(c, {"SCHEDULED"}, "ACTIVE")

EndShift(c) == ChangeShift(c, {"ACTIVE"}, "COMPLETED")

CancelShift(c) == ChangeShift(c, ShiftStatus \ {"COMPLETED"}, "CANCELLED")

\* The earnings are raised before the payout is there.
Mutant_PayoutOf(p, amount) ==
  <<Add(Driver, [earned |-> amount]),
    Both(Insert(p, [amount |-> amount, status |-> "PENDING"]), Exists(Driver))>>

PayoutOf(p, amount) ==
  <<Both(Insert(p, [amount |-> amount, status |-> "PENDING"]), Exists(Driver)),
    Add(Driver, [earned |-> amount])>>

CreatePayout(c) ==
  \E p \in Unused(Payout), amount \in Amount :
    row[Driver] # None /\ Decide(c, PayoutOf(p, amount))

ProcessPayout(c) == \E p \in Rows(Payout) : Decide(c, <<Overwrite(p, [status |-> "COMPLETED"])>>)

RatingInput == [score : {1, 5}]

RateDriver(c) ==
  \E r \in Unused(Rating), input \in RatingInput :
    Decide(c, <<Both(Insert(r, input), Exists(Driver))>>)

DriversNext(c) == CreateDriver(c) \/ UpdateDriver(c) \/ DeleteDriver(c) \/ DropDriver(c)

ShiftsNext(c) ==
  \/ CreateShift(c) \/ UpdateShift(c) \/ StartShift(c) \/ EndShift(c) \/ CancelShift(c)
  \/ RateDriver(c)

PayoutsNext(c) == CreatePayout(c) \/ ProcessPayout(c)

-------------------------------------------------------------------------------
(* Shuttles *)

RouteInput == [active : BOOLEAN]
RouteEdit == {Given(fields) : fields \in [active : BOOLEAN \cup {None}]}
StopInput == [sequence : 1..Cardinality(Stop)]
StudentInput == [route : {Route, None}, active : {TRUE}]
StudentEdit ==
  {Given(fields) : fields \in [route : {Route, None}, active : BOOLEAN \cup {None}]}

CreateRoute(c) ==
  \E input \in RouteInput : Route \in Unused({Route}) /\ Decide(c, <<Insert(Route, input)>>)

UpdateRoute(c) == \E edit \in RouteEdit : row[Route] # None /\ Decide(c, <<Overwrite(Route, edit)>>)

DeleteRoute(c) == row[Route] # None /\ Decide(c, <<Then("drop route", Route)>>)

\* Stops go with their route, students stay without it; a route with trips cannot go.
DropRoute(c) ==
  /\ At(c, "drop route") /\ row[Route] # None /\ Rows(Trip) = {}
  /\ row' = [i \in Id |-> IF i \in {Route} \cup Stop THEN None
                          ELSE IF i \in Rows(Student) THEN [row[i] EXCEPT !.route = None]
                          ELSE row[i]]
  /\ todo' = [todo EXCEPT ![c] = Tail(@)]
  /\ UNCHANGED history

AddStop(c) ==
  \E s \in Unused(Stop), input \in StopInput :
    Decide(c, <<Both(Insert(s, input), Exists(Route))>>)

UpdateStop(c) == \E s \in Rows(Stop), input \in StopInput : Decide(c, <<Overwrite(s, input)>>)

DeleteStop(c) == \E s \in Rows(Stop) : Decide(c, <<Overwrite(s, None)>>)

\* All stops that the client names get their place, or none does.
ReorderStops(c) ==
  \E s, t \in Rows(Stop) :
    s # t /\ Decide(c, <<Both(Overwrite(s, [sequence |-> 1]), Overwrite(t, [sequence |-> 2]))>>)

\* The query, if the client gives the student a route: there has to be one.
OnRoute(q, fields) ==
  IF "route" \in DOMAIN fields /\ fields.route # None THEN Both(q, Exists(Route)) ELSE q

CreateStudent(c) ==
  \E s \in Unused(Student), input \in StudentInput :
    Decide(c, <<OnRoute(Insert(s, input), input)>>)

UpdateStudent(c) ==
  \E s \in Rows(Student), edit \in StudentEdit : Decide(c, <<OnRoute(Overwrite(s, edit), edit)>>)

DeleteStudent(c) == \E s \in Rows(Student) : Decide(c, <<Overwrite(s, None)>>)

StartTrip(c) ==
  \E t \in Unused(Trip) :
    Decide(c, <<Both(Insert(t, [status |-> "IN_PROGRESS", attendance |-> <<>>]), Exists(Route))>>)

\* Only the new entry is written.
Mutant_Recorded(attendance, student) == <<student>>

Recorded(attendance, student) == Append(attendance, student)

\* The list that was read comes back with one more.  The status of the trip is not looked at.
RecordAttendance(c) ==
  \E t \in Rows(Trip), student \in Student :
    /\ Len(row[t].attendance) < MaxAttendance
    /\ Decide(c, <<Put(t, [attendance |-> Recorded(row[t].attendance, student)])>>)

EndTrip(c) ==
  \E t \in Rows(Trip) :
    row[t].status = "IN_PROGRESS" /\ Decide(c, <<Put(t, [status |-> "COMPLETED"])>>)

RoutesNext(c) == CreateRoute(c) \/ UpdateRoute(c) \/ DeleteRoute(c) \/ DropRoute(c)

StopsNext(c) == AddStop(c) \/ UpdateStop(c) \/ DeleteStop(c) \/ ReorderStops(c)

StudentsNext(c) == CreateStudent(c) \/ UpdateStudent(c) \/ DeleteStudent(c)

TripsNext(c) == StartTrip(c) \/ RecordAttendance(c) \/ EndTrip(c)

-------------------------------------------------------------------------------
(* Reimbursements *)

\* Of the user's and the fleet's own checks, no state here depends.
CreateReimbursement(c) ==
  \E amount \in Amount :
    /\ Claim \in Unused({Claim})
    /\ Decide(c, <<Insert(Claim, [status |-> "PENDING", requested |-> amount, approved |-> None,
                                  rejectedAt |-> FALSE])>>)

\* A claim that is approved already can be approved or rejected again.
Mutant_MayUpdate == row[Claim].status \in {"PENDING", "APPROVED"}

MayUpdate == row[Claim].status = "PENDING"

\* What the statuses that a client may give say more of the claim.
Verdict(status) ==
  IF status = "APPROVED"
  THEN {[status |-> status, approved |-> a] : a \in Amount \cup {row[Claim].requested}}
  ELSE IF status = "REJECTED" THEN {[status |-> status, rejectedAt |-> TRUE]}
  ELSE {[status |-> status]}

UpdateReimbursement(c) ==
  /\ row[Claim] # None /\ MayUpdate
  /\ \E status \in ClaimStatus \cup {None} : \E fields \in Verdict(status) :
       Decide(c, <<Put(Claim, Given(fields))>>)

MarkAsPaid(c) ==
  /\ row[Claim] # None /\ row[Claim].status = "APPROVED"
  /\ Decide(c, <<Put(Claim, [status |-> "PAID"])>>)

ReimbursementsNext(c) == CreateReimbursement(c) \/ UpdateReimbursement(c) \/ MarkAsPaid(c)

-------------------------------------------------------------------------------
(* Incidents and jobs *)

CreateIncident(c) ==
  \E i \in Unused(Incident) :
    Decide(c, <<Insert(i, [status |-> "OPEN", acknowledgedAt |-> FALSE, resolvedAt |-> FALSE,
                           recovery |-> FALSE])>>)

\* What the update of an incident writes, if it reads the record r.
Stamped(r, status, recovery) ==
  [status |-> status, recovery |-> recovery,
   acknowledgedAt |-> IF status = "ACKNOWLEDGED" /\ r.status = "OPEN" THEN TRUE ELSE None,
   resolvedAt |-> IF status = "RESOLVED" /\ r.status # "RESOLVED" THEN TRUE ELSE None]

\* A closed incident is resolved again without its time.
Mutant_IncidentUpdate(i, status, recovery) ==
  Put(i, Given([Stamped(row[i], status, recovery) EXCEPT
                  !.resolvedAt = IF row[i].status = "CLOSED" THEN None ELSE @]))

IncidentUpdate(i, status, recovery) ==
  Put(i, Given(Stamped(row[i], status, recovery)))

\* The metadata that a client gives replace those with the recovery time.
IncidentEdit == [status : IncidentStatus \cup {None}, recovery : {FALSE, None}]

UpdateIncident(c) ==
  \E i \in Rows(Incident), edit \in IncidentEdit :
    Decide(c, <<IncidentUpdate(i, edit.status, edit.recovery)>>)

CloseIncident(c) == \E i \in Rows(Incident) : Decide(c, <<Overwrite(i, [status |-> "CLOSED"])>>)

\* The metadata that were read come back with the recovery time.
RecoveryTime(i) == IF row[i].resolvedAt THEN <<Put(i, [recovery |-> TRUE])>> ELSE <<>>

CalculateRecoveryTime(c) ==
  \E i \in Rows(Incident) : row[i].resolvedAt /\ Decide(c, RecoveryTime(i))

\* The station of the incident is online: whatever happened there, it is resolved.
DetectRecovery(c) ==
  \E i \in Rows(Incident) :
    /\ row[i].status \notin {"RESOLVED", "CLOSED"}
    /\ Decide(c, <<Then("resolve", i), Then("recovery", i)>>)

\* The incident is read again for each of the two updates.
ResolveDetected(c) ==
  At(c, "resolve") /\ Continue(c, "resolve", <<IncidentUpdate(Subject(c), "RESOLVED", None)>>)

RecoveryDetected(c) == At(c, "recovery") /\ Continue(c, "recovery", RecoveryTime(Subject(c)))

CreateJob(c) ==
  \E j \in Unused(Job) :
    Decide(c, <<Insert(j, [status |-> "OPEN", startedAt |-> FALSE, completedAt |-> FALSE])>>)

JobEdit == JobStatus \cup {None}

UpdateJob(c) ==
  \E j \in Rows(Job), status \in JobEdit :
    Decide(c, <<Put(j, Given(
      [status |-> status,
       startedAt |-> IF status = "IN_PROGRESS" /\ row[j].status = "OPEN" THEN TRUE ELSE None,
       completedAt |-> IF status = "COMPLETED" /\ row[j].status # "COMPLETED" THEN TRUE ELSE None]))>>)

\* Whatever the status of the job is.
OverwriteJob(c, fields) == \E j \in Rows(Job) : Decide(c, <<Overwrite(j, fields)>>)

AssignJob(c) == OverwriteJob(c, [status |-> "ASSIGNED"])
StartJob(c) == OverwriteJob(c, [status |-> "IN_PROGRESS", startedAt |-> TRUE])
CompleteJob(c) == OverwriteJob(c, [status |-> "COMPLETED", completedAt |-> TRUE])
CancelJob(c) == OverwriteJob(c, [status |-> "CANCELLED"])

IncidentsNext(c) ==
  \/ CreateIncident(c) \/ UpdateIncident(c) \/ CloseIncident(c)
  \/ CalculateRecoveryTime(c) \/ DetectRecovery(c) \/ ResolveDetected(c) \/ RecoveryDetected(c)

JobsNext(c) ==
  CreateJob(c) \/ UpdateJob(c) \/ AssignJob(c) \/ StartJob(c) \/ CompleteJob(c) \/ CancelJob(c)

\* The services on their own.
DriversSpec ==
  CallsInit(NoField)
    /\ [][(\E c \in Call : DriversNext(c) \/ ShiftsNext(c) \/ PayoutsNext(c) \/ Step(c)) \/ Restart]_vars

ShuttlesSpec ==
  CallsInit(NoField)
    /\ [][\/ \E c \in Call : RoutesNext(c) \/ StopsNext(c) \/ StudentsNext(c) \/ TripsNext(c) \/ Step(c)
          \/ Restart]_vars

IncidentsSpec ==
  CallsInit(NoField) /\ [][(\E c \in Call : IncidentsNext(c) \/ Step(c)) \/ Restart]_vars

ReimbursementsSpec ==
  CallsInit(NoField) /\ [][(\E c \in Call : ReimbursementsNext(c) \/ Step(c)) \/ Restart]_vars

-------------------------------------------------------------------------------
(* Properties *)

\* What was paid out, payout by payout.
PaidOut == [p \in Payout |-> IF row[p] = None THEN 0 ELSE row[p].amount]

\* The earnings on record are never more than the payouts of the driver: a payout that fails, or
\* a restart between its two writes, leaves them too low at worst (drivers.service.ts:248, 261).
EarningsHavePayouts ==
  row[Driver] # None =>
    row[Driver].earned <= SumFunctionOnSet(PaidOut, Payout)

\* An attendance of a trip is lost only to a call that did not see the trip as it was: the list
\* is read and written back as a whole (shuttle.service.ts:236).
AttendanceIsKept ==
  [][\A t \in Rows(Trip) :
       \/ t \in raced'
       \/ SubSeq(row'[t].attendance, 1, Len(row[t].attendance)) = row[t].attendance]_vars

\* What the checks of ReimbursementService allow: a claim is decided on once, and paid once it is
\* approved.  Claims are told apart by status and by whether they were ever rejected.
NoClaim == <<"absent", FALSE>>

ClaimMove ==
  {<<NoClaim, <<"PENDING", FALSE>>>>, <<<<"APPROVED", FALSE>>, <<"PAID", FALSE>>>>}
    \cup {<<<<"PENDING", FALSE>>, <<status, status = "REJECTED">>>> : status \in ClaimStatus}

ClaimLife ==
  INSTANCE Lifecycle WITH
    Item <- {Claim}, Stage <- (ClaimStatus \X BOOLEAN) \cup {NoClaim}, Absent <- NoClaim,
    Move <- ClaimMove,
    stage <- [i \in {Claim} |-> IF row[i] = None THEN NoClaim ELSE <<row[i].status, row[i].rejectedAt>>],
    doubtful <- raced \cap {Claim}

\* A claim goes through its statuses in this order, so one that was rejected is never paid, unless
\* a call decided on the claim as it was before (reimbursement.service.ts:161, 200).
ClaimFollowsItsLife == ClaimLife!Spec

\* A resolved incident has the time of its resolution, without which it counts as a breach of
\* its deadline (operations.service.ts:95, 319), whatever updates it and how often.
ResolvedHasItsTime ==
  \A i \in Rows(Incident) : row[i].status = "RESOLVED" => row[i].resolvedAt
===============================================================================
