-------------------------------- MODULE Chargers --------------------------------
(***************************************************************************)
(* StationsService, ChargePointsService, ConnectorsService,                *)
(* VendorConfigService and the queue of SmartChargingService: one station, *)
(* its charge points and their connectors, the configuration templates of  *)
(* one vendor, and who waits for the charger.                              *)
(*                                                                         *)
(* No code starts a ChargingSession that a check for active sessions finds,*)
(* nor gives a connector a current session: nothing is refused for that.   *)
(***************************************************************************)
EXTENDS Calls, Integers, FiniteSetsExt

CONSTANTS
  Station,                \* the row of Station, by its code
  ChargePoint, Connector, \* rows
  Template,               \* rows of VendorConfigTemplate
  Queued,                 \* members of the set charger:<id>:queue of Redis
  Presence,               \* what Redis and the session manager say of the charger
  Number,                 \* numbers of connectors at a charge point
  MaxCount                \* bound: no count of connectors is moved further from 0

\* FAULTED stands for all the others, which no check tells apart.
ConnectorStatus == {"AVAILABLE", "RESERVED", "FAULTED"}

ConnectorRow == [point : ChargePoint, number : Number, status : ConnectorStatus]
TemplateRow == [default : BOOLEAN]

ASSUME ChargersAssumption ==
  /\ Template \cup Connector \subseteq Id
  /\ Template \cap ({Station, Presence} \cup ChargePoint \cup Connector \cup Queued) = {}
  /\ Connector \cap ({Station, Presence} \cup ChargePoint \cup Queued) = {}
  /\ None \notin TemplateRow \cup BOOLEAN /\ Unseen \notin TemplateRow

ChargersRows(records) ==
  /\ records[Station] # None => records[Station].connectors \in Nat
  /\ \A p \in ChargePoint :
       records[p] # None => records[p].count \in Int /\ records[p].template \in Template \cup {None}
  /\ \A n \in Connector : records[n] \in ConnectorRow \cup {None}
  /\ \A t \in Template : records[t] \in TemplateRow \cup {None}
  /\ \A q \in Queued : records[q] \in [fleet : BOOLEAN] \cup {None}

NoChargers == [i \in {Presence} |-> [online |-> FALSE, busy |-> FALSE]]

-------------------------------------------------------------------------------
(* Stations and charge points *)

\* Of what clients give, the counts.
StationInput == [connectors : {0}]
StationEdit == {Given(fields) : fields \in [connectors : {0, 1, None}]}
PointInput == [count : {1}, template : {None}]
PointEdit == {Given(fields) : fields \in [count : {1, 2, None}]}

CreateStation(c) ==
  \E input \in StationInput : Station \in Unused({Station}) /\ Decide(c, <<Insert(Station, input)>>)

UpdateStation(c) ==
  \E edit \in StationEdit : row[Station] # None /\ Decide(c, <<Overwrite(Station, edit)>>)

\* Only fields that no code here reads are written.
UpdateHealth(c) == row[Station] # None /\ Decide(c, <<Exists(Station)>>)

DeleteStation(c) == row[Station] # None /\ Decide(c, <<Then("drop station", Station)>>)

\* What goes with the record i.
Parts(i) ==
  IF i = Station THEN ChargePoint \cup Connector
  ELSE {n \in Rows(Connector) : row[n].point = i}

\* A record goes, and by cascade what it is made of, as it is by now.
Drop(c, name) ==
  /\ At(c, name) /\ row[Subject(c)] # None
  /\ LET gone == {Subject(c)} \cup Parts(Subject(c))
     IN row' = [i \in Id |-> IF i \in gone THEN None ELSE row[i]]
  /\ todo' = [todo EXCEPT ![c] = Tail(@)]
  /\ UNCHANGED history

DropStation(c) == Drop(c, "drop station")

\* The connectors are counted, and the count is written later.
CountAgain == <<Then("count", Station)>>

Recount(c) ==
  At(c, "count") /\ Continue(c, "count", <<Overwrite(Station, [connectors |-> Cardinality(Rows(Connector))])>>)

\* A charge point is given a count of connectors and has none.
CreateChargePoint(c) ==
  \E p \in Unused(ChargePoint), input \in PointInput :
    /\ row[Station] # None
    /\ Decide(c, <<Both(Insert(p, input), Exists(Station))>> \o CountAgain)

UpdateChargePoint(c) ==
  \E p \in Rows(ChargePoint), edit \in PointEdit : Decide(c, <<Overwrite(p, edit)>>)

\* updateStatus and updateHeartbeat.
TouchChargePoint(c) == \E p \in Rows(ChargePoint) : Decide(c, <<Exists(p)>>)

DeleteChargePoint(c) ==
  \E p \in Rows(ChargePoint) : Decide(c, <<Then("drop point", p)>> \o CountAgain)

DropChargePoint(c) == Drop(c, "drop point")

-------------------------------------------------------------------------------
(* Connectors *)

Numbered(p, number) == {n \in Rows(Connector) : row[n].point = p /\ row[n].number = number}

NewConnector(p, number) == Then("connector", <<p, number>>)

\* A charge point has one connector of a number: the database refuses another one.
InsertConnector(c) ==
  LET p == Subject(c)[1]
      number == Subject(c)[2]
  IN /\ At(c, "connector") /\ row[p] # None /\ Numbered(p, number) = {}
     /\ \E n \in Unused(Connector) :
          Perform(c, "connector", n, [point |-> p, number |-> number, status |-> "AVAILABLE"], <<>>)

\* The counts of the charge point and of the station follow.
AddConnector(c) ==
  \E p \in Rows(ChargePoint), number \in Number :
    /\ Numbered(p, number) = {} /\ row[p].count < MaxCount
    /\ Decide(c, <<NewConnector(p, number), Add(p, [count |-> 1])>> \o CountAgain)

RemoveConnector(c) ==
  \E n \in Rows(Connector) :
    /\ row[row[n].point].count > -MaxCount
    /\ Decide(c, <<Delete(n), Add(row[n].point, [count |-> -1])>> \o CountAgain)

\* The same by ConnectorsService, which leaves the counts as they are.
CreateConnector(c) ==
  \E p \in Rows(ChargePoint), number \in Number :
    Numbered(p, number) = {} /\ Decide(c, <<NewConnector(p, number)>>)

DeleteConnector(c) == \E n \in Rows(Connector) : Decide(c, <<Delete(n)>>)

ConnectorEdit == {Given(fields) : fields \in [status : ConnectorStatus \cup {None}]}

\* A status that the client leaves out is written all the same.
Mutant_UpdateConnector(c) ==
  \E n \in Rows(Connector), status \in ConnectorStatus \cup {None} :
    Decide(c, <<Overwrite(n, [status |-> status])>>)

\* An administrator or a technician writes any status.
UpdateConnector(c) ==
  \E n \in Rows(Connector), edit \in ConnectorEdit : Decide(c, <<Overwrite(n, edit)>>)

\* Nobody's name is kept: whoever asks can release it.
ReserveConnector(c) ==
  \E n \in Rows(Connector) :
    row[n].status = "AVAILABLE" /\ Decide(c, <<Put(n, [status |-> "RESERVED"])>>)

ReleaseReservation(c) ==
  \E n \in Rows(Connector) :
    row[n].status = "RESERVED" /\ Decide(c, <<Put(n, [status |-> "AVAILABLE"])>>)

-------------------------------------------------------------------------------
(* Configuration templates of one vendor, model and organization *)

TemplateEdit == {Given(fields) : fields \in [default : BOOLEAN \cup {None}]}

ASSUME TemplateEditAssumption == None \notin TemplateEdit

\* A new default is written after the others have lost theirs.
CreateTemplate(c) ==
  \E t \in Unused(Template), default \in BOOLEAN :
    LET new == Insert(t, [default |-> default])
    IN Decide(c, IF default THEN <<Then("unset", t), new>> ELSE <<new>>)

\* A template that was the default when it was read is not made it again.
UpdateTemplate(c) ==
  \E t \in Rows(Template), edit \in TemplateEdit :
    LET becomes == "default" \in DOMAIN edit /\ edit.default /\ ~row[t].default
    IN Decide(c, IF becomes THEN <<Then("unset", t), Put(t, edit)>> ELSE <<Put(t, edit)>>)

CloneTemplate(c) ==
  \E t \in Unused(Template) :
    Rows(Template) # {} /\ Decide(c, <<Insert(t, [default |-> FALSE])>>)

\* The templates that calls other than c are about to make the default.
Promoted(c) ==
  {t \in Template : \E d \in Call \ {c} : \E w \in Writes(todo[d]) :
     /\ t \in DOMAIN w /\ w[t].put # None
     /\ "default" \in DOMAIN w[t].put /\ w[t].put.default}

\* No template is asked to give its place up.
Mutant_Superseded(t) == {}

Superseded(t) == {other \in Rows(Template) : other # t /\ row[other].default}

UnsetDefaults(c) ==
  /\ At(c, "unset")
  /\ LET others == Superseded(Subject(c))
     IN /\ row' = [i \in Id |-> IF i \in others THEN [row[i] EXCEPT !.default = FALSE] ELSE row[i]]
        /\ crowded' = (crowded \ others) \cup Promoted(c)
  /\ todo' = [todo EXCEPT ![c] = Tail(@)]
  /\ UNCHANGED raced

UsedBy(t) == {p \in Rows(ChargePoint) : row[p].template = t}

DeleteTemplate(c) ==
  \E t \in Rows(Template) : UsedBy(t) = {} /\ Decide(c, <<Then("drop template", t)>>)

\* Whoever applied it in the meantime has no template then: the database does not refuse.
DropTemplate(c) ==
  LET t == Subject(c)
  IN /\ At(c, "drop template") /\ row[t] # None
     /\ row' = [i \in Id |-> IF i = t THEN None
                             ELSE IF i \in UsedBy(t) THEN [row[i] EXCEPT !.template = None]
                             ELSE row[i]]
     /\ todo' = [todo EXCEPT ![c] = Tail(@)]
     /\ UNCHANGED history

\* applyTemplate, and removeTemplate for None.
ApplyTemplate(c) ==
  \E t \in Rows(Template) \cup {None}, P \in (SUBSET Rows(ChargePoint)) \ {{}} :
    Decide(c, <<Then("apply", <<t, P>>)>>)

\* Charge points that are gone by now are passed over, a template that is gone is an error.
SetTemplate(c) ==
  LET t == Subject(c)[1]
      points == Subject(c)[2] \cap Rows(ChargePoint)
  IN /\ At(c, "apply") /\ (t # None => row[t] # None)
     /\ row' = [i \in Id |-> IF i \in points THEN [row[i] EXCEPT !.template = t] ELSE row[i]]
     /\ todo' = [todo EXCEPT ![c] = Tail(@)]
     /\ UNCHANGED history

-------------------------------------------------------------------------------
(* The queue of a charger *)

QueueChargingSession(c) ==
  \E q \in Unused(Queued), input \in [fleet : BOOLEAN] : Decide(c, <<Insert(q, input)>>)

\* Fleets come first.  Of the others in a set, Redis says none before the rest.
First == {q \in Rows(Queued) : row[q].fleet \/ \A other \in Rows(Queued) : ~row[other].fleet}

ProcessQueue(c) == \E q \in First : Decide(c, <<Then("check", q)>>)

\* Whether the charger is online and free is asked after the queue was read.
CheckCharger(c) ==
  /\ At(c, "check")
  /\ Continue(c, "check",
       IF row[Presence].online /\ ~row[Presence].busy THEN <<Then("take", Subject(c))>> ELSE <<>>)

\* The request is taken from the queue, unless it is not there or Redis fails, which is not
\* noticed.  The start command, which follows, changes nothing here.
TakeFromQueue(c) ==
  /\ At(c, "take")
  /\ \E left \in {None, row[Subject(c)]} : Perform(c, "take", Subject(c), left, <<>>)

\* Connections, starts and stops of sessions.
ChargerChanges == \E now \in [online : BOOLEAN, busy : BOOLEAN] \ {row[Presence]} : Outside(Presence, now)

-------------------------------------------------------------------------------
StationsNext(c) ==
  CreateStation(c) \/ UpdateStation(c) \/ UpdateHealth(c) \/ DeleteStation(c) \/ DropStation(c)

ChargePointsNext(c) ==
  \/ CreateChargePoint(c) \/ UpdateChargePoint(c) \/ TouchChargePoint(c)
  \/ DeleteChargePoint(c) \/ DropChargePoint(c) \/ Recount(c)

ConnectorsNext(c) ==
  \/ AddConnector(c) \/ RemoveConnector(c) \/ Recount(c)
  \/ CreateConnector(c) \/ DeleteConnector(c) \/ InsertConnector(c)
  \/ UpdateConnector(c) \/ ReserveConnector(c) \/ ReleaseReservation(c)

TemplatesNext(c) ==
  \/ CreateTemplate(c) \/ UpdateTemplate(c) \/ CloneTemplate(c) \/ UnsetDefaults(c)
  \/ DeleteTemplate(c) \/ DropTemplate(c) \/ ApplyTemplate(c) \/ SetTemplate(c)

QueueNext(c) ==
  QueueChargingSession(c) \/ ProcessQueue(c) \/ CheckCharger(c) \/ TakeFromQueue(c)

ChargersNext(c) ==
  StationsNext(c) \/ ChargePointsNext(c) \/ ConnectorsNext(c) \/ TemplatesNext(c) \/ QueueNext(c)

\* The services on their own.
ChargersSpec ==
  /\ CallsInit(NoChargers)
  /\ [][(\E c \in Call : ChargersNext(c) \/ Step(c)) \/ ChargerChanges \/ Restart]_vars

-------------------------------------------------------------------------------
(* Properties *)

\* A vendor has one default template at most, though it is given in two queries, unless two
\* calls gave it at the same time or one gave it again that it had read before
\* (vendor-config.service.ts:46, 144).
OneDefaultTemplate ==
  \A t, other \in Rows(Template) \ (crowded \cup raced) :
    row[t].default /\ row[other].default => t = other
===============================================================================
