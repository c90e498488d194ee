--------------------------- MODULE Operations_proofs --------------------------
(***************************************************************************)
(* Proofs about the services that run the network, for every set of calls  *)
(* and of records.                                                         *)
(***************************************************************************)
EXTENDS Workforce, Reservations, Chargers, Calls_proofs

-------------------------------------------------------------------------------
(***************************************************************************)
(* Incidents and reimbursements.                                           *)
(***************************************************************************)

-------------------------------------------------------------------------------
(* Incidents.  Of an update that resolves an incident, either the time of  *)
(* the resolution is among the data, or the call read an incident that had *)
(* one; and no update takes the time away.                                 *)

NewIncident == [status |-> "OPEN", acknowledgedAt |-> FALSE, resolvedAt |-> FALSE, recovery |-> FALSE]

HasItsTime(i) == row[i] # None /\ row[i].resolvedAt

\* What a call may write to i.
Timely(i, fields) == fields.status = "RESOLVED" => fields.resolvedAt # None \/ HasItsTime(i)

Editing == {e \in [on : Incident, fields : IncidentFields] : Timely(e.on, e.fields)}

IncidentQueries ==
  {Insert(i, NewIncident) : i \in Incident}
    \cup {Write(e.on, old, Given(e.fields), NoField) : e \in Editing, old \in IncidentRow \cup {Unseen}}
    \cup {Then("resolve", i) : i \in Rows(Incident)}
    \cup {Then("recovery", i) : i \in Rows(Incident)}

IncidentRows == DOMAIN row = Id /\ \A i \in Incident : row[i] \in IncidentRow \cup {None}

IncidentInv ==
  /\ IncidentRows
  /\ ResolvedHasItsTime
  /\ todo \in [Call -> Seq(IncidentQueries)]

\* Incidents stay, and so do the times they were resolved.
IncidentsLast ==
  \A i \in Incident :
    /\ row[i] # None => row'[i] # None
    /\ HasItsTime(i) => HasItsTime(i)'

LEMMA IncidentQueriesLast ==
  ASSUME IncidentsLast
  PROVE  IncidentQueries \subseteq IncidentQueries'
  <1>1. Rows(Incident) \subseteq Rows(Incident)'
    BY DEF IncidentsLast, Rows
  <1>2. Editing \subseteq Editing'
    BY DEF IncidentsLast, Editing, Timely
  <1>3. {Then("resolve", i) : i \in Rows(Incident)} \subseteq {Then("resolve", i) : i \in Rows(Incident)'}
    BY <1>1
  <1>4. {Then("recovery", i) : i \in Rows(Incident)} \subseteq {Then("recovery", i) : i \in Rows(Incident)'}
    BY <1>1
  <1>5. {Write(e.on, old, Given(e.fields), NoField) : e \in Editing, old \in IncidentRow \cup {Unseen}}
          \subseteq {Write(e.on, old, Given(e.fields), NoField) : e \in Editing', old \in IncidentRow \cup {Unseen}}
    BY <1>2
  <1>6. QED
    BY <1>3, <1>4, <1>5 DEF IncidentQueries

LEMMA SameIncidents ==
  ASSUME IncidentRows, ResolvedHasItsTime, row' = row
  PROVE  IncidentRows' /\ ResolvedHasItsTime' /\ IncidentQueries' = IncidentQueries
  BY DEF IncidentRows, ResolvedHasItsTime, IncidentQueries, Editing, Timely, HasItsTime, Rows

LEMMA IncidentDecide ==
  ASSUME IncidentInv, NEW c \in Call, NEW queries \in Seq(IncidentQueries), Decide(c, queries)
  PROVE  IncidentInv'
  <1>1. IncidentRows' /\ ResolvedHasItsTime' /\ IncidentQueries' = IncidentQueries
    BY SameIncidents DEF IncidentInv, Decide
  <1>2. todo' \in [Call -> Seq(IncidentQueries)]
    BY TodoOf DEF IncidentInv, Decide
  <1>3. QED
    BY <1>1, <1>2 DEF IncidentInv

LEMMA IncidentContinue ==
  ASSUME IncidentInv, NEW c \in Call, NEW name, NEW queries \in Seq(IncidentQueries),
         Continue(c, name, queries)
  PROVE  IncidentInv'
  <1>1. IncidentRows' /\ ResolvedHasItsTime' /\ IncidentQueries' = IncidentQueries
    BY SameIncidents DEF IncidentInv, Continue
  <1>2. todo' \in [Call -> Seq(IncidentQueries)]
    BY TodoGoesOn DEF IncidentInv, Continue, At
  <1>3. QED
    BY <1>1, <1>2 DEF IncidentInv

\* An update of the fields given, decided on the incident as it is or without a look.
LEMMA EditIsQuery ==
  ASSUME NEW i \in Incident, NEW old \in IncidentRow \cup {Unseen}, NEW fields \in IncidentFields,
         Timely(i, fields)
  PROVE  Write(i, old, Given(fields), NoField) \in IncidentQueries
  <1> DEFINE e == [on |-> i, fields |-> fields]
  <1>1. e \in Editing /\ e.on = i /\ e.fields = fields
    BY DEF Editing
  <1>2. QED
    BY <1>1 DEF IncidentQueries

\* An update that reads the incident it writes.
LEMMA UpdateIsQuery ==
  ASSUME IncidentInv, NEW i \in Rows(Incident), NEW status \in IncidentStatus \cup {None},
         NEW recovery \in {FALSE, None}
  PROVE  IncidentUpdate(i, status, recovery) \in IncidentQueries
  <1> DEFINE fields == Stamped(row[i], status, recovery)
  <1>1. i \in Incident /\ row[i] # None /\ row[i] \in IncidentRow
    BY DEF IncidentInv, IncidentRows, Rows
  <1>2. fields \in IncidentFields
    BY DEF Stamped, IncidentFields
  <1>3. Timely(i, fields)
    <2>1. SUFFICES ASSUME status = "RESOLVED" PROVE fields.resolvedAt # None \/ HasItsTime(i)
      BY DEF Timely, Stamped
    <2>2. CASE row[i].status = "RESOLVED"
      BY <1>1, <2>2 DEF IncidentInv, ResolvedHasItsTime, HasItsTime
    <2>3. CASE row[i].status # "RESOLVED"
      <3>1. fields.resolvedAt = TRUE
        BY <2>1, <2>3 DEF Stamped
      <3>2. QED
        BY <3>1, WorkforceAssumption
    <2>4. QED
      BY <2>2, <2>3
  <1>4. QED
    BY <1>1, <1>2, <1>3, EditIsQuery DEF IncidentUpdate, Put

\* Data with one field.
LEMMA GivenRecovery ==
  ASSUME NEW v, v # None
  PROVE  Given([status |-> None, acknowledgedAt |-> None, resolvedAt |-> None, recovery |-> v])
           = [recovery |-> v]
  <1> DEFINE fields == [status |-> None, acknowledgedAt |-> None, resolvedAt |-> None, recovery |-> v]
  <1>1. {g \in DOMAIN fields : fields[g] # None} = {"recovery"} /\ fields["recovery"] = v
    OBVIOUS
  <1>2. QED
    BY <1>1 DEF Given

LEMMA GivenStatus ==
  ASSUME NEW v, v # None
  PROVE  Given([status |-> v, acknowledgedAt |-> None, resolvedAt |-> None, recovery |-> None])
           = [status |-> v]
  <1> DEFINE fields == [status |-> v, acknowledgedAt |-> None, resolvedAt |-> None, recovery |-> None]
  <1>1. {g \in DOMAIN fields : fields[g] # None} = {"status"} /\ fields["status"] = v
    OBVIOUS
  <1>2. QED
    BY <1>1 DEF Given

LEMMA RecoveryIsQuery ==
  ASSUME IncidentInv, NEW i \in Rows(Incident)
  PROVE  RecoveryTime(i) \in Seq(IncidentQueries)
  <1> DEFINE fields == [status |-> None, acknowledgedAt |-> None, resolvedAt |-> None, recovery |-> TRUE]
  <1>1. i \in Incident /\ row[i] \in IncidentRow
    BY DEF IncidentInv, IncidentRows, Rows
  <1>2. fields \in IncidentFields /\ Timely(i, fields)
    <2>1. fields \in IncidentFields
      BY DEF IncidentFields
    <2>2. None # "RESOLVED"
      BY WorkforceAssumption DEF IncidentStatus
    <2>3. QED
      BY <2>1, <2>2 DEF Timely
  <1>3. TRUE # None
    BY WorkforceAssumption
  <1>4. Given(fields) = [recovery |-> TRUE]
    BY <1>3, GivenRecovery
  <1>5. Put(i, [recovery |-> TRUE]) \in IncidentQueries
    BY <1>1, <1>2, <1>4, EditIsQuery DEF Put
  <1>6. QED
    BY <1>5, SeqOfOne, EmptySeq DEF RecoveryTime

LEMMA CloseIsQuery ==
  ASSUME NEW i \in Incident
  PROVE  Overwrite(i, [status |-> "CLOSED"]) \in IncidentQueries
  <1> DEFINE fields == [status |-> "CLOSED", acknowledgedAt |-> None, resolvedAt |-> None, recovery |-> None]
  <1>1. fields \in IncidentFields /\ Timely(i, fields)
    BY DEF IncidentFields, Timely, IncidentStatus
  <1>2. "CLOSED" # None
    BY WorkforceAssumption DEF IncidentStatus
  <1>3. Given(fields) = [status |-> "CLOSED"]
    BY <1>2, GivenStatus
  <1>4. QED
    BY <1>1, <1>3, EditIsQuery DEF Overwrite

LEMMA IncidentsStep ==
  ASSUME IncidentInv, NEW c \in Call, IncidentsNext(c)
  PROVE  IncidentInv'
  <1>1. CASE CreateIncident(c)
    <2>1. PICK i \in Unused(Incident) : Decide(c, <<Insert(i, NewIncident)>>)
      BY <1>1 DEF CreateIncident, NewIncident
    <2>2. Insert(i, NewIncident) \in IncidentQueries
      BY DEF IncidentQueries, Unused
    <2>3. QED
      BY <2>1, <2>2, SeqOfOne, IncidentDecide
  <1>2. CASE UpdateIncident(c)
    <2>1. PICK i \in Rows(Incident), edit \in IncidentEdit :
            Decide(c, <<IncidentUpdate(i, edit.status, edit.recovery)>>)
      BY <1>2 DEF UpdateIncident
    <2>2. edit.status \in IncidentStatus \cup {None} /\ edit.recovery \in {FALSE, None}
      BY DEF IncidentEdit
    <2>3. IncidentUpdate(i, edit.status, edit.recovery) \in IncidentQueries
      BY <2>2, UpdateIsQuery
    <2>4. QED
      BY <2>1, <2>3, SeqOfOne, IncidentDecide
  <1>3. CASE CloseIncident(c)
    <2>1. PICK i \in Rows(Incident) : Decide(c, <<Overwrite(i, [status |-> "CLOSED"])>>)
      BY <1>3 DEF CloseIncident
    <2>2. QED
      BY <2>1, CloseIsQuery, SeqOfOne, IncidentDecide DEF Rows
  <1>4. CASE CalculateRecoveryTime(c)
    BY <1>4, RecoveryIsQuery, IncidentDecide DEF CalculateRecoveryTime
  <1>5. CASE DetectRecovery(c)
    <2>1. PICK i \in Rows(Incident) : Decide(c, <<Then("resolve", i), Then("recovery", i)>>)
      BY <1>5 DEF DetectRecovery
    <2>2. Then("resolve", i) \in IncidentQueries /\ Then("recovery", i) \in IncidentQueries
      BY DEF IncidentQueries
    <2>3. QED
      BY <2>1, <2>2, SeqOfTwo, IncidentDecide
  <1>6. ASSUME NEW name \in {"resolve", "recovery"}, At(c, name)
        PROVE  Subject(c) \in Rows(Incident)
    <2> DEFINE q == Head(todo[c])
    <2>1. q \in IncidentQueries /\ q.do = name
      BY <1>6, NextQuery DEF IncidentInv, At
    <2>2. ASSUME NEW i, NEW old, NEW fields, q = Write(i, old, fields, NoField) PROVE FALSE
      BY <2>1, <2>2, WriteParts
    <2>3. q \notin {Insert(i, NewIncident) : i \in Incident}
      BY <2>2 DEF Insert
    <2>4. q \notin {Write(e.on, old, Given(e.fields), NoField) : e \in Editing, old \in IncidentRow \cup {Unseen}}
      BY <2>2
    <2>5. PICK i \in Rows(Incident) : q = Then("resolve", i) \/ q = Then("recovery", i)
      BY <2>1, <2>3, <2>4 DEF IncidentQueries
    <2>6. QED
      BY <2>5, ThenParts DEF Subject
  <1>7. CASE ResolveDetected(c)
    <2>1. Subject(c) \in Rows(Incident)
      BY <1>6, <1>7 DEF ResolveDetected
    <2>2. IncidentUpdate(Subject(c), "RESOLVED", None) \in IncidentQueries
      BY <2>1, UpdateIsQuery DEF IncidentStatus
    <2>3. QED
      BY <1>7, <2>2, SeqOfOne, IncidentContinue DEF ResolveDetected
  <1>8. CASE RecoveryDetected(c)
    <2>1. Subject(c) \in Rows(Incident)
      BY <1>6, <1>8 DEF RecoveryDetected
    <2>2. QED
      BY <1>8, <2>1, RecoveryIsQuery, IncidentContinue DEF RecoveryDetected
  <1>9. QED
    BY <1>1, <1>2, <1>3, <1>4, <1>5, <1>7, <1>8 DEF IncidentsNext
\* What an update makes of an incident.
LEMMA EditedIncident ==
  ASSUME NEW r \in IncidentRow, NEW fields \in IncidentFields, NEW old
  PROVE  LET s == Applied([saw |-> old, put |-> Given(fields), inc |-> NoField], r)
         IN /\ s \in IncidentRow
            /\ r.resolvedAt => s.resolvedAt
            /\ fields.resolvedAt # None => s.resolvedAt
            /\ s.status = "RESOLVED" => r.status = "RESOLVED" \/ fields.status = "RESOLVED"
  <1> DEFINE d == Given(fields)
             s == Applied([saw |-> old, put |-> d, inc |-> NoField], r)
  <1>1. d # None /\ r # None
    BY WorkforceAssumption
  <1>2. DOMAIN r = {"status", "acknowledgedAt", "resolvedAt", "recovery"} /\ DOMAIN fields = DOMAIN r
    BY DEF IncidentRow, IncidentFields
  <1>3. s = [f \in DOMAIN r |-> IF f \in DOMAIN d THEN d[f] ELSE r[f]]
    BY <1>1, AppliedIs
  <1>4. \A f \in DOMAIN r : s[f] = IF fields[f] # None THEN fields[f] ELSE r[f]
    BY <1>2, <1>3, GivenIs
  <1>5. s = [status |-> s.status, acknowledgedAt |-> s.acknowledgedAt, resolvedAt |-> s.resolvedAt,
             recovery |-> s.recovery]
    BY <1>2, <1>3
  <1>6. s.status \in IncidentStatus
    BY <1>2, <1>4 DEF IncidentRow, IncidentFields
  <1>7. s.acknowledgedAt \in BOOLEAN
    BY <1>2, <1>4 DEF IncidentRow, IncidentFields
  <1>8. s.resolvedAt \in BOOLEAN
    BY <1>2, <1>4 DEF IncidentRow, IncidentFields
  <1>9. s.recovery \in BOOLEAN
    BY <1>2, <1>4 DEF IncidentRow, IncidentFields
  <1>10. s \in IncidentRow
    BY <1>5, <1>6, <1>7, <1>8, <1>9 DEF IncidentRow
  <1>11. fields.resolvedAt # None => s.resolvedAt = TRUE
    BY <1>2, <1>4 DEF IncidentFields
  <1>12. fields.resolvedAt = None => s.resolvedAt = r.resolvedAt
    BY <1>2, <1>4
  <1>13. s.status = "RESOLVED" => r.status = "RESOLVED" \/ fields.status = "RESOLVED"
    BY <1>2, <1>4
  <1>14. QED
    BY <1>10, <1>11, <1>12, <1>13

LEMMA IncidentCommit ==
  ASSUME IncidentInv, NEW c \in Call, Commit(c)
  PROVE  IncidentInv'
  <1> DEFINE q == Head(todo[c])
  <1>1. q \in IncidentQueries /\ q.do = "write" /\ ~Free(c)
    BY NextQuery DEF IncidentInv, Commit, At
  <1>2. SUFFICES ASSUME NEW i \in Incident, NEW r \in IncidentRow, r.resolvedAt \in BOOLEAN,
                        HasItsTime(i) => r.resolvedAt,
                        r.status = "RESOLVED" => r.resolvedAt,
                        row' = [j \in Id |-> IF j = i THEN r ELSE row[j]],
                        todo' = [todo EXCEPT ![c] = Tail(@)]
                 PROVE  IncidentInv'
    <2> DEFINE Changed ==
          \E i \in Incident, r \in IncidentRow :
            /\ HasItsTime(i) => r.resolvedAt
            /\ r.status = "RESOLVED" => r.resolvedAt
            /\ row' = [j \in Id |-> IF j = i THEN r ELSE row[j]]
            /\ todo' = [todo EXCEPT ![c] = Tail(@)]
    <2>1. CASE row' = row /\ todo' = [todo EXCEPT ![c] = <<>>]
      <3>1. IncidentRows' /\ ResolvedHasItsTime' /\ IncidentQueries' = IncidentQueries
        BY <2>1, SameIncidents DEF IncidentInv
      <3>2. todo' \in [Call -> Seq(IncidentQueries)]
        BY <2>1, TodoEnds DEF IncidentInv
      <3>3. QED
        BY <3>1, <3>2 DEF IncidentInv
    <2>2. Changed => IncidentInv'
      BY <1>2 DEF IncidentRow
    <2>3. ASSUME NEW i \in Incident, q = Insert(i, NewIncident),
                 ~(row' = row /\ todo' = [todo EXCEPT ![c] = <<>>])
          PROVE  Changed
      <3>1. NewIncident \in IncidentRow /\ NewIncident # None /\ NewIncident.status # "RESOLVED"
        <4>1. NewIncident \in IncidentRow
          BY DEF NewIncident, IncidentRow, IncidentStatus
        <4>2. NewIncident.status # "RESOLVED"
          BY DEF NewIncident
        <4>3. QED
          BY <4>1, <4>2, WorkforceAssumption
      <3>2. q = Write(i, None, NewIncident, NoField)
        BY <2>3 DEF Insert
      <3>3. /\ row' = [j \in Id |-> IF j = i THEN Applied([saw |-> None, put |-> NewIncident, inc |-> NoField], row[i])
                                   ELSE row[j]]
            /\ row[i] = None
            /\ todo' = [todo EXCEPT ![c] = Tail(@)]
        BY <3>2, <2>3, CommitOne
      <3>4. Applied([saw |-> None, put |-> NewIncident, inc |-> NoField], row[i]) = NewIncident
        BY <3>1, <3>3 DEF Applied
      <3>5. ~HasItsTime(i)
        BY <3>3 DEF HasItsTime
      <3>6. QED
        BY <3>1, <3>3, <3>4, <3>5
    <2>4. ASSUME NEW i \in Incident, NEW fields \in IncidentFields, Timely(i, fields),
                 NEW old \in IncidentRow \cup {Unseen}, q = Write(i, old, Given(fields), NoField),
                 ~(row' = row /\ todo' = [todo EXCEPT ![c] = <<>>])
          PROVE  Changed
      <3> DEFINE s == Applied([saw |-> old, put |-> Given(fields), inc |-> NoField], row[i])
      <3>1. old # None
        BY WorkforceAssumption, UnseenAssumption
      <3>2. /\ row' = [j \in Id |-> IF j = i THEN s ELSE row[j]]
            /\ row[i] # None
            /\ todo' = [todo EXCEPT ![c] = Tail(@)]
        BY <2>4, <3>1, CommitOne
      <3>3. row[i] \in IncidentRow
        BY <3>2 DEF IncidentInv, IncidentRows
      <3>4. /\ s \in IncidentRow
            /\ row[i].resolvedAt => s.resolvedAt
            /\ fields.resolvedAt # None => s.resolvedAt
            /\ s.status = "RESOLVED" => row[i].status = "RESOLVED" \/ fields.status = "RESOLVED"
        BY <3>3, EditedIncident
      <3>5. row[i].status = "RESOLVED" => row[i].resolvedAt
        BY <3>2 DEF IncidentInv, ResolvedHasItsTime, Rows
      <3>6. s.status = "RESOLVED" => s.resolvedAt
        BY <2>4, <3>4, <3>5 DEF Timely, HasItsTime
      <3>7. HasItsTime(i) => s.resolvedAt
        BY <3>4 DEF HasItsTime
      <3>8. QED
        BY <3>2, <3>4, <3>6, <3>7
    <2>5. q \notin {Then("resolve", i) : i \in Rows(Incident)} \cup {Then("recovery", i) : i \in Rows(Incident)}
      BY <1>1, ThenParts
    <2>6. \/ \E i \in Incident : q = Insert(i, NewIncident)
          \/ \E e \in Editing, old \in IncidentRow \cup {Unseen} : q = Write(e.on, old, Given(e.fields), NoField)
      BY <1>1, <2>5 DEF IncidentQueries
    <2>7. \A e \in Editing : e.on \in Incident /\ e.fields \in IncidentFields /\ Timely(e.on, e.fields)
      BY DEF Editing
    <2>8. QED
      BY <2>1, <2>2, <2>3, <2>4, <2>6, <2>7
  <1>3. \A j \in Incident : row'[j] = IF j = i THEN r ELSE row[j]
    BY <1>2, WorkforceAssumption
  <1>4. r # None
    BY WorkforceAssumption
  <1>5. IncidentRows'
    BY <1>2, <1>3 DEF IncidentInv, IncidentRows
  <1>6. ResolvedHasItsTime'
    BY <1>2, <1>3 DEF IncidentInv, ResolvedHasItsTime, Rows
  <1>7. IncidentsLast
    BY <1>2, <1>3, <1>4 DEF IncidentsLast, HasItsTime
  <1>8. todo' \in [Call -> Seq(IncidentQueries')]
    BY <1>1, <1>2, <1>7, IncidentQueriesLast, TodoGoesBy DEF IncidentInv
  <1>9. QED
    BY <1>5, <1>6, <1>8 DEF IncidentInv

LEMMA IncidentInvariance == IncidentsSpec => []IncidentInv
  <1>1. CallsInit(NoField) => IncidentInv
    <2> SUFFICES ASSUME CallsInit(NoField) PROVE IncidentInv
      OBVIOUS
    <2>1. row = [i \in Id |-> None]
      BY DEF CallsInit, NoField
    <2>2. IncidentRows /\ ResolvedHasItsTime
      BY <2>1, WorkforceAssumption DEF IncidentRows, ResolvedHasItsTime, Rows
    <2>3. todo \in [Call -> Seq(IncidentQueries)]
      BY EmptySeq DEF CallsInit
    <2>4. QED
      BY <2>2, <2>3 DEF IncidentInv
  <1>2. ASSUME IncidentInv, [(\E c \in Call : IncidentsNext(c) \/ Step(c)) \/ Restart]_vars
        PROVE  IncidentInv'
    <2>1. ASSUME NEW c \in Call, IncidentsNext(c) PROVE IncidentInv'
      BY <1>2, <2>1, IncidentsStep
    <2>2. ASSUME NEW c \in Call, Commit(c) PROVE IncidentInv'
      BY <1>2, <2>2, IncidentCommit
    <2>3. CASE row' = row
      <3>1. IncidentRows' /\ ResolvedHasItsTime' /\ IncidentQueries' = IncidentQueries
        BY <1>2, <2>3, SameIncidents DEF IncidentInv
      <3>2. ASSUME NEW c \in Call, Fail(c) PROVE IncidentInv'
        <4>1. todo' \in [Call -> Seq(IncidentQueries)]
          BY <1>2, <3>2, TodoEnds DEF IncidentInv, Fail, End
        <4>2. QED
          BY <3>1, <4>1 DEF IncidentInv
      <3>3. CASE Restart
        <4>1. todo' \in [Call -> Seq(IncidentQueries)]
          BY <3>3, TodoIsOver DEF Restart
        <4>2. QED
          BY <3>1, <4>1 DEF IncidentInv
      <3>4. CASE UNCHANGED vars
        BY <1>2, <3>1, <3>4 DEF IncidentInv, vars
      <3>5. QED
        BY <1>2, <2>1, <2>2, <3>2, <3>3, <3>4 DEF Step
    <2>4. \/ row' = row
          \/ \E c \in Call : IncidentsNext(c) \/ Commit(c)
      BY <1>2 DEF Step, Fail, End, Restart, vars
    <2>5. QED
      BY <2>1, <2>2, <2>3, <2>4
  <1>3. QED
    BY <1>1, <1>2, PTL DEF IncidentsSpec

\* However updates, closures and recoveries of an incident interleave, fail or are cut off, it is
\* never resolved without the time of its resolution.
THEOREM ResolvedIncidentHasItsTime == IncidentsSpec => []ResolvedHasItsTime
  <1>1. IncidentInv => ResolvedHasItsTime
    BY DEF IncidentInv
  <1>2. QED
    BY <1>1, IncidentInvariance, PTL

-------------------------------------------------------------------------------
(* The reimbursement.  What a call is going to write to the claim is a     *)
(* move from the claim it read; if that is the claim as it is when the     *)
(* write comes, the claim moves so, and else it is raced.                  *)

NewClaim(amount) ==
  [status |-> "PENDING", requested |-> amount, approved |-> None, rejectedAt |-> FALSE]

\* An update that the checks allow on what was read.
Legal(old, fields) ==
  \/ old.status = "PENDING"
  \/ old.status = "APPROVED" /\ fields = [status |-> "PAID"]

Deciding == {d \in [saw : ClaimRow, fields : ClaimFields] : Legal(d.saw, d.fields)}

ClaimQueries ==
  {Insert(Claim, NewClaim(amount)) : amount \in Amount}
    \cup {Write(Claim, d.saw, Given(d.fields), NoField) : d \in Deciding}

ClaimInv ==
  /\ DOMAIN row = Id /\ row[Claim] \in ClaimRow \cup {None}
  /\ row[Claim] # None /\ Claim \notin raced =>
       row[Claim].rejectedAt = (row[Claim].status = "REJECTED")
  /\ todo \in [Call -> Seq(ClaimQueries)]

\* The stage of the claim.
Told(r) == IF r = None THEN NoClaim ELSE <<r.status, r.rejectedAt>>

\* The step of the lifecycle, without its functions of one claim.
ClaimGoes ==
  \/ <<Told(row[Claim]), Told(row'[Claim])>> \in ClaimMove /\ Claim \notin raced \cup raced'
  \/ Claim \in raced'
  \/ row[Claim] = None /\ row'[Claim] = None /\ Claim \notin raced'
  \/ Told(row'[Claim]) = Told(row[Claim]) /\ Claim \notin raced \cup raced'

\* What an update makes of the claim.
LEMMA EditedClaim ==
  ASSUME NEW r \in ClaimRow, NEW fields \in ClaimFields, NEW old
  PROVE  LET s == Applied([saw |-> old, put |-> Given(fields), inc |-> NoField], r)
         IN /\ s \in ClaimRow
            /\ \/ s.status = r.status /\ s.rejectedAt = r.rejectedAt
               \/ s.status \in {"PENDING", "PAID"} /\ s.status = fields.status /\ s.rejectedAt = r.rejectedAt
               \/ s.status = "APPROVED" /\ s.status = fields.status /\ s.rejectedAt = r.rejectedAt
               \/ s.status = "REJECTED" /\ s.status = fields.status /\ s.rejectedAt = TRUE
  <1> DEFINE d == Given(fields)
             s == Applied([saw |-> old, put |-> d, inc |-> NoField], r)
  <1>1. d # None /\ r # None
    BY WorkforceAssumption
  <1>2. DOMAIN r = {"status", "requested", "approved", "rejectedAt"}
    BY DEF ClaimRow
  <1>3. s = [f \in DOMAIN r |-> IF f \in DOMAIN d THEN d[f] ELSE r[f]]
    BY <1>1, AppliedIs
  <1>4. s = [status |-> s.status, requested |-> s.requested, approved |-> s.approved,
             rejectedAt |-> s.rejectedAt]
    BY <1>2, <1>3
  <1>5. \A f \in DOMAIN r : s[f] = IF f \in DOMAIN fields /\ fields[f] # None THEN fields[f] ELSE r[f]
    BY <1>3, GivenIs
  <1>6. CASE fields \in [status : {"PENDING", "PAID", None}]
    <2>1. DOMAIN fields = {"status"} /\ fields.status \in {"PENDING", "PAID", None}
      BY <1>6
    <2>2. /\ s.status = IF fields.status # None THEN fields.status ELSE r.status
          /\ s.requested = r.requested /\ s.approved = r.approved /\ s.rejectedAt = r.rejectedAt
      BY <1>2, <1>5, <2>1
    <2>3. s \in ClaimRow
      BY <1>4, <2>1, <2>2 DEF ClaimRow, ClaimStatus
    <2>4. QED
      BY <2>1, <2>2, <2>3
  <1>7. CASE fields \in [status : {"APPROVED"}, approved : Amount]
    <2>1. DOMAIN fields = {"status", "approved"} /\ fields.status = "APPROVED" /\ fields.approved \in Amount
      BY <1>7
    <2>2. /\ s.status = IF fields.status # None THEN fields.status ELSE r.status
          /\ s.approved = IF fields.approved # None THEN fields.approved ELSE r.approved
          /\ s.requested = r.requested /\ s.rejectedAt = r.rejectedAt
      BY <1>2, <1>5, <2>1
    <2>3. s.status = "APPROVED"
      BY <2>1, <2>2, WorkforceAssumption DEF ClaimStatus
    <2>4. s \in ClaimRow
      BY <1>4, <2>1, <2>2, <2>3 DEF ClaimRow, ClaimStatus
    <2>5. QED
      BY <2>1, <2>2, <2>3, <2>4
  <1>8. CASE fields \in [status : {"REJECTED"}, rejectedAt : {TRUE}]
    <2>1. DOMAIN fields = {"status", "rejectedAt"} /\ fields.status = "REJECTED" /\ fields.rejectedAt = TRUE
      BY <1>8
    <2>2. TRUE # None /\ "REJECTED" # None
      BY WorkforceAssumption DEF ClaimStatus
    <2>3. s.status = "REJECTED" /\ s.requested = r.requested /\ s.approved = r.approved
      BY <1>2, <1>5, <2>1, <2>2
    <2>4. s.rejectedAt = fields.rejectedAt
      BY <1>2, <1>5, <2>1, <2>2
    <2>5. s.rejectedAt = TRUE
      BY <2>1, <2>4
    <2>6. s \in ClaimRow
      BY <1>4, <2>3, <2>5 DEF ClaimRow, ClaimStatus
    <2>7. QED
      BY <2>1, <2>3, <2>5, <2>6
  <1>9. QED
    BY <1>6, <1>7, <1>8 DEF ClaimFields

\* A method decides on an update of the claim it read, or on a claim where there is none.
LEMMA ClaimDecision ==
  ASSUME ClaimInv, NEW c \in Call, ReimbursementsNext(c)
  PROVE  \E q \in ClaimQueries :
           /\ Decide(c, <<q>>)
           /\ row[Claim] # None => Inserting(<<q>>) = {}
  <1>1. ASSUME row[Claim] # None, NEW fields \in ClaimFields, Legal(row[Claim], fields),
               Decide(c, <<Put(Claim, Given(fields))>>)
        PROVE  \E q \in ClaimQueries :
                 /\ Decide(c, <<q>>)
                 /\ row[Claim] # None => Inserting(<<q>>) = {}
    <2> DEFINE d == [saw |-> row[Claim], fields |-> fields]
               q == Put(Claim, Given(fields))
    <2>1. d \in Deciding /\ d.saw = row[Claim] /\ d.fields = fields
      BY <1>1 DEF Deciding, ClaimInv
    <2>2. q = Write(Claim, d.saw, Given(d.fields), NoField)
      BY <2>1 DEF Put
    <2>3. q \in ClaimQueries
      BY <2>1, <2>2 DEF ClaimQueries
    <2>4. Inserting(<<q>>) = {}
      BY <1>1, <2>1, <2>2, InsertingOne, WorkforceAssumption
    <2>5. Decide(c, <<q>>)
      BY <1>1
    <2>6. QED
      BY <2>3, <2>4, <2>5
  <1>2. CASE CreateReimbursement(c)
    <2>1. PICK amount \in Amount :
            Claim \in Unused({Claim}) /\ Decide(c, <<Insert(Claim, NewClaim(amount))>>)
      BY <1>2 DEF CreateReimbursement, NewClaim
    <2> DEFINE q == Insert(Claim, NewClaim(amount))
    <2>2. q \in ClaimQueries
      BY DEF ClaimQueries
    <2>3. row[Claim] = None
      BY <2>1 DEF Unused
    <2>4. QED
      BY <2>1, <2>2, <2>3
  <1>3. CASE UpdateReimbursement(c)
    <2>1. row[Claim] # None /\ row[Claim].status = "PENDING"
      BY <1>3 DEF UpdateReimbursement, MayUpdate
    <2> PICK status \in ClaimStatus \cup {None} :
          \E fields \in Verdict(status) : Decide(c, <<Put(Claim, Given(fields))>>)
      BY <1>3 DEF UpdateReimbursement
    <2>2. PICK fields \in Verdict(status) : Decide(c, <<Put(Claim, Given(fields))>>)
      OBVIOUS
    <2>3. row[Claim].requested \in Amount
      BY <2>1 DEF ClaimInv, ClaimRow
    <2>4. fields \in ClaimFields
      <3>1. CASE status = "APPROVED"
        <4>1. PICK a \in Amount : fields = [status |-> "APPROVED", approved |-> a]
          BY <2>3, <3>1 DEF Verdict
        <4>2. fields \in [status : {"APPROVED"}, approved : Amount]
          BY <4>1
        <4>3. QED
          BY <4>2 DEF ClaimFields
      <3>2. CASE status = "REJECTED"
        <4>1. fields = [status |-> "REJECTED", rejectedAt |-> TRUE]
          BY <3>2 DEF Verdict
        <4>2. QED
          BY <4>1 DEF ClaimFields
      <3>3. CASE status \in {"PENDING", "PAID", None} /\ status # "APPROVED" /\ status # "REJECTED"
        <4>1. fields = [status |-> status]
          BY <3>3 DEF Verdict
        <4>2. fields \in [status : {"PENDING", "PAID", None}]
          BY <3>3, <4>1
        <4>3. QED
          BY <4>2 DEF ClaimFields
      <3>4. QED
        BY <3>1, <3>2, <3>3 DEF ClaimStatus
    <2>5. Legal(row[Claim], fields)
      BY <2>1 DEF Legal
    <2>6. QED
      BY <1>1, <2>1, <2>2, <2>4, <2>5
  <1>4. CASE MarkAsPaid(c)
    <2> DEFINE fields == [status |-> "PAID"]
    <2>1. fields \in ClaimFields
      BY DEF ClaimFields
    <2>2. "PAID" # None
      BY WorkforceAssumption DEF ClaimStatus
    <2>3. Given(fields) = fields
      <3>1. {g \in DOMAIN fields : fields[g] # None} = {"status"} /\ fields["status"] = "PAID"
        BY <2>2
      <3>2. QED
        BY <3>1 DEF Given
    <2>4. Legal(row[Claim], fields) /\ row[Claim] # None /\ Decide(c, <<Put(Claim, Given(fields))>>)
      BY <1>4, <2>3 DEF MarkAsPaid, Legal
    <2>5. QED
      BY <1>1, <2>1, <2>4
  <1>5. QED
    BY <1>2, <1>3, <1>4, <1>1 DEF ReimbursementsNext

LEMMA ClaimDecides ==
  ASSUME ClaimInv, NEW c \in Call, ReimbursementsNext(c)
  PROVE  ClaimInv' /\ ClaimGoes
  <1>1. PICK q \in ClaimQueries :
          /\ Decide(c, <<q>>)
          /\ row[Claim] # None => Inserting(<<q>>) = {}
    BY ClaimDecision
  <1>2. row' = row /\ todo' = [todo EXCEPT ![c] = <<q>>]
    BY <1>1, DecideParts
  <1>3. todo' \in [Call -> Seq(ClaimQueries)]
    BY <1>2, SeqOfOne, TodoOf DEF ClaimInv
  <1>4. ClaimQueries' = ClaimQueries
    BY DEF ClaimQueries, Deciding
  <1>5. row[Claim] # None => (Claim \in raced' <=> Claim \in raced)
    BY DecideParts, <1>1
  <1>6. ClaimInv'
    BY <1>2, <1>3, <1>4, <1>5 DEF ClaimInv
  <1>7. ClaimGoes
    <2>1. CASE row[Claim] # None
      BY <1>2, <1>5, <2>1 DEF ClaimGoes
    <2>2. CASE row[Claim] = None
      BY <1>2, <2>2 DEF ClaimGoes
    <2>3. QED
      BY <2>1, <2>2
  <1>8. QED
    BY <1>6, <1>7

LEMMA ClaimCommit ==
  ASSUME Claim \in Watched, ClaimInv, NEW c \in Call, Commit(c)
  PROVE  ClaimInv' /\ ClaimGoes
  <1> DEFINE q == Head(todo[c])
  <1>1. q \in ClaimQueries /\ ~Free(c)
    BY NextQuery DEF ClaimInv, Commit, At
  <1>2. ClaimQueries' = ClaimQueries
    BY DEF ClaimQueries, Deciding
  <1>3. CASE row' = row /\ raced' = raced /\ todo' = [todo EXCEPT ![c] = <<>>]
    <2>1. todo' \in [Call -> Seq(ClaimQueries)]
      BY <1>3, TodoEnds DEF ClaimInv
    <2>2. QED
      BY <1>2, <1>3, <2>1 DEF ClaimInv, ClaimGoes
  <1>4. SUFFICES ASSUME ~(row' = row /\ raced' = raced /\ todo' = [todo EXCEPT ![c] = <<>>])
                 PROVE  ClaimInv' /\ ClaimGoes
    BY <1>3
  <1>5. ASSUME NEW r \in ClaimRow, row' = [j \in Id |-> IF j = Claim THEN r ELSE row[j]],
               Claim \notin raced' => r.rejectedAt = (r.status = "REJECTED"),
               todo' = [todo EXCEPT ![c] = Tail(@)]
        PROVE  ClaimInv'
    <2>1. DOMAIN row' = Id /\ row'[Claim] = r
      BY <1>5, WorkforceAssumption
    <2>2. todo' \in [Call -> Seq(ClaimQueries)]
      BY <1>1, <1>5, TodoGoesBy DEF ClaimInv
    <2>3. QED
      BY <1>2, <1>5, <2>1, <2>2 DEF ClaimInv
  <1>6. CASE q \in {Insert(Claim, NewClaim(amount)) : amount \in Amount}
    <2>1. PICK amount \in Amount : q = Insert(Claim, NewClaim(amount))
      BY <1>6
    <2> DEFINE r == NewClaim(amount)
    <2>2. r \in ClaimRow
      BY DEF NewClaim, ClaimRow, ClaimStatus
    <2>3. r.status = "PENDING" /\ r.rejectedAt = FALSE
      BY DEF NewClaim
    <2>4. r # None
      BY <2>2, WorkforceAssumption
    <2>5. q = Write(Claim, None, r, NoField)
      BY <2>1 DEF Insert
    <2>6. /\ row' = [j \in Id |-> IF j = Claim THEN Applied([saw |-> None, put |-> r, inc |-> NoField], row[Claim])
                                  ELSE row[j]]
          /\ row[Claim] = None
          /\ todo' = [todo EXCEPT ![c] = Tail(@)]
          /\ raced' = raced \cup (Watched \cap {j \in {Claim} : None # row[Claim] /\ (None = Unseen => r # NoField)})
      BY <1>4, <2>5, CommitOne
    <2>7. Applied([saw |-> None, put |-> r, inc |-> NoField], row[Claim]) = r
      BY <2>4, <2>6 DEF Applied
    <2>8. row' = [j \in Id |-> IF j = Claim THEN r ELSE row[j]] /\ raced' = raced
      BY <2>6, <2>7
    <2>9. ClaimInv'
      <3>1. r.rejectedAt = (r.status = "REJECTED")
        BY <2>3
      <3>2. QED
        BY <1>5, <2>2, <2>6, <2>8, <3>1
    <2>10. Told(row[Claim]) = NoClaim
      BY <2>6 DEF Told
    <2>11. row'[Claim] = r
      BY <2>8, WorkforceAssumption
    <2>12. Told(row'[Claim]) = <<"PENDING", FALSE>>
      BY <2>3, <2>4, <2>11 DEF Told
    <2>13. <<NoClaim, <<"PENDING", FALSE>>>> \in ClaimMove
      BY DEF ClaimMove
    <2>14. ClaimGoes
      BY <2>8, <2>10, <2>12, <2>13 DEF ClaimGoes
    <2>15. QED
      BY <2>9, <2>14
  <1>7. CASE q \in {Write(Claim, d.saw, Given(d.fields), NoField) : d \in Deciding}
    <2>1. PICK d \in Deciding : q = Write(Claim, d.saw, Given(d.fields), NoField)
      BY <1>7
    <2> DEFINE old == d.saw
               fields == d.fields
               r == row[Claim]
               s == Applied([saw |-> old, put |-> Given(fields), inc |-> NoField], r)
    <2>2. old \in ClaimRow /\ fields \in ClaimFields /\ Legal(old, fields)
      BY DEF Deciding
    <2>3. old # None /\ Given(fields) # None
      BY <2>2, WorkforceAssumption
    <2>4. /\ row' = [j \in Id |-> IF j = Claim THEN s ELSE row[j]]
          /\ r # None
          /\ todo' = [todo EXCEPT ![c] = Tail(@)]
          /\ raced' = raced \cup (Watched \cap {j \in {Claim} : old # r /\ (old = Unseen => Given(fields) # NoField)})
      BY <1>4, <2>1, <2>3, CommitOne
    <2>5. r \in ClaimRow
      BY <2>4 DEF ClaimInv
    <2>6. /\ s \in ClaimRow
          /\ \/ s.status = r.status /\ s.rejectedAt = r.rejectedAt
             \/ s.status \in {"PENDING", "PAID"} /\ s.status = fields.status /\ s.rejectedAt = r.rejectedAt
             \/ s.status = "APPROVED" /\ s.status = fields.status /\ s.rejectedAt = r.rejectedAt
             \/ s.status = "REJECTED" /\ s.status = fields.status /\ s.rejectedAt = TRUE
      BY <2>2, <2>5, EditedClaim
    <2>7. row'[Claim] = s
      BY <2>4, WorkforceAssumption
    <2>8. old # r => Claim \in raced'
      BY <2>2, <2>4, WorkforceAssumption
    <2>9. CASE Claim \in raced'
      <3>1. ClaimInv'
        BY <1>5, <2>4, <2>6, <2>9
      <3>2. QED
        BY <2>9, <3>1 DEF ClaimGoes
    <2>10. CASE Claim \notin raced'
      <3>1. old = r /\ raced' = raced /\ Claim \notin raced
        BY <2>4, <2>8, <2>10
      <3>2. r.rejectedAt = (r.status = "REJECTED")
        BY <2>4, <3>1 DEF ClaimInv
      <3>3. Told(r) = <<r.status, r.rejectedAt>> /\ Told(row'[Claim]) = <<s.status, s.rejectedAt>>
        BY <2>4, <2>6, <2>7, WorkforceAssumption DEF Told
      <3>4. /\ s.rejectedAt = (s.status = "REJECTED")
            /\ Told(s) = Told(r) \/ <<Told(r), Told(s)>> \in ClaimMove
        <4>1. CASE r.status = "PENDING"
          <5>1. s.status \in ClaimStatus
            BY <2>6 DEF ClaimRow
          <5>2. s.rejectedAt = (s.status = "REJECTED")
            BY <2>6, <3>2, <4>1
          <5>3. Told(r) = <<"PENDING", FALSE>> /\ Told(s) = <<s.status, s.status = "REJECTED">>
            BY <2>7, <3>2, <3>3, <4>1, <5>2
          <5>4. <<<<"PENDING", FALSE>>, <<s.status, s.status = "REJECTED">>>> \in ClaimMove
            BY <5>1 DEF ClaimMove
          <5>5. QED
            BY <5>2, <5>3, <5>4
        <4>2. CASE r.status = "APPROVED" /\ fields = [status |-> "PAID"]
          <5>1. fields.status = "PAID" /\ r.rejectedAt = FALSE
            <6>1. fields.status = "PAID"
              BY <4>2
            <6>2. (r.status = "REJECTED") = FALSE
              BY <4>2
            <6>3. QED
              BY <3>2, <6>1, <6>2
          <5>2. s.status \in {"APPROVED", "PAID"} /\ s.rejectedAt = FALSE
            BY <2>6, <4>2, <5>1
          <5>3. Told(r) = <<"APPROVED", FALSE>> /\ Told(s) = <<s.status, FALSE>>
            BY <2>7, <3>3, <4>2, <5>1, <5>2
          <5>4. <<<<"APPROVED", FALSE>>, <<"PAID", FALSE>>>> \in ClaimMove
            BY DEF ClaimMove
          <5>5. QED
            BY <5>2, <5>3, <5>4
        <4>3. QED
          BY <2>2, <3>1, <4>1, <4>2 DEF Legal
      <3>5. ClaimInv'
        BY <1>5, <2>4, <2>6, <3>4
      <3>6. ClaimGoes
        BY <2>7, <2>10, <3>1, <3>4 DEF ClaimGoes
      <3>7. QED
        BY <3>5, <3>6
    <2>11. QED
      BY <2>9, <2>10
  <1>8. QED
    BY <1>1, <1>6, <1>7 DEF ClaimQueries

LEMMA ClaimStep ==
  ASSUME Claim \in Watched, ClaimInv,
         [(\E c \in Call : ReimbursementsNext(c) \/ Step(c)) \/ Restart]_vars
  PROVE  ClaimInv' /\ ClaimGoes
  <1>1. ASSUME NEW c \in Call, ReimbursementsNext(c) PROVE ClaimInv' /\ ClaimGoes
    BY <1>1, ClaimDecides
  <1>2. ASSUME NEW c \in Call, Commit(c) PROVE ClaimInv' /\ ClaimGoes
    BY <1>2, ClaimCommit
  <1>3. ASSUME row' = row, raced' = raced, todo' \in [Call -> Seq(ClaimQueries)]
        PROVE  ClaimInv' /\ ClaimGoes
    <2>1. ClaimQueries' = ClaimQueries
      BY DEF ClaimQueries, Deciding
    <2>2. QED
      BY <1>3, <2>1 DEF ClaimInv, ClaimGoes
  <1>4. ASSUME NEW c \in Call, Fail(c) PROVE ClaimInv' /\ ClaimGoes
    <2>1. todo' \in [Call -> Seq(ClaimQueries)]
      BY <1>4, TodoEnds DEF ClaimInv, Fail, End
    <2>2. QED
      BY <1>3, <1>4, <2>1 DEF Fail, End, history
  <1>5. CASE Restart
    <2>1. todo' \in [Call -> Seq(ClaimQueries)]
      BY <1>5, TodoIsOver DEF Restart
    <2>2. QED
      BY <1>3, <1>5, <2>1 DEF Restart, history
  <1>6. CASE UNCHANGED vars
    BY <1>3, <1>6 DEF vars, ClaimInv
  <1>7. QED
    BY <1>1, <1>2, <1>4, <1>5, <1>6 DEF Step

\* However decisions and payments of a reimbursement interleave, fail or are cut off, a claim that
\* no call changed unseen is decided on once and paid only after its approval, and never once it
\* was rejected.
THEOREM ClaimIsDecidedOnce ==
  ASSUME Claim \in Watched
  PROVE  ReimbursementsSpec => ClaimFollowsItsLife
  <1>1. CallsInit(NoField) => ClaimInv /\ ClaimLife!Init
    <2> SUFFICES ASSUME CallsInit(NoField) PROVE ClaimInv /\ ClaimLife!Init
      OBVIOUS
    <2>1. row = [i \in Id |-> None] /\ raced = {}
      BY DEF CallsInit, NoField
    <2>2. row[Claim] = None
      BY <2>1, WorkforceAssumption
    <2>3. ClaimInv
      BY <2>1, <2>2, EmptySeq DEF ClaimInv, CallsInit
    <2>4. ClaimLife!Init
      BY <2>1, <2>2 DEF ClaimLife!Init
    <2>5. QED
      BY <2>3, <2>4
  <1>2. ClaimInv /\ [(\E c \in Call : ReimbursementsNext(c) \/ Step(c)) \/ Restart]_vars
          => ClaimInv' /\ ClaimGoes
    BY ClaimStep
  <1>3. ClaimInv' /\ ClaimGoes => ClaimLife!Next
    <2> SUFFICES ASSUME ClaimInv', ClaimGoes PROVE ClaimLife!Next
      OBVIOUS
    <2>1. Told(row'[Claim]) \in (ClaimStatus \X BOOLEAN) \cup {NoClaim}
      BY DEF ClaimInv, ClaimRow, Told
    <2> DEFINE stage ==
          [i \in {Claim} |-> IF row[i] = None THEN NoClaim ELSE <<row[i].status, row[i].rejectedAt>>]
    <2>2. stage[Claim] = Told(row[Claim]) /\ stage'[Claim] = Told(row'[Claim])
      BY DEF Told
    <2>3. stage' \in [{Claim} -> (ClaimStatus \X BOOLEAN) \cup {NoClaim}]
      BY <2>1, <2>2
    <2> HIDE DEF stage
    <2>4. ASSUME <<Told(row[Claim]), Told(row'[Claim])>> \in ClaimMove /\ Claim \notin raced \cup raced'
          PROVE  ClaimLife!Proceeds(Claim)
      BY <2>2, <2>4 DEF ClaimLife!Proceeds, stage
    <2>5. ASSUME Claim \in raced'
          PROVE  ClaimLife!Doubted(Claim)
      BY <2>5 DEF ClaimLife!Doubted, stage
    <2>6. ASSUME row[Claim] = None /\ row'[Claim] = None /\ Claim \notin raced'
          PROVE  ClaimLife!Renewed(Claim)
      BY <2>2, <2>6 DEF ClaimLife!Renewed, stage, Told
    <2>7. ASSUME Told(row'[Claim]) = Told(row[Claim]) /\ Claim \notin raced \cup raced'
          PROVE  ClaimLife!Rests(Claim)
      BY <2>2, <2>7 DEF ClaimLife!Rests, stage
    <2>8. \/ ClaimLife!Proceeds(Claim) \/ ClaimLife!Doubted(Claim)
          \/ ClaimLife!Renewed(Claim) \/ ClaimLife!Rests(Claim)
      BY <2>4, <2>5, <2>6, <2>7 DEF ClaimGoes
    <2>9. QED
      BY <2>3, <2>8 DEF ClaimLife!Next, stage
  <1>4. QED
    BY <1>1, <1>2, <1>3, PTL DEF ReimbursementsSpec, ClaimFollowsItsLife, ClaimLife!Spec

-------------------------------------------------------------------------------
(***************************************************************************)
(* Drivers. A call that has made a payout and has not yet raised the       *)
(* earnings owes the amount. What is earned and what is owed are together  *)
(* no more than what was paid out.                                         *)
(***************************************************************************)

Raise(amount) == Add(Driver, [earned |-> amount])

Payment(p, amount) ==
  Both(Insert(p, [amount |-> amount, status |-> "PENDING"]), Exists(Driver))

\* A change of the record i that leaves earnings and amounts as they are.
Modest(i, w) ==
  \/ i = Driver /\ w = [saw |-> None, put |-> [earned |-> 0], inc |-> NoField]
  \/ i = Driver /\ w = [saw |-> Unseen, put |-> NoField, inc |-> NoField]
  \/ i \in Shift /\ w.saw = None /\ w.put \in [status : ShiftStatus]
  \/ i \in Shift /\ w.saw # None /\ w.inc = NoField /\ w.put \in ShiftEdit \cup [status : ShiftStatus]
  \/ i \in Rating /\ w.saw = None /\ w.put \in [score : 1..5]
  \/ i \in Payout /\ w = [saw |-> Unseen, put |-> [status |-> "COMPLETED"], inc |-> NoField]

\* The queries of the methods but for those of createPayout and the deletion.
DriversQueries ==
  {Insert(Driver, [earned |-> 0]), Exists(Driver)}
    \cup {Both(Insert(s, [status |-> "SCHEDULED"]), Exists(Driver)) : s \in Shift}
    \cup {Write(s, old, edit, NoField) :
            s \in Shift, old \in [status : ShiftStatus] \cup {Unseen}, edit \in ShiftEdit \cup [status : ShiftStatus]}
    \cup {Both(Insert(r, input), Exists(Driver)) : r \in Rating, input \in RatingInput}
    \cup {Overwrite(p, [status |-> "COMPLETED"]) : p \in Payout}

\* The only query of such a call.
DriversOnly == DriversQueries \cup {Then("drop driver", Driver)}

DriversTodo ==
  {<<>>} \cup {<<q>> : q \in DriversOnly}
    \cup {PayoutOf(p, amount) : p \in Payout, amount \in Amount}
    \cup {<<Raise(amount)>> : amount \in Amount}

Earned == IF row[Driver] = None THEN 0 ELSE row[Driver].earned

\* What a call with these queries still has to add, of a payout that is there.
Owes(queries) ==
  IF \E amount \in Amount : queries = <<Raise(amount)>> THEN Head(queries).on[Driver].inc.earned ELSE 0

Owed == [c \in Call |-> Owes(todo[c])]

DriversInv ==
  /\ DOMAIN row = Id /\ DriversRows(row)
  /\ todo \in [Call -> DriversTodo]
  /\ Earned + SumFunctionOnSet(Owed, Call) <= SumFunctionOnSet(PaidOut, Payout)

-------------------------------------------------------------------------------
(* The queries *)

LEMMA RaiseParts ==
  ASSUME NEW amount, NEW q, q = Raise(amount)
  PROVE  /\ q.do = "write" /\ DOMAIN q.on = {Driver}
         /\ q.on[Driver] = [saw |-> Unseen, put |-> NoField, inc |-> [earned |-> amount]]
  BY DEF Raise, Add, Write

LEMMA BothInsertParts ==
  ASSUME NEW i, i # Driver, NEW r, NEW q, q = Both(Insert(i, r), Exists(Driver))
  PROVE  /\ q.do = "write" /\ DOMAIN q.on = {i, Driver}
         /\ q.on[i] = [saw |-> None, put |-> r, inc |-> NoField]
         /\ q.on[Driver] = [saw |-> Unseen, put |-> NoField, inc |-> NoField]
  <1> DEFINE first == Insert(i, r)
  <1>1. DOMAIN first.on = {i} /\ first.on[i] = [saw |-> None, put |-> r, inc |-> NoField]
    BY DEF Insert, Write
  <1>2. q = Both(first, Write(Driver, Unseen, NoField, NoField))
    BY DEF Exists, Add
  <1>3. Driver \notin DOMAIN first.on
    BY <1>1
  <1> HIDE DEF first
  <1>4. QED
    BY <1>1, <1>2, <1>3, BothParts

LEMMA PaymentParts ==
  ASSUME NEW p \in Payout, NEW amount, NEW q, q = Payment(p, amount)
  PROVE  /\ q.do = "write" /\ DOMAIN q.on = {p, Driver}
         /\ q.on[p] = [saw |-> None, put |-> [amount |-> amount, status |-> "PENDING"], inc |-> NoField]
         /\ q.on[Driver] = [saw |-> Unseen, put |-> NoField, inc |-> NoField]
  BY BothInsertParts, DriversAssumption DEF Payment

LEMMA OneWriteParts ==
  ASSUME NEW i, NEW old, NEW fields, NEW q, q = Write(i, old, fields, NoField)
  PROVE  q.do = "write" /\ DOMAIN q.on = {i} /\ q.on[i] = [saw |-> old, put |-> fields, inc |-> NoField]
  BY DEF Write

LEMMA QueriesAreModest ==
  ASSUME NEW q \in DriversQueries
  PROVE  q.do = "write" /\ \A i \in DOMAIN q.on : i \in Id /\ Modest(i, q.on[i])
  <1>1. CASE q = Insert(Driver, [earned |-> 0])
    <2>1. q.do = "write" /\ DOMAIN q.on = {Driver}
          /\ q.on[Driver] = [saw |-> None, put |-> [earned |-> 0], inc |-> NoField]
      BY <1>1, OneWriteParts DEF Insert
    <2>2. QED
      BY <2>1, DriversAssumption DEF Modest
  <1>2. CASE q = Exists(Driver)
    <2>1. q.do = "write" /\ DOMAIN q.on = {Driver}
          /\ q.on[Driver] = [saw |-> Unseen, put |-> NoField, inc |-> NoField]
      BY <1>2, OneWriteParts DEF Exists, Add
    <2>2. QED
      BY <2>1, DriversAssumption DEF Modest
  <1>3. ASSUME NEW s \in Shift, q = Both(Insert(s, [status |-> "SCHEDULED"]), Exists(Driver))
        PROVE  q.do = "write" /\ \A i \in DOMAIN q.on : i \in Id /\ Modest(i, q.on[i])
    <2>1. s # Driver
      BY DriversAssumption
    <2>2. /\ q.do = "write" /\ DOMAIN q.on = {s, Driver}
          /\ q.on[s] = [saw |-> None, put |-> [status |-> "SCHEDULED"], inc |-> NoField]
          /\ q.on[Driver] = [saw |-> Unseen, put |-> NoField, inc |-> NoField]
      BY <1>3, <2>1, BothInsertParts
    <2>3. [status |-> "SCHEDULED"] \in [status : ShiftStatus]
      BY DEF ShiftStatus
    <2>4. q.on[s].saw = None /\ q.on[s].put \in [status : ShiftStatus]
      BY <2>2, <2>3
    <2>5. Modest(s, q.on[s]) /\ Modest(Driver, q.on[Driver])
      BY <2>2, <2>4 DEF Modest
    <2>6. QED
      BY <2>2, <2>5, DriversAssumption
  <1>4. ASSUME NEW s \in Shift, NEW old \in [status : ShiftStatus] \cup {Unseen},
               NEW edit \in ShiftEdit \cup [status : ShiftStatus], q = Write(s, old, edit, NoField)
        PROVE  q.do = "write" /\ \A i \in DOMAIN q.on : i \in Id /\ Modest(i, q.on[i])
    <2>1. q.do = "write" /\ DOMAIN q.on = {s} /\ q.on[s] = [saw |-> old, put |-> edit, inc |-> NoField]
      BY <1>4, OneWriteParts
    <2>2. old # None
      BY DriversAssumption, UnseenAssumption
    <2>3. q.on[s].saw # None /\ q.on[s].inc = NoField /\ q.on[s].put = edit
      BY <2>1, <2>2
    <2>4. Modest(s, q.on[s])
      BY <2>3 DEF Modest
    <2>5. QED
      BY <2>1, <2>4, DriversAssumption
  <1>5. ASSUME NEW r \in Rating, NEW input \in RatingInput, q = Both(Insert(r, input), Exists(Driver))
        PROVE  q.do = "write" /\ \A i \in DOMAIN q.on : i \in Id /\ Modest(i, q.on[i])
    <2>1. r # Driver
      BY DriversAssumption
    <2>2. /\ q.do = "write" /\ DOMAIN q.on = {r, Driver}
          /\ q.on[r] = [saw |-> None, put |-> input, inc |-> NoField]
          /\ q.on[Driver] = [saw |-> Unseen, put |-> NoField, inc |-> NoField]
      BY <1>5, <2>1, BothInsertParts
    <2>3. input \in [score : 1..5]
      BY DEF RatingInput
    <2>4. q.on[r].saw = None /\ q.on[r].put \in [score : 1..5]
      BY <2>2, <2>3
    <2>5. Modest(r, q.on[r]) /\ Modest(Driver, q.on[Driver])
      BY <2>2, <2>4 DEF Modest
    <2>6. QED
      BY <2>2, <2>5, DriversAssumption
  <1>6. ASSUME NEW p \in Payout, q = Overwrite(p, [status |-> "COMPLETED"])
        PROVE  q.do = "write" /\ \A i \in DOMAIN q.on : i \in Id /\ Modest(i, q.on[i])
    <2>1. q.do = "write" /\ DOMAIN q.on = {p}
          /\ q.on[p] = [saw |-> Unseen, put |-> [status |-> "COMPLETED"], inc |-> NoField]
      BY <1>6, OneWriteParts DEF Overwrite
    <2>2. Modest(p, q.on[p])
      BY <2>1 DEF Modest
    <2>3. QED
      BY <2>1, <2>2, DriversAssumption
  <1>7. QED
    BY <1>1, <1>2, <1>3, <1>4, <1>5, <1>6 DEF DriversQueries

\* A modest change keeps the type, the earnings and the amounts.
LEMMA ModestChange ==
  ASSUME DriversRows(row), NEW i, NEW w, Modest(i, w), (w.saw = None) = (row[i] = None),
         NEW s, s = Applied(w, row[i])
  PROVE  /\ i = Driver => /\ s \in [earned : Nat] \cup {None}
                          /\ (IF s = None THEN 0 ELSE s.earned) = Earned
         /\ i \in Shift => s \in [status : ShiftStatus] \cup {None}
         /\ i \in Rating => s \in [score : 1..5] \cup {None}
         /\ i \in Payout => s \in PayoutRow /\ row[i] # None /\ s.amount = row[i].amount
  <1>1. CASE i = Driver /\ w = [saw |-> None, put |-> [earned |-> 0], inc |-> NoField]
    <2>1. s = [earned |-> 0] /\ row[i] = None /\ s # None
      BY <1>1, DriversAssumption DEF Applied
    <2>2. s \in [earned : Nat] /\ s.earned = 0 /\ Earned = 0
      BY <1>1, <2>1 DEF Earned
    <2>3. QED
      BY <1>1, <2>1, <2>2, DriversAssumption
  <1>2. CASE i = Driver /\ w = [saw |-> Unseen, put |-> NoField, inc |-> NoField]
    <2>1. row[i] # None /\ row[i] \in [earned : Nat]
      BY <1>2, UnseenAssumption DEF DriversRows
    <2>2. s = [f \in DOMAIN row[i] |-> IF f \in DOMAIN NoField THEN NoField[f] ELSE row[i][f]]
      BY <1>2, <2>1, AppliedIs, DriversAssumption
    <2>3. DOMAIN NoField = {}
      BY DEF NoField
    <2>4. s = row[i]
      BY <2>1, <2>2, <2>3
    <2>5. QED
      BY <1>2, <2>1, <2>4, DriversAssumption DEF Earned
  <1>3. CASE i \in Shift /\ w.saw = None /\ w.put \in [status : ShiftStatus]
    <2>1. s = w.put
      BY <1>3, DriversAssumption DEF Applied
    <2>2. QED
      BY <1>3, <2>1, DriversAssumption
  <1>4. CASE i \in Shift /\ w.saw # None /\ w.inc = NoField /\ w.put \in ShiftEdit \cup [status : ShiftStatus]
    <2>1. row[i] # None /\ row[i] \in [status : ShiftStatus]
      BY <1>4 DEF DriversRows
    <2>2. w.put # None /\ DOMAIN w.put \subseteq {"status"} /\ \A f \in DOMAIN w.put : w.put[f] \in ShiftStatus
      <3>1. CASE w.put \in [status : ShiftStatus]
        BY <3>1, DriversAssumption
      <3>2. ASSUME NEW fields \in [status : ShiftStatus \cup {None}], w.put = Given(fields)
            PROVE  DOMAIN w.put \subseteq {"status"} /\ \A f \in DOMAIN w.put : w.put[f] \in ShiftStatus
        <4>1. DOMAIN fields = {"status"} /\ fields["status"] \in ShiftStatus \cup {None}
          BY <3>2
        <4>2. DOMAIN w.put = {g \in DOMAIN fields : fields[g] # None}
          BY <3>2, GivenIs
        <4>3. \A f \in DOMAIN w.put : w.put[f] = fields[f] /\ fields[f] # None
          BY <3>2, GivenIs
        <4>4. QED
          BY <4>1, <4>2, <4>3
      <3>3. ASSUME NEW fields \in [status : ShiftStatus \cup {None}], w.put = Given(fields)
            PROVE  w.put # None
        <4>1. CASE fields.status = None
          <5>1. Given(fields) = NoField
            BY <4>1 DEF Given, NoField
          <5>2. QED
            BY <3>3, <5>1, DriversAssumption
        <4>2. CASE fields.status # None
          <5>1. Given(fields) = fields /\ fields \in [status : ShiftStatus]
            BY <4>2 DEF Given
          <5>2. QED
            BY <3>3, <5>1, DriversAssumption
        <4>3. QED
          BY <4>1, <4>2
      <3>4. w.put \in ShiftEdit => \E fields \in [status : ShiftStatus \cup {None}] : w.put = Given(fields)
        BY DEF ShiftEdit
      <3>5. QED
        BY <1>4, <3>1, <3>2, <3>3, <3>4
    <2>3. s = [f \in DOMAIN row[i] |-> IF f \in DOMAIN w.put THEN w.put[f]
                                       ELSE IF f \in DOMAIN NoField THEN row[i][f] + NoField[f] ELSE row[i][f]]
      BY <1>4, <2>1, <2>2 DEF Applied
    <2>4. DOMAIN NoField = {}
      BY DEF NoField
    <2>5. s \in [status : ShiftStatus]
      BY <2>1, <2>2, <2>3, <2>4
    <2>6. QED
      BY <1>4, <2>5, DriversAssumption
  <1>5. CASE i \in Rating /\ w.saw = None /\ w.put \in [score : 1..5]
    <2>1. s = w.put
      BY <1>5, DriversAssumption DEF Applied
    <2>2. QED
      BY <1>5, <2>1, DriversAssumption
  <1>6. CASE i \in Payout /\ w = [saw |-> Unseen, put |-> [status |-> "COMPLETED"], inc |-> NoField]
    <2>1. row[i] # None /\ row[i] \in PayoutRow
      BY <1>6, UnseenAssumption DEF DriversRows
    <2> DEFINE fields == [status |-> "COMPLETED"]
    <2>2. fields # None /\ DOMAIN fields = {"status"} /\ fields.status = "COMPLETED"
      BY DriversAssumption
    <2>3. w = [saw |-> Unseen, put |-> fields, inc |-> NoField]
      BY <1>6
    <2> HIDE DEF fields
    <2>4. s = [f \in DOMAIN row[i] |-> IF f \in DOMAIN fields THEN fields[f] ELSE row[i][f]]
      BY <2>1, <2>2, <2>3, AppliedIs
    <2>5. s \in PayoutRow /\ s.amount = row[i].amount
      BY <2>1, <2>2, <2>4 DEF PayoutRow
    <2>6. QED
      BY <1>6, <2>1, <2>5, DriversAssumption
  <1>7. QED
    BY <1>1, <1>2, <1>3, <1>4, <1>5, <1>6 DEF Modest

-------------------------------------------------------------------------------
(* What calls owe *)

LEMMA OwesRaise ==
  ASSUME NEW amount \in Amount
  PROVE  Owes(<<Raise(amount)>>) = amount
  <1> DEFINE q == Raise(amount)
  <1>1. q = Raise(amount)
    OBVIOUS
  <1> HIDE DEF q
  <1>2. q.on[Driver] = [saw |-> Unseen, put |-> NoField, inc |-> [earned |-> amount]]
    BY <1>1, RaiseParts
  <1>3. q.on[Driver].inc.earned = amount
    BY <1>2
  <1>4. Head(<<q>>) = q
    OBVIOUS
  <1>5. QED
    BY <1>1, <1>3, <1>4 DEF Owes

\* A modest query raises nothing.
LEMMA ModestOwesNothing ==
  ASSUME NEW q \in DriversOnly
  PROVE  Owes(<<q>>) = 0
  <1>1. SUFFICES ASSUME NEW amount \in Amount, <<q>> = <<Raise(amount)>> PROVE FALSE
    BY DEF Owes
  <1>2. q = Raise(amount)
    BY <1>1
  <1>3. q.do = "write" /\ DOMAIN q.on = {Driver}
    BY <1>2, RaiseParts
  <1>4. q.on[Driver] = [saw |-> Unseen, put |-> NoField, inc |-> [earned |-> amount]]
    BY <1>2, RaiseParts
  <1>5. q \in DriversQueries
    <2> DEFINE drop == Then("drop driver", Driver)
    <2>1. drop.do = "drop driver"
      BY ThenParts
    <2>2. q \in DriversQueries \cup {drop}
      BY DEF DriversOnly
    <2> HIDE DEF drop
    <2>3. drop # q
      BY <1>3, <2>1
    <2>4. QED
      BY <2>2, <2>3
  <1>6. Modest(Driver, q.on[Driver])
    BY <1>3, <1>5, QueriesAreModest
  <1>7. Driver \notin Shift \cup Rating \cup Payout
    BY DriversAssumption
  <1> DEFINE w == q.on[Driver]
             more == [earned |-> amount]
  <1>8. w = [saw |-> Unseen, put |-> NoField, inc |-> more]
    BY <1>4
  <1>9. \/ w = [saw |-> None, put |-> [earned |-> 0], inc |-> NoField]
        \/ w = [saw |-> Unseen, put |-> NoField, inc |-> NoField]
    BY <1>6, <1>7 DEF Modest
  <1>10. DOMAIN more = {"earned"}
    OBVIOUS
  <1> HIDE DEF w, more
  <1>11. more = NoField
    <2>1. w.inc = more
      BY <1>8
    <2>2. w.inc = NoField
      BY <1>9
    <2>3. QED
      BY <2>1, <2>2
  <1>12. DOMAIN NoField = {}
    BY DEF NoField
  <1>13. QED
    BY <1>10, <1>11, <1>12

LEMMA OwesNone == Owes(<<>>) = 0
  <1>1. \A amount \in Amount : <<>> # <<Raise(amount)>>
    OBVIOUS
  <1>2. QED
    BY <1>1 DEF Owes

\* Nor does a payout that is not there yet.
LEMMA PayoutOwesNothing ==
  ASSUME NEW p \in Payout, NEW amount \in Amount
  PROVE  Owes(PayoutOf(p, amount)) = 0
  <1> DEFINE q == Payment(p, amount)
             r == Raise(amount)
  <1>1. PayoutOf(p, amount) = <<q, r>>
    BY DEF PayoutOf, Payment, Raise
  <1> HIDE DEF q, r
  <1>2. \A other \in Amount : <<q, r>> # <<Raise(other)>>
    <2> SUFFICES ASSUME NEW other \in Amount PROVE <<q, r>> # <<Raise(other)>>
      OBVIOUS
    <2> DEFINE s == Raise(other)
    <2> HIDE DEF s
    <2>1. Len(<<q, r>>) = 2 /\ Len(<<s>>) = 1
      OBVIOUS
    <2>2. <<q, r>> # <<s>>
      BY <2>1
    <2>3. QED
      BY <2>2 DEF s
  <1>3. QED
    BY <1>1, <1>2 DEF Owes

LEMMA OwesNat ==
  ASSUME NEW queries \in DriversTodo
  PROVE  Owes(queries) \in Nat
  <1>1. CASE queries = <<>>
    BY <1>1, OwesNone
  <1>2. ASSUME NEW q \in DriversOnly, queries = <<q>>
        PROVE  Owes(queries) \in Nat
    <2>1. Owes(<<q>>) = 0
      BY ModestOwesNothing
    <2>2. QED
      BY <1>2, <2>1
  <1>3. ASSUME NEW p \in Payout, NEW amount \in Amount, queries = PayoutOf(p, amount)
        PROVE  Owes(queries) \in Nat
    BY <1>3, PayoutOwesNothing
  <1>4. ASSUME NEW amount \in Amount, queries = <<Raise(amount)>>
        PROVE  Owes(queries) \in Nat
    BY <1>4, OwesRaise, DriversAssumption
  <1>5. \/ queries = <<>>
        \/ queries \in {<<q>> : q \in DriversOnly}
        \/ queries \in {PayoutOf(p, amount) : p \in Payout, amount \in Amount}
        \/ queries \in {<<Raise(amount)>> : amount \in Amount}
    BY DEF DriversTodo
  <1>6. QED
    BY <1>1, <1>2, <1>3, <1>4, <1>5

-------------------------------------------------------------------------------
(* The steps *)

\* Sums of naturals.
LEMMA DriversSums ==
  ASSUME DriversRows(row), todo \in [Call -> DriversTodo]
  PROVE  /\ \A c \in Call : Owed[c] = Owes(todo[c]) /\ Owed[c] \in Nat
         /\ \A p \in Payout : PaidOut[p] \in Nat
         /\ SumFunctionOnSet(Owed, Call) \in Nat /\ SumFunctionOnSet(PaidOut, Payout) \in Nat
         /\ Earned \in Nat
  <1>1. \A c \in Call : Owed[c] = Owes(todo[c]) /\ Owed[c] \in Nat
    BY OwesNat DEF Owed
  <1>2. \A p \in Payout : PaidOut[p] \in Nat
    BY DriversAssumption DEF DriversRows, PayoutRow, PaidOut
  <1>3. SumFunctionOnSet(Owed, Call) \in Nat /\ SumFunctionOnSet(PaidOut, Payout) \in Nat
    BY <1>1, <1>2, SumIsNat, DriversAssumption
  <1>4. Earned \in Nat
    BY DriversAssumption DEF DriversRows, Earned
  <1>5. QED
    BY <1>1, <1>2, <1>3, <1>4

LEMMA DriversSumsNext ==
  ASSUME DriversRows(row'), todo' \in [Call -> DriversTodo]
  PROVE  /\ \A c \in Call : Owed'[c] = Owes(todo'[c]) /\ Owed'[c] \in Nat
         /\ \A p \in Payout : PaidOut'[p] \in Nat
         /\ SumFunctionOnSet(Owed', Call) \in Nat /\ SumFunctionOnSet(PaidOut', Payout) \in Nat
         /\ Earned' \in Nat
  <1>1. \A c \in Call : Owed'[c] = Owes(todo'[c]) /\ Owed'[c] \in Nat
    BY OwesNat DEF Owed
  <1>2. \A p \in Payout : PaidOut'[p] \in Nat
    BY DriversAssumption DEF DriversRows, PayoutRow, PaidOut
  <1>3. SumFunctionOnSet(Owed', Call) \in Nat /\ SumFunctionOnSet(PaidOut', Payout) \in Nat
    BY <1>1, <1>2, SumIsNat, DriversAssumption
  <1>4. Earned' \in Nat
    BY DriversAssumption DEF DriversRows, Earned
  <1>5. QED
    BY <1>1, <1>2, <1>3, <1>4

\* No step but an insert of a payout, or one that raises the earnings, makes them grow.
LEMMA NothingRaised ==
  ASSUME DriversInv, DOMAIN row' = Id, DriversRows(row'), todo' \in [Call -> DriversTodo],
         Earned' <= Earned, \A c \in Call : Owes(todo'[c]) <= Owes(todo[c]),
         \A p \in Payout : PaidOut'[p] = PaidOut[p]
  PROVE  DriversInv'
  <1> USE DriversAssumption
  <1>1. /\ \A c \in Call : Owed[c] = Owes(todo[c]) /\ Owed[c] \in Nat
        /\ \A p \in Payout : PaidOut[p] \in Nat
        /\ SumFunctionOnSet(Owed, Call) \in Nat /\ SumFunctionOnSet(PaidOut, Payout) \in Nat
        /\ Earned \in Nat
    BY DriversSums DEF DriversInv
  <1>2. /\ \A c \in Call : Owed'[c] = Owes(todo'[c]) /\ Owed'[c] \in Nat
        /\ SumFunctionOnSet(Owed', Call) \in Nat /\ SumFunctionOnSet(PaidOut', Payout) \in Nat
        /\ Earned' \in Nat
    BY DriversSumsNext
  <1>3. SumFunctionOnSet(Owed', Call) <= SumFunctionOnSet(Owed, Call)
    BY <1>1, <1>2, SumIsNoLess
  <1>4. SumFunctionOnSet(PaidOut, Payout) = SumFunctionOnSet(PaidOut', Payout)
    BY <1>1, SumIsSame
  <1>5. Earned + SumFunctionOnSet(Owed, Call) <= SumFunctionOnSet(PaidOut, Payout)
    BY DEF DriversInv
  <1>6. Earned' + SumFunctionOnSet(Owed', Call) <= SumFunctionOnSet(PaidOut', Payout)
    BY <1>1, <1>2, <1>3, <1>4, <1>5
  <1>7. QED
    BY <1>6 DEF DriversInv

LEMMA DriversQuiet ==
  ASSUME DriversInv, Quiet, todo' \in [Call -> DriversTodo]
  PROVE  DriversInv'
  <1>1. DOMAIN row' = Id /\ DriversRows(row')
    BY DEF Quiet, DriversInv, DriversRows
  <1>2. Earned' = Earned /\ \A p \in Payout : PaidOut'[p] = PaidOut[p]
    BY DEF Quiet, Earned, PaidOut
  <1>3. Earned \in Nat /\ \A d \in Call : Owes(todo[d]) \in Nat
    BY DriversSums, OwesNat DEF DriversInv
  <1>4. \A d \in Call : Owes(todo'[d]) <= Owes(todo[d])
    <2> SUFFICES ASSUME NEW d \in Call PROVE Owes(todo'[d]) <= Owes(todo[d])
      OBVIOUS
    <2>1. CASE todo'[d] = <<>>
      BY <1>3, <2>1, OwesNone
    <2>2. CASE todo'[d] = todo[d]
      BY <1>3, <2>2
    <2>3. QED
      BY <2>1, <2>2 DEF Quiet
  <1>5. QED
    BY <1>1, <1>2, <1>3, <1>4, NothingRaised

\* A call that decides owes nothing yet.
LEMMA DriversDecide ==
  ASSUME DriversInv, NEW c \in Call, NEW queries \in DriversTodo, Owes(queries) = 0, Decide(c, queries)
  PROVE  DriversInv'
  <1>1. row' = row /\ todo' = [todo EXCEPT ![c] = queries]
    BY DecideParts
  <1>2. todo' \in [Call -> DriversTodo] /\ todo'[c] = queries /\ \A d \in Call \ {c} : todo'[d] = todo[d]
    BY <1>1 DEF DriversInv
  <1>3. DOMAIN row' = Id /\ DriversRows(row')
    BY <1>1 DEF DriversInv, DriversRows
  <1>4. Earned' = Earned /\ \A p \in Payout : PaidOut'[p] = PaidOut[p]
    BY <1>1 DEF Earned, PaidOut
  <1>5. Earned \in Nat /\ \A d \in Call : Owes(todo[d]) \in Nat
    BY DriversSums, OwesNat DEF DriversInv
  <1>6. \A d \in Call : Owes(todo'[d]) <= Owes(todo[d])
    BY <1>2, <1>5
  <1>7. QED
    BY <1>2, <1>3, <1>4, <1>5, <1>6, NothingRaised

\* A modest query leaves earnings, amounts and the other calls alone.
LEMMA ModestDid ==
  ASSUME DriversInv, NEW c \in Call, NEW q \in DriversQueries, Did(c, q), todo[c] = <<q>>
  PROVE  DriversInv'
  <1>1. /\ row' = [i \in Id |-> IF i \in DOMAIN q.on THEN Applied(q.on[i], row[i]) ELSE row[i]]
        /\ \A i \in DOMAIN q.on : i \in Id /\ Modest(i, q.on[i]) /\ (q.on[i].saw = None) = (row[i] = None)
    BY QueriesAreModest DEF Did
  <1>2. DriversRows(row)
    BY DEF DriversInv
  <1>3. ASSUME NEW i \in DOMAIN q.on
        PROVE  /\ i = Driver => /\ row'[i] \in [earned : Nat] \cup {None}
                                /\ (IF row'[i] = None THEN 0 ELSE row'[i].earned) = Earned
               /\ i \in Shift => row'[i] \in [status : ShiftStatus] \cup {None}
               /\ i \in Rating => row'[i] \in [score : 1..5] \cup {None}
               /\ i \in Payout => row'[i] \in PayoutRow /\ row[i] # None /\ row'[i].amount = row[i].amount
    <2> DEFINE w == q.on[i]
               s == Applied(w, row[i])
    <2>1. Modest(i, w) /\ (w.saw = None) = (row[i] = None) /\ s = Applied(w, row[i])
      BY <1>1
    <2>2. row'[i] = s
      BY <1>1
    <2> HIDE DEF w, s
    <2>3. QED
      BY <1>2, <2>1, <2>2, ModestChange
  <1>4. ASSUME NEW i \in Id, i \notin DOMAIN q.on PROVE row'[i] = row[i]
    BY <1>1, <1>4
  <1>5. DOMAIN row' = Id /\ {Driver} \cup Shift \cup Payout \cup Rating \subseteq Id
    BY <1>1, DriversAssumption
  <1>6. DriversRows(row')
    <2>1. row'[Driver] \in [earned : Nat] \cup {None}
      BY <1>2, <1>3, <1>4, <1>5 DEF DriversRows
    <2>2. \A s \in Shift : row'[s] \in [status : ShiftStatus] \cup {None}
      BY <1>2, <1>3, <1>4, <1>5 DEF DriversRows
    <2>3. \A p \in Payout : row'[p] \in PayoutRow \cup {None}
      BY <1>2, <1>3, <1>4, <1>5 DEF DriversRows
    <2>4. \A r \in Rating : row'[r] \in [score : 1..5] \cup {None}
      BY <1>2, <1>3, <1>4, <1>5 DEF DriversRows
    <2>5. QED
      BY <2>1, <2>2, <2>3, <2>4 DEF DriversRows
  <1>7. Earned' = Earned
    BY <1>3, <1>4, <1>5 DEF Earned
  <1>8. \A p \in Payout : PaidOut'[p] = PaidOut[p]
    BY <1>3, <1>4, <1>5, DriversAssumption DEF PaidOut
  <1>9. todo' \in [Call -> DriversTodo] /\ todo'[c] = <<>> /\ \A d \in Call \ {c} : todo'[d] = todo[d]
    <2>1. todo' = [todo EXCEPT ![c] = <<>>]
      BY DEF Did
    <2>2. <<>> \in DriversTodo
      BY DEF DriversTodo
    <2>3. QED
      BY <2>1, <2>2 DEF DriversInv
  <1>10. Earned \in Nat /\ \A d \in Call : Owes(todo[d]) \in Nat
    BY DriversSums, OwesNat DEF DriversInv
  <1>11. \A d \in Call : Owes(todo'[d]) <= Owes(todo[d])
    BY <1>9, <1>10, OwesNone
  <1>12. QED
    BY <1>5, <1>6, <1>7, <1>8, <1>9, <1>10, <1>11, NothingRaised

\* A payout that is made is owed.
LEMMA PayoutDid ==
  ASSUME DriversInv, NEW c \in Call, NEW p \in Payout, NEW amount \in Amount,
         todo[c] = PayoutOf(p, amount), NEW q, Did(c, q)
  PROVE  DriversInv'
  <1> DEFINE first == Payment(p, amount)
             r == Raise(amount)
  <1>1. PayoutOf(p, amount) = <<first, r>> /\ first = Payment(p, amount) /\ r = Raise(amount)
    BY DEF PayoutOf, Payment, Raise
  <1> HIDE DEF first, r
  <1>2. Head(<<first, r>>) = first /\ Tail(<<first, r>>) = <<r>>
    OBVIOUS
  <1>3. q = first /\ todo' = [todo EXCEPT ![c] = <<r>>]
    BY <1>1, <1>2 DEF Did
  <1> DEFINE paid == [amount |-> amount, status |-> "PENDING"]
  <1>4. DOMAIN q.on = {p, Driver}
    BY <1>1, <1>3, PaymentParts
  <1>5. /\ q.on[p] = [saw |-> None, put |-> paid, inc |-> NoField]
        /\ q.on[Driver] = [saw |-> Unseen, put |-> NoField, inc |-> NoField]
    BY <1>1, <1>3, PaymentParts
  <1>6. paid \in PayoutRow /\ paid.amount = amount /\ paid # None
    BY DriversAssumption DEF PayoutRow
  <1> HIDE DEF paid
  <1>7. DriversRows(row)
    BY DEF DriversInv
  <1>8. /\ row' = [i \in Id |-> IF i \in DOMAIN q.on THEN Applied(q.on[i], row[i]) ELSE row[i]]
        /\ \A i \in DOMAIN q.on : (q.on[i].saw = None) = (row[i] = None)
    BY DEF Did
  <1>9. row[p] = None /\ row'[p] = paid
    <2> DEFINE w == q.on[p]
    <2>1. w = [saw |-> None, put |-> paid, inc |-> NoField] /\ (w.saw = None) = (row[p] = None)
      BY <1>4, <1>5, <1>8
    <2>2. row'[p] = Applied(w, row[p])
      BY <1>4, <1>8, DriversAssumption
    <2> HIDE DEF w
    <2>3. row[p] = None
      BY <2>1
    <2>4. QED
      BY <1>6, <2>1, <2>2, <2>3 DEF Applied
  <1>10. row'[Driver] \in [earned : Nat] \cup {None} /\ Earned' = Earned
    <2> DEFINE w == q.on[Driver]
               s == Applied(w, row[Driver])
    <2>1. w = [saw |-> Unseen, put |-> NoField, inc |-> NoField] /\ (w.saw = None) = (row[Driver] = None)
      BY <1>4, <1>5, <1>8
    <2>2. row'[Driver] = s /\ s = Applied(w, row[Driver])
      BY <1>4, <1>8, DriversAssumption
    <2> HIDE DEF w, s
    <2>3. Modest(Driver, w)
      BY <2>1 DEF Modest
    <2>4. QED
      BY <1>7, <2>1, <2>2, <2>3, ModestChange DEF Earned
  <1>11. \A i \in Id \ {p, Driver} : row'[i] = row[i]
    BY <1>4, <1>8
  <1>12. DOMAIN row' = Id /\ {Driver} \cup Shift \cup Payout \cup Rating \subseteq Id
         /\ p \notin Shift \cup Rating /\ Driver \notin Shift \cup Payout \cup Rating
    BY <1>8, DriversAssumption
  <1>13. DriversRows(row')
    BY <1>6, <1>7, <1>9, <1>10, <1>11, <1>12 DEF DriversRows
  <1>14. <<r>> \in DriversTodo
    BY <1>1 DEF DriversTodo
  <1>15. todo' \in [Call -> DriversTodo] /\ todo'[c] = <<r>> /\ \A d \in Call \ {c} : todo'[d] = todo[d]
    BY <1>3, <1>14 DEF DriversInv
  <1>16. Owes(todo[c]) = 0 /\ Owes(todo'[c]) = amount /\ amount \in Nat
    BY <1>1, <1>15, PayoutOwesNothing, OwesRaise, DriversAssumption
  <1>17. /\ \A d \in Call : Owed[d] = Owes(todo[d]) /\ Owed[d] \in Nat
         /\ \A i \in Payout : PaidOut[i] \in Nat
         /\ SumFunctionOnSet(Owed, Call) \in Nat /\ SumFunctionOnSet(PaidOut, Payout) \in Nat
         /\ Earned \in Nat
    BY <1>7, DriversSums DEF DriversInv
  <1>18. /\ \A d \in Call : Owed'[d] = Owes(todo'[d]) /\ Owed'[d] \in Nat
         /\ \A i \in Payout : PaidOut'[i] \in Nat
         /\ SumFunctionOnSet(Owed', Call) \in Nat /\ SumFunctionOnSet(PaidOut', Payout) \in Nat
    BY <1>13, <1>15, DriversSumsNext
  <1>19. SumFunctionOnSet(Owed', Call) = SumFunctionOnSet(Owed, Call) + amount
    <2>1. Owed[c] = 0 /\ Owed'[c] = amount /\ \A d \in Call \ {c} : Owed'[d] = Owed[d]
      BY <1>15, <1>16, <1>17, <1>18
    <2>2. SumFunctionOnSet(Owed', Call) + Owed[c] = SumFunctionOnSet(Owed, Call) + Owed'[c]
      BY <1>17, <1>18, <2>1, SumChanges, DriversAssumption
    <2>3. QED
      BY <1>16, <1>17, <1>18, <2>1, <2>2
  <1>20. SumFunctionOnSet(PaidOut', Payout) = SumFunctionOnSet(PaidOut, Payout) + amount
    <2>1. PaidOut[p] = 0 /\ PaidOut'[p] = amount
      BY <1>6, <1>9 DEF PaidOut
    <2>2. \A i \in Payout \ {p} : PaidOut'[i] = PaidOut[i]
      BY <1>11, <1>12 DEF PaidOut
    <2>3. SumFunctionOnSet(PaidOut', Payout) + PaidOut[p] = SumFunctionOnSet(PaidOut, Payout) + PaidOut'[p]
      BY <1>17, <1>18, <2>2, SumChanges, DriversAssumption
    <2>4. QED
      BY <1>16, <1>17, <1>18, <2>1, <2>3
  <1>21. Earned + SumFunctionOnSet(Owed, Call) <= SumFunctionOnSet(PaidOut, Payout)
    BY DEF DriversInv
  <1>22. Earned' + SumFunctionOnSet(Owed', Call) <= SumFunctionOnSet(PaidOut', Payout)
    BY <1>10, <1>16, <1>17, <1>18, <1>19, <1>20, <1>21
  <1>23. QED
    BY <1>12, <1>13, <1>15, <1>22 DEF DriversInv

\* What is added to the earnings is no longer owed.
LEMMA RaiseDid ==
  ASSUME DriversInv, NEW c \in Call, NEW amount \in Amount, todo[c] = <<Raise(amount)>>, NEW q, Did(c, q)
  PROVE  DriversInv'
  <1> DEFINE r == Raise(amount)
  <1>1. todo[c] = <<r>> /\ r = Raise(amount)
    OBVIOUS
  <1> HIDE DEF r
  <1>2. Head(<<r>>) = r /\ Tail(<<r>>) = <<>>
    OBVIOUS
  <1>3. q = r /\ todo' = [todo EXCEPT ![c] = <<>>]
    BY <1>1, <1>2 DEF Did
  <1> DEFINE more == [earned |-> amount]
  <1>4. DOMAIN q.on = {Driver}
    BY <1>1, <1>3, RaiseParts
  <1>5. q.on[Driver] = [saw |-> Unseen, put |-> NoField, inc |-> more]
    BY <1>1, <1>3, RaiseParts
  <1>6. DOMAIN more = {"earned"} /\ more.earned = amount /\ amount \in Nat
    BY DriversAssumption
  <1> HIDE DEF more
  <1>7. DriversRows(row)
    BY DEF DriversInv
  <1>8. /\ row' = [i \in Id |-> IF i \in DOMAIN q.on THEN Applied(q.on[i], row[i]) ELSE row[i]]
        /\ \A i \in DOMAIN q.on : (q.on[i].saw = None) = (row[i] = None)
    BY DEF Did
  <1>9. row[Driver] \in [earned : Nat] /\ row'[Driver] \in [earned : Nat]
        /\ row'[Driver].earned = row[Driver].earned + amount
    <2> DEFINE w == q.on[Driver]
    <2>1. w = [saw |-> Unseen, put |-> NoField, inc |-> more] /\ (w.saw = None) = (row[Driver] = None)
      BY <1>4, <1>5, <1>8
    <2>2. row'[Driver] = Applied(w, row[Driver])
      BY <1>4, <1>8, DriversAssumption
    <2> HIDE DEF w
    <2>3. row[Driver] # None /\ w.put = NoField /\ w.inc = more
      BY <2>1, UnseenAssumption
    <2>4. row[Driver] \in [earned : Nat]
      BY <1>7, <2>3 DEF DriversRows
    <2>5. DOMAIN NoField = {} /\ NoField # None
      BY DriversAssumption DEF NoField
    <2>6. row'[Driver] = [f \in DOMAIN row[Driver] |-> IF f \in DOMAIN more THEN row[Driver][f] + more[f] ELSE row[Driver][f]]
      BY <2>2, <2>3, <2>5 DEF Applied
    <2>7. QED
      BY <1>6, <2>4, <2>6
  <1>10. Earned' = Earned + amount
    BY <1>9, DriversAssumption DEF Earned
  <1>11. \A i \in Id \ {Driver} : row'[i] = row[i]
    BY <1>4, <1>8
  <1>12. DOMAIN row' = Id /\ {Driver} \cup Shift \cup Payout \cup Rating \subseteq Id
         /\ Driver \notin Shift \cup Payout \cup Rating
    BY <1>8, DriversAssumption
  <1>13. DriversRows(row')
    BY <1>7, <1>9, <1>11, <1>12 DEF DriversRows
  <1>14. <<>> \in DriversTodo
    BY DEF DriversTodo
  <1>15. todo' \in [Call -> DriversTodo] /\ todo'[c] = <<>> /\ \A d \in Call \ {c} : todo'[d] = todo[d]
    BY <1>3, <1>14 DEF DriversInv
  <1>16. Owes(todo[c]) = amount /\ Owes(todo'[c]) = 0
    BY <1>1, <1>15, OwesNone, OwesRaise
  <1>17. /\ \A d \in Call : Owed[d] = Owes(todo[d]) /\ Owed[d] \in Nat
         /\ \A i \in Payout : PaidOut[i] \in Nat
         /\ SumFunctionOnSet(Owed, Call) \in Nat /\ SumFunctionOnSet(PaidOut, Payout) \in Nat
         /\ Earned \in Nat
    BY <1>7, DriversSums DEF DriversInv
  <1>18. /\ \A d \in Call : Owed'[d] = Owes(todo'[d]) /\ Owed'[d] \in Nat
         /\ SumFunctionOnSet(Owed', Call) \in Nat /\ SumFunctionOnSet(PaidOut', Payout) \in Nat
    BY <1>13, <1>15, DriversSumsNext
  <1>19. SumFunctionOnSet(Owed', Call) + amount = SumFunctionOnSet(Owed, Call)
    <2>1. Owed[c] = amount /\ Owed'[c] = 0 /\ \A d \in Call \ {c} : Owed'[d] = Owed[d]
      BY <1>15, <1>16, <1>17, <1>18
    <2>2. SumFunctionOnSet(Owed', Call) + Owed[c] = SumFunctionOnSet(Owed, Call) + Owed'[c]
      BY <1>17, <1>18, <2>1, SumChanges, DriversAssumption
    <2>3. QED
      BY <1>6, <1>17, <1>18, <2>1, <2>2
  <1>20. SumFunctionOnSet(PaidOut, Payout) = SumFunctionOnSet(PaidOut', Payout)
    <2>1. \A i \in Payout : PaidOut[i] \in Nat /\ PaidOut[i] = PaidOut'[i]
      BY <1>11, <1>12, <1>17 DEF PaidOut
    <2>2. QED
      BY <2>1, SumIsSame, DriversAssumption
  <1>21. Earned + SumFunctionOnSet(Owed, Call) <= SumFunctionOnSet(PaidOut, Payout)
    BY DEF DriversInv
  <1>22. Earned' + SumFunctionOnSet(Owed', Call) <= SumFunctionOnSet(PaidOut', Payout)
    BY <1>6, <1>10, <1>17, <1>18, <1>19, <1>20, <1>21
  <1>23. QED
    BY <1>12, <1>13, <1>15, <1>22 DEF DriversInv

\* Without a profile nothing is earned.
LEMMA DropDriverStep ==
  ASSUME DriversInv, NEW c \in Call, DropDriver(c)
  PROVE  DriversInv'
  <1> DEFINE drop == Then("drop driver", Driver)
  <1>0. drop.do = "drop driver"
    BY ThenParts
  <1> HIDE DEF drop
  <1>1. /\ ~Free(c) /\ row' = [row EXCEPT ![Driver] = None]
        /\ todo' = [todo EXCEPT ![c] = <<>> \o Tail(@)] /\ Head(todo[c]).do = "drop driver"
    BY DEF DropDriver, Perform, At
  <1>2. Tail(todo[c]) = <<>>
    <2>1. todo[c] # <<>> /\ todo[c] \in DriversTodo
      BY <1>1 DEF Free, DriversInv
    <2>2. ASSUME NEW q \in DriversOnly, todo[c] = <<q>> PROVE Tail(todo[c]) = <<>>
      BY <2>2
    <2>3. ASSUME NEW q, NEW queries, todo[c] = <<q>> \o queries, q.do = "write" PROVE FALSE
      <3>1. Head(<<q>> \o queries) = q
        OBVIOUS
      <3>2. QED
        BY <1>1, <2>3, <3>1
    <2>4. ASSUME NEW amount \in Amount, todo[c] = <<Raise(amount)>> PROVE Tail(todo[c]) = <<>>
      <3> DEFINE r == Raise(amount)
      <3>1. todo[c] = <<r>>
        BY <2>4
      <3> HIDE DEF r
      <3>2. QED
        BY <3>1
    <2>5. ASSUME NEW p \in Payout, NEW amount \in Amount, todo[c] = PayoutOf(p, amount) PROVE FALSE
      <3> DEFINE first == Payment(p, amount)
                 r == Raise(amount)
      <3>1. todo[c] = <<first, r>> /\ first = Payment(p, amount)
        BY <2>5 DEF PayoutOf, Payment, Raise
      <3>2. first.do = "write"
        BY DEF Payment, Both
      <3> HIDE DEF first, r
      <3>3. Head(<<first, r>>) = first
        OBVIOUS
      <3>4. QED
        BY <1>1, <3>1, <3>2, <3>3
    <2>6. \/ todo[c] \in {<<q>> : q \in DriversOnly}
          \/ todo[c] \in {PayoutOf(p, amount) : p \in Payout, amount \in Amount}
          \/ todo[c] \in {<<Raise(amount)>> : amount \in Amount}
      BY <2>1 DEF DriversTodo
    <2>7. QED
      BY <2>2, <2>4, <2>5, <2>6
  <1>3. todo' \in [Call -> DriversTodo] /\ todo'[c] = <<>> /\ \A d \in Call \ {c} : todo'[d] = todo[d]
    <2>1. <<>> \in DriversTodo /\ <<>> \o <<>> = <<>>
      BY DEF DriversTodo
    <2>2. todo' = [todo EXCEPT ![c] = <<>>]
      BY <1>1, <1>2, <2>1
    <2>3. QED
      BY <2>1, <2>2 DEF DriversInv
  <1>4. /\ DOMAIN row' = Id /\ row'[Driver] = None /\ \A i \in Id \ {Driver} : row'[i] = row[i]
        /\ {Driver} \cup Shift \cup Payout \cup Rating \subseteq Id
        /\ Driver \notin Shift \cup Payout \cup Rating
    BY <1>1, DriversAssumption DEF DriversInv
  <1>5. DriversRows(row')
    BY <1>4 DEF DriversInv, DriversRows
  <1>6. Earned \in Nat /\ \A d \in Call : Owes(todo[d]) \in Nat
    BY DriversSums, OwesNat DEF DriversInv
  <1>7. Earned' <= Earned
    BY <1>4, <1>6 DEF Earned
  <1>8. \A p \in Payout : PaidOut'[p] = PaidOut[p]
    BY <1>4 DEF PaidOut
  <1>9. \A d \in Call : Owes(todo'[d]) <= Owes(todo[d])
    BY <1>3, <1>6, OwesNone
  <1>10. QED
    BY <1>3, <1>4, <1>5, <1>7, <1>8, <1>9, NothingRaised

LEMMA OneQueryStarts ==
  ASSUME DriversInv, NEW c \in Call, NEW q \in DriversOnly, Decide(c, <<q>>)
  PROVE  DriversInv'
  <1>1. <<q>> \in DriversTodo
    BY DEF DriversTodo
  <1>2. QED
    BY <1>1, ModestOwesNothing, DriversDecide

LEMMA DriversMethod ==
  ASSUME DriversInv, NEW c \in Call, DriversNext(c) \/ ShiftsNext(c) \/ PayoutsNext(c)
  PROVE  DriversInv'
  <1>1. ASSUME NEW q \in DriversQueries, Decide(c, <<q>>) PROVE DriversInv'
    BY <1>1, OneQueryStarts DEF DriversOnly
  <1>2. CASE CreateDriver(c)
    <2>1. Insert(Driver, [earned |-> 0]) \in DriversQueries
      BY DEF DriversQueries
    <2>2. QED
      BY <1>1, <1>2, <2>1 DEF CreateDriver
  <1>3. CASE UpdateDriver(c)
    <2>1. Exists(Driver) \in DriversQueries
      BY DEF DriversQueries
    <2>2. QED
      BY <1>1, <1>3, <2>1 DEF UpdateDriver
  <1>4. CASE DeleteDriver(c)
    <2>1. Then("drop driver", Driver) \in DriversOnly
      BY DEF DriversOnly
    <2>2. QED
      BY <1>4, <2>1, OneQueryStarts DEF DeleteDriver
  <1>5. CASE CreateShift(c)
    <2>1. PICK s \in Shift : Decide(c, <<Both(Insert(s, [status |-> "SCHEDULED"]), Exists(Driver))>>)
      BY <1>5 DEF CreateShift, Unused
    <2>2. Both(Insert(s, [status |-> "SCHEDULED"]), Exists(Driver)) \in DriversQueries
      BY DEF DriversQueries
    <2>3. QED
      BY <1>1, <2>1, <2>2
  <1>6. ASSUME NEW s \in Shift, NEW old \in [status : ShiftStatus] \cup {Unseen},
               NEW edit \in ShiftEdit \cup [status : ShiftStatus], Decide(c, <<Write(s, old, edit, NoField)>>)
        PROVE  DriversInv'
    <2>1. Write(s, old, edit, NoField) \in DriversQueries
      BY DEF DriversQueries
    <2>2. QED
      BY <1>1, <1>6, <2>1
  <1>7. CASE UpdateShift(c)
    <2>1. PICK s \in Shift, edit \in ShiftEdit : Decide(c, <<Overwrite(s, edit)>>)
      BY <1>7 DEF UpdateShift, Rows
    <2>2. QED
      BY <1>6, <2>1 DEF Overwrite
  <1>8. ASSUME NEW statuses, NEW status \in ShiftStatus, ChangeShift(c, statuses, status) PROVE DriversInv'
    <2>1. PICK s \in Shift : row[s] # None /\ Decide(c, <<Put(s, [status |-> status])>>)
      BY <1>8 DEF ChangeShift, Rows
    <2>2. row[s] \in [status : ShiftStatus] /\ [status |-> status] \in [status : ShiftStatus]
      BY <2>1 DEF DriversInv, DriversRows
    <2>3. QED
      BY <1>6, <2>1, <2>2 DEF Put
  <1>9. CASE StartShift(c) \/ EndShift(c) \/ CancelShift(c)
    <2>1. "ACTIVE" \in ShiftStatus /\ "COMPLETED" \in ShiftStatus /\ "CANCELLED" \in ShiftStatus
      BY DEF ShiftStatus
    <2>2. QED
      BY <1>8, <1>9, <2>1 DEF StartShift, EndShift, CancelShift
  <1>10. CASE RateDriver(c)
    <2>1. PICK r \in Rating, input \in RatingInput : Decide(c, <<Both(Insert(r, input), Exists(Driver))>>)
      BY <1>10 DEF RateDriver, Unused
    <2>2. Both(Insert(r, input), Exists(Driver)) \in DriversQueries
      BY DEF DriversQueries
    <2>3. QED
      BY <1>1, <2>1, <2>2
  <1>11. CASE CreatePayout(c)
    <2>1. PICK p \in Payout, amount \in Amount : Decide(c, PayoutOf(p, amount))
      BY <1>11 DEF CreatePayout, Unused
    <2>2. PayoutOf(p, amount) \in DriversTodo
      BY DEF DriversTodo
    <2>3. QED
      BY <2>1, <2>2, PayoutOwesNothing, DriversDecide
  <1>12. CASE ProcessPayout(c)
    <2>1. PICK p \in Payout : Decide(c, <<Overwrite(p, [status |-> "COMPLETED"])>>)
      BY <1>12 DEF ProcessPayout, Rows
    <2>2. Overwrite(p, [status |-> "COMPLETED"]) \in DriversQueries
      BY DEF DriversQueries
    <2>3. QED
      BY <1>1, <2>1, <2>2
  <1>13. QED
    BY <1>2, <1>3, <1>4, <1>5, <1>7, <1>9, <1>10, <1>11, <1>12, DropDriverStep
       DEF DriversNext, ShiftsNext, PayoutsNext

LEMMA DriversStep ==
  ASSUME DriversInv, [(\E c \in Call : Step(c)) \/ Restart]_vars
  PROVE  DriversInv'
  <1>1. todo \in [Call -> DriversTodo] /\ <<>> \in DriversTodo
    BY DEF DriversInv, DriversTodo
  <1>2. CASE Quiet /\ todo' \in [Call -> DriversTodo]
    BY <1>2, DriversQuiet
  <1>3. ASSUME NEW c \in Call, NEW q, Did(c, q) PROVE DriversInv'
    <2>1. todo[c] # <<>> /\ q = Head(todo[c]) /\ q.do = "write"
      BY <1>3 DEF Did, Free
    <2>2. ASSUME NEW p \in DriversOnly, todo[c] = <<p>> PROVE DriversInv'
      <3>1. p = q
        BY <2>1, <2>2
      <3> DEFINE drop == Then("drop driver", Driver)
      <3>2. drop.do = "drop driver"
        BY ThenParts
      <3>3. p \in DriversQueries \cup {drop}
        BY DEF DriversOnly
      <3> HIDE DEF drop
      <3>4. p # drop
        BY <2>1, <3>1, <3>2
      <3>5. QED
        BY <1>3, <2>2, <3>1, <3>3, <3>4, ModestDid
    <2>3. ASSUME NEW p \in Payout, NEW amount \in Amount, todo[c] = PayoutOf(p, amount) PROVE DriversInv'
      BY <1>3, <2>3, PayoutDid
    <2>4. ASSUME NEW amount \in Amount, todo[c] = <<Raise(amount)>> PROVE DriversInv'
      BY <1>3, <2>4, RaiseDid
    <2>5. \/ todo[c] \in {<<p>> : p \in DriversOnly}
          \/ todo[c] \in {PayoutOf(p, amount) : p \in Payout, amount \in Amount}
          \/ todo[c] \in {<<Raise(amount)>> : amount \in Amount}
      BY <1>1, <2>1 DEF DriversTodo
    <2>6. QED
      BY <2>2, <2>3, <2>4, <2>5
  <1>4. QED
    BY <1>1, <1>2, <1>3, StepIsDone

LEMMA DriversStart ==
  ASSUME CallsInit(NoField)
  PROVE  DriversInv
  <1>1. DOMAIN NoField = {}
    BY DEF NoField
  <1>2. row = [i \in Id |-> None] /\ todo = [c \in Call |-> <<>>]
    BY <1>1 DEF CallsInit
  <1>3. DOMAIN row = Id /\ DriversRows(row)
    BY <1>2, DriversAssumption DEF DriversRows
  <1>4. <<>> \in DriversTodo
    BY DEF DriversTodo
  <1>5. todo \in [Call -> DriversTodo] /\ \A c \in Call : todo[c] = <<>>
    BY <1>2, <1>4
  <1>6. \A c \in Call : Owed[c] = 0
    BY <1>5, OwesNone DEF Owed
  <1>7. SumFunctionOnSet(Owed, Call) = 0
    BY <1>6, SumOfZeros, DriversAssumption
  <1>8. Earned = 0 /\ SumFunctionOnSet(PaidOut, Payout) \in Nat
    BY <1>2, <1>3, <1>5, DriversSums, DriversAssumption DEF Earned
  <1>9. QED
    BY <1>3, <1>5, <1>7, <1>8 DEF DriversInv

LEMMA DriversInvariance == DriversSpec => []DriversInv
  <1>1. CallsInit(NoField) => DriversInv
    BY DriversStart
  <1>2. DriversInv /\ [(\E c \in Call : DriversNext(c) \/ ShiftsNext(c) \/ PayoutsNext(c) \/ Step(c)) \/ Restart]_vars
          => DriversInv'
    BY DriversMethod, DriversStep
  <1>3. QED
    BY <1>1, <1>2, PTL DEF DriversSpec

-------------------------------------------------------------------------------
\* Drivers, shifts, payouts and ratings have the values their columns take.
THEOREM DriversTypeCorrect == DriversSpec => []DriversRows(row)
  <1>1. DriversInv => DriversRows(row)
    BY DEF DriversInv
  <1>2. QED
    BY <1>1, DriversInvariance, PTL

\* A payout and the earnings are two writes; whatever fails or comes in between, the earnings on
\* record never exceed what was paid out.
THEOREM EarningsAreCovered == DriversSpec => []EarningsHavePayouts
  <1>1. DriversInv => EarningsHavePayouts
    <2> SUFFICES ASSUME DriversInv, row[Driver] # None
                 PROVE  row[Driver].earned <= SumFunctionOnSet(PaidOut, Payout)
      BY DEF EarningsHavePayouts
    <2>1. Earned + SumFunctionOnSet(Owed, Call) <= SumFunctionOnSet(PaidOut, Payout) /\ Earned = row[Driver].earned
      BY DEF DriversInv, Earned
    <2>2. /\ SumFunctionOnSet(Owed, Call) \in Nat /\ SumFunctionOnSet(PaidOut, Payout) \in Nat
          /\ Earned \in Nat
      BY DriversSums DEF DriversInv
    <2>3. QED
      BY <2>1, <2>2
  <1>2. QED
    BY <1>1, DriversInvariance, PTL

-------------------------------------------------------------------------------
(***************************************************************************)
(* Shuttles. A pending attendance is the list that the call read and one   *)
(* more; if the trip is still the one it read, nothing is lost.            *)
(***************************************************************************)

Sequences == 1..Cardinality(Stop)

\* A change of the record i that keeps its type and, of a trip, what the call read.
ShuttleWrite(i, w) ==
  \/ i = Route /\ w.saw = None /\ w.put \in [active : BOOLEAN]
  \/ i = Route /\ w.saw # None /\ w.inc = NoField /\ w.put \in RouteEdit \cup {NoField}
  \/ i \in Stop /\ w.saw = None /\ w.put \in [sequence : Sequences]
  \/ i \in Stop /\ w.saw # None /\ w.inc = NoField /\ w.put \in [sequence : Sequences] \cup {None}
  \/ i \in Student /\ w.saw = None /\ w.put \in StudentRow
  \/ i \in Student /\ w.saw # None /\ w.inc = NoField /\ w.put \in StudentEdit \cup {None}
  \/ i \in Trip /\ w.saw = None /\ w.put \in TripRow
  \/ i \in Trip /\ w.saw \in TripRow /\ w.inc = NoField /\ w.put = [status |-> "COMPLETED"]
  \/ /\ i \in Trip /\ w.saw \in TripRow /\ w.inc = NoField /\ Len(w.saw.attendance) < MaxAttendance
     /\ \E student \in Student : w.put = [attendance |-> Append(w.saw.attendance, student)]

\* The queries: changes of that kind, and the deletion of the route.
ShuttleQuery(q) ==
  \/ q.do = "write" /\ \A i \in DOMAIN q.on : ShuttleWrite(i, q.on[i])
  \/ q.do = "drop route"

ShuttlesInv ==
  /\ DOMAIN row = Id /\ ShuttleRows(row)
  /\ todo = [c \in Call |-> todo[c]]
  /\ \A c \in Call : todo[c] = <<>> \/ \E q : todo[c] = <<q>> /\ ShuttleQuery(q)

-------------------------------------------------------------------------------
LEMMA RouteEdits ==
  ASSUME NEW edit \in RouteEdit
  PROVE  edit # None /\ DOMAIN edit \subseteq {"active"} /\ \A f \in DOMAIN edit : edit[f] \in BOOLEAN
  <1>1. PICK fields \in [active : BOOLEAN \cup {None}] : edit = Given(fields)
    BY DEF RouteEdit
  <1>2. DOMAIN edit \subseteq {"active"} /\ \A f \in DOMAIN edit : edit[f] \in BOOLEAN
    BY <1>1, GivenIs
  <1>3. edit # None
    <2>1. CASE fields.active = None
      <3>1. Given(fields) = NoField
        BY <2>1 DEF Given, NoField
      <3>2. QED
        BY <1>1, <3>1, ShuttleAssumption
    <2>2. CASE fields.active # None
      <3>1. Given(fields) = fields /\ fields \in [active : BOOLEAN]
        BY <2>2 DEF Given
      <3>2. QED
        BY <1>1, <3>1, ShuttleAssumption
    <2>3. QED
      BY <2>1, <2>2
  <1>4. QED
    BY <1>2, <1>3

LEMMA StudentEdits ==
  ASSUME NEW edit \in StudentEdit
  PROVE  /\ edit # None /\ DOMAIN edit \subseteq {"route", "active"}
         /\ "route" \in DOMAIN edit => edit["route"] = Route
         /\ "active" \in DOMAIN edit => edit["active"] \in BOOLEAN
  <1>1. PICK fields \in [route : {Route, None}, active : BOOLEAN \cup {None}] : edit = Given(fields)
    BY DEF StudentEdit
  <1>2. DOMAIN fields = {"route", "active"} /\ fields["route"] \in {Route, None} /\ fields["active"] \in BOOLEAN \cup {None}
    OBVIOUS
  <1>3. DOMAIN edit = {g \in {"route", "active"} : fields[g] # None} /\ \A g \in DOMAIN edit : edit[g] = fields[g] /\ edit[g] # None
    BY <1>1, <1>2, GivenIs
  <1>4. edit # None
    <2>1. CASE fields["route"] = None /\ fields["active"] = None
      <3>1. Given(fields) = NoField
        BY <1>2, <2>1 DEF Given, NoField
      <3>2. QED
        BY <1>1, <3>1, ShuttleAssumption
    <2>2. CASE fields["route"] # None /\ fields["active"] = None
      <3>1. Given(fields) = [route |-> Route]
        BY <1>2, <2>2 DEF Given
      <3>2. [route |-> Route] \in [route : {Route}]
        OBVIOUS
      <3>3. QED
        BY <1>1, <3>1, <3>2, ShuttleAssumption
    <2>3. CASE fields["route"] = None /\ fields["active"] # None
      <3>1. Given(fields) = [active |-> fields["active"]]
        BY <1>2, <2>3 DEF Given
      <3>2. [active |-> fields["active"]] \in [active : BOOLEAN]
        BY <1>2, <2>3
      <3>3. QED
        BY <1>1, <3>1, <3>2, ShuttleAssumption
    <2>4. CASE fields["route"] # None /\ fields["active"] # None
      <3>1. Given(fields) = [route |-> Route, active |-> fields["active"]]
        BY <1>2, <2>4 DEF Given
      <3>2. [route |-> Route, active |-> fields["active"]] \in StudentRow
        BY <1>2, <2>4 DEF StudentRow
      <3>3. QED
        BY <1>1, <3>1, <3>2, ShuttleAssumption
    <2>5. QED
      BY <2>1, <2>2, <2>3, <2>4
  <1>5. QED
    BY <1>2, <1>3, <1>4

\* A list is kept when one is put at its end.
LEMMA AttendanceGrows ==
  ASSUME NEW r \in TripRow, Len(r.attendance) < MaxAttendance, NEW student \in Student,
         NEW more, more = Append(r.attendance, student)
  PROVE  /\ more \in UNION {[1..n -> Student] : n \in 0..MaxAttendance}
         /\ SubSeq(more, 1, Len(r.attendance)) = r.attendance
  <1> DEFINE list == r.attendance
  <1>1. PICK n \in 0..MaxAttendance : list \in [1..n -> Student]
    BY DEF TripRow
  <1>2. n \in Nat /\ list \in Seq(Student) /\ Len(list) = n
    BY <1>1, ShuttleAssumption
  <1>3. n + 1 \in 0..MaxAttendance
    BY <1>2, ShuttleAssumption
  <1> HIDE DEF list
  <1>a. more = Append(list, student)
    BY DEF list
  <1>b. /\ more \in Seq(Student) /\ Len(more) = n + 1
        /\ \A k \in 1..n : more[k] = list[k]
    BY <1>2, <1>a, AppendProperties
  <1>4. more \in [1..(n + 1) -> Student]
    BY <1>2, <1>b, LenProperties
  <1>5. SubSeq(more, 1, n) = list
    <2>1. DOMAIN SubSeq(more, 1, n) = 1..n /\ \A k \in 1..n : SubSeq(more, 1, n)[k] = more[k]
      BY <1>2, <1>b
    <2>2. SubSeq(more, 1, n) \in Seq(Student) /\ Len(SubSeq(more, 1, n)) = n
      BY <1>2, <1>b
    <2>3. QED
      BY <1>2, <1>b, <2>1, <2>2, SeqEqual
  <1>6. QED
    BY <1>2, <1>3, <1>4, <1>5 DEF list

LEMMA AttendanceStays ==
  ASSUME NEW r \in TripRow
  PROVE  SubSeq(r.attendance, 1, Len(r.attendance)) = r.attendance
  <1>1. PICK n \in 0..MaxAttendance : r.attendance \in [1..n -> Student]
    BY DEF TripRow
  <1>2. n \in Nat
    BY ShuttleAssumption
  <1>3. QED
    BY <1>1, <1>2

\* Such a change keeps the type, and the attendance of a trip that is as the call read it.
LEMMA ShuttleChange ==
  ASSUME ShuttleRows(row), NEW i, NEW w, ShuttleWrite(i, w), (w.saw = None) = (row[i] = None),
         NEW s, s = Applied(w, row[i])
  PROVE  /\ i = Route => s \in [active : BOOLEAN] \cup {None}
         /\ i \in Stop => s \in [sequence : Sequences] \cup {None}
         /\ i \in Student => s \in StudentRow \cup {None}
         /\ i \in Trip => /\ s \in TripRow
                          /\ row[i] # None =>
                               /\ w.saw \in TripRow
                               /\ w.saw = row[i] => SubSeq(s.attendance, 1, Len(row[i].attendance)) = row[i].attendance
  <1> USE ShuttleAssumption
  <1>0. DOMAIN NoField = {}
    BY DEF NoField
  <1>1. CASE i = Route /\ w.saw = None /\ w.put \in [active : BOOLEAN]
    <2>1. s = w.put
      BY <1>1 DEF Applied
    <2>2. QED
      BY <1>1, <2>1
  <1>2. CASE i = Route /\ w.saw # None /\ w.inc = NoField /\ w.put \in RouteEdit \cup {NoField}
    <2>1. row[i] # None /\ row[i] \in [active : BOOLEAN]
      BY <1>2 DEF ShuttleRows
    <2>2. w.put # None /\ DOMAIN w.put \subseteq {"active"} /\ \A f \in DOMAIN w.put : w.put[f] \in BOOLEAN
      BY <1>0, <1>2, RouteEdits
    <2>3. s = [f \in DOMAIN row[i] |-> IF f \in DOMAIN w.put THEN w.put[f] ELSE row[i][f]]
      BY <1>0, <1>2, <2>1, <2>2 DEF Applied
    <2>4. s \in [active : BOOLEAN]
      BY <2>1, <2>2, <2>3
    <2>5. QED
      BY <1>2, <2>4
  <1>3. CASE i \in Stop /\ w.saw = None /\ w.put \in [sequence : Sequences]
    <2>1. w.put # None
      <3>1. Cardinality(Stop) \in Nat
        BY FS_CardinalityType
      <3>2. w.put \in [sequence : Nat]
        BY <1>3, <3>1 DEF Sequences
      <3>3. QED
        BY <3>2
    <2>2. s = w.put
      BY <1>3, <2>1 DEF Applied
    <2>3. QED
      BY <1>3, <2>2
  <1>4. CASE i \in Stop /\ w.saw # None /\ w.inc = NoField /\ w.put \in [sequence : Sequences] \cup {None}
    <2>1. row[i] # None /\ row[i] \in [sequence : Sequences]
      BY <1>4 DEF ShuttleRows, Sequences
    <2>2. CASE w.put = None
      BY <1>4, <2>2 DEF Applied
    <2>3. CASE w.put # None
      <3>1. s = [f \in DOMAIN row[i] |-> IF f \in DOMAIN w.put THEN w.put[f] ELSE row[i][f]]
        BY <1>0, <1>4, <2>1, <2>3 DEF Applied
      <3>2. s \in [sequence : Sequences]
        BY <1>4, <2>1, <2>3, <3>1
      <3>3. QED
        BY <1>4, <3>2
    <2>4. QED
      BY <2>2, <2>3
  <1>5. CASE i \in Student /\ w.saw = None /\ w.put \in StudentRow
    <2>1. s = w.put
      BY <1>5 DEF Applied
    <2>2. QED
      BY <1>5, <2>1
  <1>6. CASE i \in Student /\ w.saw # None /\ w.inc = NoField /\ w.put \in StudentEdit \cup {None}
    <2>1. row[i] # None /\ row[i] \in StudentRow
      BY <1>6 DEF ShuttleRows
    <2>2. CASE w.put = None
      BY <1>6, <2>2 DEF Applied
    <2>3. CASE w.put # None
      <3>1. s = [f \in DOMAIN row[i] |-> IF f \in DOMAIN w.put THEN w.put[f] ELSE row[i][f]]
        BY <1>0, <1>6, <2>1, <2>3 DEF Applied
      <3>2. /\ "route" \in DOMAIN w.put => w.put["route"] = Route
            /\ "active" \in DOMAIN w.put => w.put["active"] \in BOOLEAN
        BY <1>6, <2>3, StudentEdits
      <3>3. s \in StudentRow
        BY <2>1, <3>1, <3>2 DEF StudentRow
      <3>4. QED
        BY <1>6, <3>3
    <2>4. QED
      BY <2>2, <2>3
  <1>7. CASE i \in Trip /\ w.saw = None /\ w.put \in TripRow
    <2>1. s = w.put
      BY <1>7 DEF Applied
    <2>2. QED
      BY <1>7, <2>1
  <1>8. CASE i \in Trip /\ w.saw \in TripRow /\ w.inc = NoField /\ w.put = [status |-> "COMPLETED"]
    <2>1. row[i] # None /\ row[i] \in TripRow
      BY <1>8 DEF ShuttleRows
    <2> DEFINE put == [status |-> "COMPLETED"]
    <2>2. w.put = put /\ put # None /\ DOMAIN put = {"status"} /\ put["status"] = "COMPLETED"
      BY <1>8
    <2> HIDE DEF put
    <2>3. s = [f \in DOMAIN row[i] |-> IF f \in DOMAIN put THEN put[f] ELSE row[i][f]]
      BY <1>0, <1>8, <2>1, <2>2 DEF Applied
    <2>4. s \in TripRow /\ s.attendance = row[i].attendance
      BY <2>1, <2>2, <2>3 DEF TripRow
    <2>5. QED
      BY <1>8, <2>1, <2>4, AttendanceStays
  <1>9. ASSUME i \in Trip, w.saw \in TripRow, w.inc = NoField, Len(w.saw.attendance) < MaxAttendance,
               NEW student \in Student, w.put = [attendance |-> Append(w.saw.attendance, student)]
        PROVE  /\ s \in TripRow
               /\ w.saw = row[i] => SubSeq(s.attendance, 1, Len(row[i].attendance)) = row[i].attendance
    <2>1. row[i] # None /\ row[i] \in TripRow
      BY <1>9 DEF ShuttleRows
    <2> DEFINE more == Append(w.saw.attendance, student)
               put == [attendance |-> more]
    <2>2. /\ more \in UNION {[1..n -> Student] : n \in 0..MaxAttendance}
          /\ SubSeq(more, 1, Len(w.saw.attendance)) = w.saw.attendance
      BY <1>9, AttendanceGrows
    <2>3. w.put = put
      BY <1>9
    <2> HIDE DEF more
    <2>4. put # None /\ DOMAIN put = {"attendance"} /\ put["attendance"] = more
      BY <2>2
    <2> HIDE DEF put
    <2>5. s = [f \in DOMAIN row[i] |-> IF f \in DOMAIN put THEN put[f] ELSE row[i][f]]
      BY <1>0, <1>9, <2>1, <2>3, <2>4 DEF Applied
    <2>6. s \in TripRow /\ s.attendance = more
      BY <2>1, <2>2, <2>4, <2>5 DEF TripRow
    <2>7. QED
      BY <2>2, <2>6
  <1>10. QED
    BY <1>1, <1>2, <1>3, <1>4, <1>5, <1>6, <1>7, <1>8, <1>9 DEF ShuttleWrite

-------------------------------------------------------------------------------
(* The steps *)

LEMMA ShuttlesQuiet ==
  ASSUME ShuttlesInv, Quiet, todo' = [d \in Call |-> todo'[d]]
  PROVE  ShuttlesInv' /\ \A t \in Rows(Trip) : row'[t] = row[t] /\ row[t] \in TripRow
  <1>1. DOMAIN row' = Id /\ ShuttleRows(row')
    BY DEF Quiet, ShuttlesInv, ShuttleRows
  <1>2. \A c \in Call : todo'[c] = <<>> \/ \E q : todo'[c] = <<q>> /\ ShuttleQuery(q)
    BY DEF Quiet, ShuttlesInv
  <1>3. \A t \in Rows(Trip) : row'[t] = row[t] /\ row[t] \in TripRow
    BY DEF Quiet, Rows, ShuttlesInv, ShuttleRows
  <1>4. QED
    BY <1>1, <1>2, <1>3 DEF ShuttlesInv

\* A call that decides on one query leaves the records alone.
LEMMA ShuttlesDecide ==
  ASSUME ShuttlesInv, NEW c \in Call, NEW q, ShuttleQuery(q), Decide(c, <<q>>)
  PROVE  ShuttlesInv' /\ row' = row
  <1>1. row' = row /\ todo' = [todo EXCEPT ![c] = <<q>>]
    BY DecideParts
  <1>2. todo' = [d \in Call |-> todo'[d]] /\ todo'[c] = <<q>> /\ \A d \in Call \ {c} : todo'[d] = todo[d]
    BY <1>1 DEF ShuttlesInv
  <1>3. DOMAIN row' = Id /\ ShuttleRows(row')
    BY <1>1 DEF ShuttlesInv, ShuttleRows
  <1>4. QED
    BY <1>1, <1>2, <1>3 DEF ShuttlesInv

\* What a query leaves of the records.
LEMMA ShuttlesDone ==
  ASSUME Trip \subseteq Watched, ShuttlesInv, NEW c \in Call, NEW q, Did(c, q)
  PROVE  /\ ShuttlesInv'
         /\ \A t \in Rows(Trip) :
              t \in raced' \/ SubSeq(row'[t].attendance, 1, Len(row[t].attendance)) = row[t].attendance
  <1>1. todo[c] # <<>> /\ q = Head(todo[c]) /\ q.do = "write" /\ todo' = [todo EXCEPT ![c] = Tail(todo[c])]
    BY DEF Did, Free
  <1>2. todo[c] = <<q>> /\ ShuttleQuery(q)
    <2>1. PICK p : todo[c] = <<p>> /\ ShuttleQuery(p)
      BY <1>1 DEF ShuttlesInv
    <2>2. p = q
      BY <1>1, <2>1
    <2>3. QED
      BY <2>1, <2>2
  <1>3. \A i \in DOMAIN q.on : ShuttleWrite(i, q.on[i])
    BY <1>1, <1>2 DEF ShuttleQuery
  <1>4. /\ row' = [i \in Id |-> IF i \in DOMAIN q.on THEN Applied(q.on[i], row[i]) ELSE row[i]]
        /\ \A i \in DOMAIN q.on : (q.on[i].saw = None) = (row[i] = None)
        /\ raced' = raced \cup
             (Watched \cap {i \in DOMAIN q.on : q.on[i].saw # row[i] /\ (q.on[i].saw = Unseen => q.on[i].put # NoField)})
    BY DEF Did
  <1>5. ShuttleRows(row) /\ {Route} \cup Stop \cup Student \cup Trip \subseteq Id
    BY ShuttleAssumption DEF ShuttlesInv
  <1>6. ASSUME NEW i \in Id, i \in DOMAIN q.on
        PROVE  /\ i = Route => row'[i] \in [active : BOOLEAN] \cup {None}
               /\ i \in Stop => row'[i] \in [sequence : Sequences] \cup {None}
               /\ i \in Student => row'[i] \in StudentRow \cup {None}
               /\ i \in Trip => row'[i] \in TripRow
               /\ i \in Trip /\ row[i] # None =>
                    /\ q.on[i].saw \in TripRow
                    /\ q.on[i].saw = row[i] =>
                         SubSeq(row'[i].attendance, 1, Len(row[i].attendance)) = row[i].attendance
    <2> DEFINE w == q.on[i]
               s == Applied(w, row[i])
    <2>1. ShuttleWrite(i, w) /\ (w.saw = None) = (row[i] = None) /\ s = Applied(w, row[i]) /\ row'[i] = s
      BY <1>3, <1>4, <1>6
    <2>2. /\ i = Route => s \in [active : BOOLEAN] \cup {None}
          /\ i \in Stop => s \in [sequence : Sequences] \cup {None}
          /\ i \in Student => s \in StudentRow \cup {None}
          /\ i \in Trip => s \in TripRow
          /\ i \in Trip /\ row[i] # None =>
               /\ w.saw \in TripRow
               /\ w.saw = row[i] => SubSeq(s.attendance, 1, Len(row[i].attendance)) = row[i].attendance
      <3> HIDE DEF w, s
      <3>1. QED
        BY <1>5, <2>1, ShuttleChange
    <2>3. QED
      BY <2>1, <2>2
  <1>7. \A i \in Id : i \notin DOMAIN q.on => row'[i] = row[i]
    BY <1>4
  <1>8. DOMAIN row' = Id
    BY <1>4
  <1>9. ShuttleRows(row')
    <2>1. row'[Route] \in [active : BOOLEAN] \cup {None}
      BY <1>5, <1>6, <1>7 DEF ShuttleRows
    <2>2. \A s \in Stop : row'[s] \in [sequence : 1..Cardinality(Stop)] \cup {None}
      BY <1>5, <1>6, <1>7 DEF ShuttleRows, Sequences
    <2>3. \A s \in Student : row'[s] \in StudentRow \cup {None}
      BY <1>5, <1>6, <1>7 DEF ShuttleRows
    <2>4. \A t \in Trip : row'[t] \in TripRow \cup {None}
      BY <1>5, <1>6, <1>7 DEF ShuttleRows
    <2>5. QED
      BY <2>1, <2>2, <2>3, <2>4 DEF ShuttleRows
  <1>10. ASSUME NEW t \in Rows(Trip), t \notin raced'
         PROVE  SubSeq(row'[t].attendance, 1, Len(row[t].attendance)) = row[t].attendance
    <2>1. t \in Trip /\ t \in Id /\ row[t] # None /\ row[t] \in TripRow /\ t \in Watched
      BY <1>5, <1>10 DEF Rows, ShuttleRows
    <2>2. CASE t \notin DOMAIN q.on
      <3>1. row'[t] = row[t]
        BY <1>7, <2>1, <2>2
      <3>2. QED
        BY <2>1, <3>1, AttendanceStays
    <2>3. CASE t \in DOMAIN q.on
      <3>1. q.on[t].saw \in TripRow
        BY <1>6, <2>1, <2>3
      <3>2. q.on[t].saw # Unseen
        BY <3>1, ShuttleAssumption
      <3>3. q.on[t].saw = row[t]
        BY <1>4, <1>10, <2>1, <2>3, <3>2
      <3>4. QED
        BY <1>6, <2>1, <2>3, <3>3
    <2>4. QED
      BY <2>2, <2>3
  <1>11. todo' = [d \in Call |-> todo'[d]] /\ todo'[c] = <<>> /\ \A d \in Call \ {c} : todo'[d] = todo[d]
    <2>1. Tail(<<q>>) = <<>>
      OBVIOUS
    <2>2. QED
      BY <1>1, <1>2, <2>1 DEF ShuttlesInv
  <1>12. \A d \in Call : todo'[d] = <<>> \/ \E p : todo'[d] = <<p>> /\ ShuttleQuery(p)
    BY <1>11 DEF ShuttlesInv
  <1>13. QED
    BY <1>8, <1>9, <1>10, <1>11, <1>12 DEF ShuttlesInv

\* The route goes with its stops; there are no trips.
LEMMA DropRouteStep ==
  ASSUME ShuttlesInv, NEW c \in Call, DropRoute(c)
  PROVE  ShuttlesInv' /\ Rows(Trip) = {}
  <1> USE ShuttleAssumption
  <1>1. /\ todo[c] # <<>> /\ Rows(Trip) = {}
        /\ row' = [i \in Id |-> IF i \in {Route} \cup Stop THEN None
                                ELSE IF i \in Rows(Student) THEN [row[i] EXCEPT !.route = None]
                                ELSE row[i]]
        /\ todo' = [todo EXCEPT ![c] = Tail(todo[c])]
    BY DEF DropRoute, At, Free
  <1>2. Tail(todo[c]) = <<>>
    <2>1. PICK q : todo[c] = <<q>>
      BY <1>1 DEF ShuttlesInv
    <2>2. QED
      BY <2>1
  <1>3. todo' = [d \in Call |-> todo'[d]] /\ todo'[c] = <<>> /\ \A d \in Call \ {c} : todo'[d] = todo[d]
    BY <1>1, <1>2 DEF ShuttlesInv
  <1>4. \A d \in Call : todo'[d] = <<>> \/ \E p : todo'[d] = <<p>> /\ ShuttleQuery(p)
    BY <1>3 DEF ShuttlesInv
  <1>5. DOMAIN row' = Id /\ row'[Route] = None /\ \A s \in Stop : row'[s] = None
    BY <1>1
  <1>6. \A s \in Student : row'[s] \in StudentRow \cup {None}
    <2> SUFFICES ASSUME NEW s \in Student PROVE row'[s] \in StudentRow \cup {None}
      OBVIOUS
    <2>1. s \in Id /\ s \notin {Route} \cup Stop /\ row[s] \in StudentRow \cup {None}
      BY DEF ShuttlesInv, ShuttleRows
    <2>2. CASE row[s] = None
      BY <1>1, <2>1, <2>2 DEF Rows
    <2>3. CASE row[s] # None
      <3>1. row'[s] = [row[s] EXCEPT !.route = None]
        BY <1>1, <2>1, <2>3 DEF Rows
      <3>2. QED
        BY <2>1, <2>3, <3>1 DEF StudentRow
    <2>4. QED
      BY <2>2, <2>3
  <1>7. \A t \in Trip : row'[t] \in TripRow \cup {None}
    BY <1>1 DEF ShuttlesInv, ShuttleRows, Rows
  <1>8. ShuttleRows(row')
    BY <1>5, <1>6, <1>7 DEF ShuttleRows
  <1>9. QED
    BY <1>1, <1>3, <1>4, <1>5, <1>8 DEF ShuttlesInv

-------------------------------------------------------------------------------
(* The methods *)

LEMMA OneShuttleWrite ==
  ASSUME NEW i, NEW old, NEW fields, NEW q, q = Write(i, old, fields, NoField),
         ShuttleWrite(i, [saw |-> old, put |-> fields, inc |-> NoField])
  PROVE  ShuttleQuery(q)
  <1> DEFINE w == [saw |-> old, put |-> fields, inc |-> NoField]
  <1>1. q.do = "write" /\ DOMAIN q.on = {i} /\ q.on[i] = w
    BY DEF Write
  <1> HIDE DEF w
  <1>2. QED
    BY <1>1 DEF ShuttleQuery, w

LEMMA TwoShuttleWrites ==
  ASSUME NEW i, NEW old, NEW fields, ShuttleWrite(i, [saw |-> old, put |-> fields, inc |-> NoField]),
         NEW j, NEW before, NEW data, ShuttleWrite(j, [saw |-> before, put |-> data, inc |-> NoField]), i # j,
         NEW q, q = Both(Write(i, old, fields, NoField), Write(j, before, data, NoField))
  PROVE  ShuttleQuery(q)
  <1> DEFINE first == Write(i, old, fields, NoField)
             w == [saw |-> old, put |-> fields, inc |-> NoField]
             v == [saw |-> before, put |-> data, inc |-> NoField]
  <1>1. DOMAIN first.on = {i} /\ first.on[i] = w
    BY DEF Write
  <1>2. q = Both(first, Write(j, before, data, NoField))
    OBVIOUS
  <1>a. v = [saw |-> before, put |-> data, inc |-> NoField]
    OBVIOUS
  <1>b. ShuttleWrite(i, w) /\ ShuttleWrite(j, v)
    OBVIOUS
  <1> HIDE DEF first, w, v
  <1>3. j \notin DOMAIN first.on
    BY <1>1
  <1>4. q.do = "write" /\ DOMAIN q.on = {i, j}
    BY <1>1, <1>2, <1>3, BothParts
  <1>5. q.on[j] = v
    BY <1>2, <1>3, <1>a, BothParts
  <1>6. q.on[i] = w
    BY <1>1, <1>2, <1>3, BothParts
  <1>7. QED
    BY <1>4, <1>5, <1>6, <1>b DEF ShuttleQuery

\* The route is asked to be there.
LEMMA RouteExists ==
  /\ ShuttleWrite(Route, [saw |-> Unseen, put |-> NoField, inc |-> NoField])
  /\ Exists(Route) = Write(Route, Unseen, NoField, NoField)
  <1> DEFINE w == [saw |-> Unseen, put |-> NoField, inc |-> NoField]
  <1>1. w.saw # None /\ w.inc = NoField /\ w.put = NoField
    BY UnseenAssumption
  <1> HIDE DEF w
  <1>2. ShuttleWrite(Route, w)
    BY <1>1 DEF ShuttleWrite
  <1>3. QED
    BY <1>2 DEF w, Exists, Add

LEMMA RoutesMethod ==
  ASSUME ShuttlesInv, NEW c \in Call, CreateRoute(c) \/ UpdateRoute(c) \/ DeleteRoute(c)
  PROVE  \E q : ShuttleQuery(q) /\ Decide(c, <<q>>)
  <1>1. CASE CreateRoute(c)
    <2>1. PICK input \in RouteInput : Decide(c, <<Insert(Route, input)>>)
      BY <1>1 DEF CreateRoute
    <2> DEFINE w == [saw |-> None, put |-> input, inc |-> NoField]
    <2>2. w.saw = None /\ w.put \in [active : BOOLEAN]
      BY DEF RouteInput
    <2> HIDE DEF w
    <2>3. ShuttleWrite(Route, w)
      BY <2>2 DEF ShuttleWrite
    <2>4. ShuttleQuery(Insert(Route, input))
      BY <2>3, OneShuttleWrite DEF Insert, w
    <2>5. QED
      BY <2>1, <2>4
  <1>2. CASE UpdateRoute(c)
    <2>1. PICK edit \in RouteEdit : Decide(c, <<Overwrite(Route, edit)>>)
      BY <1>2 DEF UpdateRoute
    <2> DEFINE w == [saw |-> Unseen, put |-> edit, inc |-> NoField]
    <2>2. w.saw # None /\ w.inc = NoField /\ w.put \in RouteEdit
      BY UnseenAssumption
    <2> HIDE DEF w
    <2>3. ShuttleWrite(Route, w)
      BY <2>2 DEF ShuttleWrite
    <2>4. ShuttleQuery(Overwrite(Route, edit))
      BY <2>3, OneShuttleWrite DEF Overwrite, w
    <2>5. QED
      BY <2>1, <2>4
  <1>3. CASE DeleteRoute(c)
    <2> DEFINE q == Then("drop route", Route)
    <2>1. q.do = "drop route" /\ Decide(c, <<q>>)
      BY <1>3, ThenParts DEF DeleteRoute
    <2> HIDE DEF q
    <2>2. QED
      BY <2>1 DEF ShuttleQuery
  <1>4. QED
    BY <1>1, <1>2, <1>3

LEMMA StopsMethod ==
  ASSUME ShuttlesInv, NEW c \in Call, StopsNext(c)
  PROVE  \E q : ShuttleQuery(q) /\ Decide(c, <<q>>)
  <1>0. StopInput = [sequence : Sequences] /\ Unseen # None /\ Route \notin Stop
    BY UnseenAssumption, ShuttleAssumption DEF StopInput, Sequences
  <1>1. ASSUME NEW s \in Stop, NEW input \in StopInput
        PROVE  ShuttleWrite(s, [saw |-> None, put |-> input, inc |-> NoField])
    <2> DEFINE w == [saw |-> None, put |-> input, inc |-> NoField]
    <2>1. w.saw = None /\ w.put \in [sequence : Sequences]
      BY <1>0
    <2> HIDE DEF w
    <2>2. ShuttleWrite(s, w)
      BY <2>1 DEF ShuttleWrite
    <2>3. QED
      BY <2>2 DEF w
  <1>2. ASSUME NEW s \in Stop, NEW old, old # None, NEW data \in StopInput \cup {None}
        PROVE  ShuttleWrite(s, [saw |-> old, put |-> data, inc |-> NoField])
    <2> DEFINE w == [saw |-> old, put |-> data, inc |-> NoField]
    <2>1. w.saw # None /\ w.inc = NoField /\ w.put \in [sequence : Sequences] \cup {None}
      BY <1>0, <1>2
    <2> HIDE DEF w
    <2>2. ShuttleWrite(s, w)
      BY <2>1 DEF ShuttleWrite
    <2>3. QED
      BY <2>2 DEF w
  <1>3. CASE AddStop(c)
    <2>1. PICK s \in Stop, input \in StopInput : Decide(c, <<Both(Insert(s, input), Exists(Route))>>)
      BY <1>3 DEF AddStop, Unused
    <2>2. ShuttleQuery(Both(Insert(s, input), Exists(Route)))
      BY <1>0, <1>1, RouteExists, TwoShuttleWrites DEF Insert
    <2>3. QED
      BY <2>1, <2>2
  <1>4. CASE UpdateStop(c)
    <2>1. PICK s \in Stop, input \in StopInput : Decide(c, <<Overwrite(s, input)>>)
      BY <1>4 DEF UpdateStop, Rows
    <2>2. ShuttleQuery(Overwrite(s, input))
      BY <1>0, <1>2, OneShuttleWrite DEF Overwrite
    <2>3. QED
      BY <2>1, <2>2
  <1>5. CASE DeleteStop(c)
    <2>1. PICK s \in Stop : Decide(c, <<Overwrite(s, None)>>)
      BY <1>5 DEF DeleteStop, Rows
    <2>2. ShuttleQuery(Overwrite(s, None))
      BY <1>0, <1>2, OneShuttleWrite DEF Overwrite
    <2>3. QED
      BY <2>1, <2>2
  <1>6. CASE ReorderStops(c)
    <2>1. PICK s \in Stop, t \in Stop :
            s # t /\ Decide(c, <<Both(Overwrite(s, [sequence |-> 1]), Overwrite(t, [sequence |-> 2]))>>)
      BY <1>6 DEF ReorderStops, Rows
    <2>2. 1 \in Sequences /\ 2 \in Sequences
      <3>1. Cardinality({s, t}) <= Cardinality(Stop) /\ Cardinality(Stop) \in Nat
        BY FS_Subset, FS_CardinalityType, ShuttleAssumption
      <3>2. IsFiniteSet({s}) /\ Cardinality({s}) = 1
        BY FS_Singleton
      <3>3. Cardinality({s} \cup {t}) = 2
        <4>1. t \notin {s}
          BY <2>1
        <4>2. Cardinality({s} \cup {t}) = Cardinality({s}) + 1
          BY <3>2, <4>1, FS_AddElement
        <4>3. QED
          BY <3>2, <4>2
      <3>4. {s} \cup {t} = {s, t}
        OBVIOUS
      <3>5. QED
        BY <3>1, <3>3, <3>4 DEF Sequences
    <2> DEFINE one == [sequence |-> 1]
               two == [sequence |-> 2]
    <2>3. one \in StopInput /\ two \in StopInput
      BY <1>0, <2>2
    <2>4. Decide(c, <<Both(Overwrite(s, one), Overwrite(t, two))>>)
      BY <2>1
    <2> HIDE DEF one, two
    <2>5. ShuttleQuery(Both(Overwrite(s, one), Overwrite(t, two)))
      BY <1>0, <1>2, <2>1, <2>3, TwoShuttleWrites DEF Overwrite
    <2>6. QED
      BY <2>4, <2>5
  <1>7. QED
    BY <1>3, <1>4, <1>5, <1>6 DEF StopsNext

LEMMA StudentsMethod ==
  ASSUME ShuttlesInv, NEW c \in Call, StudentsNext(c)
  PROVE  \E q : ShuttleQuery(q) /\ Decide(c, <<q>>)
  <1>0. Unseen # None /\ Route \notin Student
    BY UnseenAssumption, ShuttleAssumption
  <1>1. ASSUME NEW s \in Student, NEW old, NEW data,
               ShuttleWrite(s, [saw |-> old, put |-> data, inc |-> NoField])
        PROVE  ShuttleQuery(OnRoute(Write(s, old, data, NoField), data))
    <2>1. ShuttleQuery(Write(s, old, data, NoField))
      BY <1>1, OneShuttleWrite
    <2>2. ShuttleQuery(Both(Write(s, old, data, NoField), Exists(Route)))
      BY <1>0, <1>1, RouteExists, TwoShuttleWrites
    <2>3. QED
      BY <2>1, <2>2 DEF OnRoute
  <1>2. CASE CreateStudent(c)
    <2>1. PICK s \in Student, input \in StudentInput : Decide(c, <<OnRoute(Insert(s, input), input)>>)
      BY <1>2 DEF CreateStudent, Unused
    <2> DEFINE w == [saw |-> None, put |-> input, inc |-> NoField]
    <2>2. w.saw = None /\ w.put \in StudentRow
      BY DEF StudentInput, StudentRow
    <2> HIDE DEF w
    <2>3. ShuttleWrite(s, w)
      BY <2>2 DEF ShuttleWrite
    <2>4. ShuttleQuery(OnRoute(Insert(s, input), input))
      BY <1>1, <2>3 DEF Insert, w
    <2>5. QED
      BY <2>1, <2>4
  <1>3. ASSUME NEW s \in Student, NEW edit \in StudentEdit \cup {None}
        PROVE  ShuttleWrite(s, [saw |-> Unseen, put |-> edit, inc |-> NoField])
    <2> DEFINE w == [saw |-> Unseen, put |-> edit, inc |-> NoField]
    <2>1. w.saw # None /\ w.inc = NoField /\ w.put \in StudentEdit \cup {None}
      BY <1>0
    <2> HIDE DEF w
    <2>2. ShuttleWrite(s, w)
      BY <2>1 DEF ShuttleWrite
    <2>3. QED
      BY <2>2 DEF w
  <1>4. CASE UpdateStudent(c)
    <2>1. PICK s \in Student, edit \in StudentEdit : Decide(c, <<OnRoute(Overwrite(s, edit), edit)>>)
      BY <1>4 DEF UpdateStudent, Rows
    <2>2. ShuttleQuery(OnRoute(Overwrite(s, edit), edit))
      BY <1>1, <1>3 DEF Overwrite
    <2>3. QED
      BY <2>1, <2>2
  <1>5. CASE DeleteStudent(c)
    <2>1. PICK s \in Student : Decide(c, <<Overwrite(s, None)>>)
      BY <1>5 DEF DeleteStudent, Rows
    <2>2. ShuttleQuery(Overwrite(s, None))
      BY <1>3, OneShuttleWrite DEF Overwrite
    <2>3. QED
      BY <2>1, <2>2
  <1>6. QED
    BY <1>2, <1>4, <1>5 DEF StudentsNext

LEMMA TripsMethod ==
  ASSUME ShuttlesInv, NEW c \in Call, TripsNext(c)
  PROVE  \E q : ShuttleQuery(q) /\ Decide(c, <<q>>)
  <1>0. Route \notin Trip
    BY ShuttleAssumption
  <1>1. CASE StartTrip(c)
    <2> DEFINE trip == [status |-> "IN_PROGRESS", attendance |-> <<>>]
    <2>1. PICK t \in Trip : Decide(c, <<Both(Insert(t, trip), Exists(Route))>>)
      BY <1>1 DEF StartTrip, Unused
    <2>2. trip \in TripRow
      <3>1. <<>> \in [1..0 -> Student] /\ 0 \in 0..MaxAttendance
        BY ShuttleAssumption
      <3>2. <<>> \in UNION {[1..n -> Student] : n \in 0..MaxAttendance}
        BY <3>1
      <3>3. QED
        BY <3>2 DEF TripRow
    <2> HIDE DEF trip
    <2> DEFINE w == [saw |-> None, put |-> trip, inc |-> NoField]
    <2>3. w.saw = None /\ w.put \in TripRow
      BY <2>2
    <2> HIDE DEF w
    <2>4. ShuttleWrite(t, w)
      BY <2>3 DEF ShuttleWrite
    <2>5. ShuttleQuery(Both(Insert(t, trip), Exists(Route)))
      BY <1>0, <2>4, RouteExists, TwoShuttleWrites DEF Insert, w
    <2>6. QED
      BY <2>1, <2>5
  <1>2. ASSUME NEW t \in Rows(Trip) PROVE t \in Trip /\ row[t] \in TripRow
    BY DEF Rows, ShuttlesInv, ShuttleRows
  <1>3. CASE RecordAttendance(c)
    <2>1. PICK t \in Rows(Trip), student \in Student :
            /\ Len(row[t].attendance) < MaxAttendance
            /\ Decide(c, <<Put(t, [attendance |-> Append(row[t].attendance, student)])>>)
      BY <1>3 DEF RecordAttendance, Recorded
    <2> DEFINE put == [attendance |-> Append(row[t].attendance, student)]
               old == row[t]
               w == [saw |-> old, put |-> put, inc |-> NoField]
    <2>2. w.saw = old /\ w.inc = NoField /\ w.put = put /\ put = [attendance |-> Append(old.attendance, student)]
      OBVIOUS
    <2>3. old \in TripRow /\ Len(old.attendance) < MaxAttendance /\ t \in Trip
      BY <1>2, <2>1
    <2>4. Decide(c, <<Write(t, old, put, NoField)>>)
      BY <2>1 DEF Put
    <2> HIDE DEF w, put, old
    <2>5. ShuttleWrite(t, w)
      BY <2>2, <2>3 DEF ShuttleWrite
    <2>6. ShuttleQuery(Write(t, old, put, NoField))
      BY <2>5, OneShuttleWrite DEF w
    <2>7. QED
      BY <2>4, <2>6
  <1>4. CASE EndTrip(c)
    <2>1. PICK t \in Rows(Trip) : Decide(c, <<Put(t, [status |-> "COMPLETED"])>>)
      BY <1>4 DEF EndTrip
    <2> DEFINE put == [status |-> "COMPLETED"]
               old == row[t]
               w == [saw |-> old, put |-> put, inc |-> NoField]
    <2>2. w.saw = old /\ w.inc = NoField /\ w.put = [status |-> "COMPLETED"]
      OBVIOUS
    <2>3. old \in TripRow /\ t \in Trip
      BY <1>2, <2>1
    <2>4. Decide(c, <<Write(t, old, put, NoField)>>)
      BY <2>1 DEF Put
    <2> HIDE DEF w, put, old
    <2>5. ShuttleWrite(t, w)
      BY <2>2, <2>3 DEF ShuttleWrite
    <2>6. ShuttleQuery(Write(t, old, put, NoField))
      BY <2>5, OneShuttleWrite DEF w
    <2>7. QED
      BY <2>4, <2>6
  <1>5. QED
    BY <1>1, <1>3, <1>4 DEF TripsNext

-------------------------------------------------------------------------------
\* What a step does to the attendance of a trip.
Kept ==
  \A t \in Rows(Trip) :
    t \in raced' \/ SubSeq(row'[t].attendance, 1, Len(row[t].attendance)) = row[t].attendance

ShuttlesAction ==
  \/ \E c \in Call : RoutesNext(c) \/ StopsNext(c) \/ StudentsNext(c) \/ TripsNext(c) \/ Step(c)
  \/ Restart

LEMMA ShuttlesStep ==
  ASSUME Trip \subseteq Watched, ShuttlesInv, [ShuttlesAction]_vars
  PROVE  ShuttlesInv' /\ Kept
  <1>1. ASSUME row' = row, ShuttlesInv' PROVE ShuttlesInv' /\ Kept
    <2>1. \A t \in Rows(Trip) : row[t] \in TripRow
      BY DEF Rows, ShuttlesInv, ShuttleRows
    <2>2. QED
      BY <1>1, <2>1, AttendanceStays DEF Kept
  <1>2. ASSUME NEW c \in Call, RoutesNext(c) \/ StopsNext(c) \/ StudentsNext(c) \/ TripsNext(c)
        PROVE  ShuttlesInv' /\ Kept
    <2>1. CASE DropRoute(c)
      BY <2>1, DropRouteStep DEF Kept
    <2>2. CASE ~DropRoute(c)
      <3>1. PICK q : ShuttleQuery(q) /\ Decide(c, <<q>>)
        BY <1>2, <2>2, RoutesMethod, StopsMethod, StudentsMethod, TripsMethod DEF RoutesNext
      <3>2. QED
        BY <1>1, <3>1, ShuttlesDecide
    <2>3. QED
      BY <2>1, <2>2
  <1>3. CASE [(\E c \in Call : Step(c)) \/ Restart]_vars
    <2> DEFINE S == {todo[c] : c \in Call} \cup {<<>>}
    <2>1. todo \in [Call -> S] /\ <<>> \in S
      <3>1. todo = [c \in Call |-> todo[c]]
        BY DEF ShuttlesInv
      <3>2. QED
        BY <3>1
    <2> HIDE DEF S
    <2>2. \/ Quiet /\ todo' \in [Call -> S]
          \/ \E c \in Call : \E q : Did(c, q)
      BY <1>3, <2>1, StepIsDone
    <2>3. CASE Quiet /\ todo' \in [Call -> S]
      <3>1. ShuttlesInv' /\ row' = row
        BY <2>3, ShuttlesQuiet DEF Quiet
      <3>2. QED
        BY <1>1, <3>1
    <2>4. CASE \E c \in Call : \E q : Did(c, q)
      <3>1. PICK c \in Call : \E q : Did(c, q)
        BY <2>4
      <3>2. PICK q : Did(c, q)
        BY <3>1
      <3>3. QED
        BY <3>2, ShuttlesDone DEF Kept
    <2>5. QED
      BY <2>2, <2>3, <2>4
  <1>4. QED
    BY <1>2, <1>3 DEF ShuttlesAction

LEMMA ShuttlesStart ==
  ASSUME CallsInit(NoField)
  PROVE  ShuttlesInv
  <1>1. DOMAIN NoField = {}
    BY DEF NoField
  <1>2. row = [i \in Id |-> None] /\ todo = [c \in Call |-> <<>>]
    BY <1>1 DEF CallsInit
  <1>3. DOMAIN row = Id /\ ShuttleRows(row)
    BY <1>2, ShuttleAssumption DEF ShuttleRows
  <1>4. QED
    BY <1>2, <1>3 DEF ShuttlesInv

LEMMA ShuttlesInvariance ==
  ASSUME Trip \subseteq Watched
  PROVE  ShuttlesSpec => []ShuttlesInv /\ [][Kept]_vars
  <1>1. CallsInit(NoField) => ShuttlesInv
    BY ShuttlesStart
  <1>2. ShuttlesInv /\ [ShuttlesAction]_vars => ShuttlesInv' /\ Kept
    BY ShuttlesStep
  <1>3. QED
    BY <1>1, <1>2, PTL DEF ShuttlesSpec, ShuttlesAction

-------------------------------------------------------------------------------
\* Routes, stops, students and trips have the values their columns take.
THEOREM ShuttlesTypeCorrect ==
  ASSUME Trip \subseteq Watched
  PROVE  ShuttlesSpec => []ShuttleRows(row)
  <1>1. ShuttlesInv => ShuttleRows(row)
    BY DEF ShuttlesInv
  <1>2. QED
    BY <1>1, ShuttlesInvariance, PTL

\* A recorded attendance is lost only to a call that did not see the trip as it was.
THEOREM AttendanceStaysRecorded ==
  ASSUME Trip \subseteq Watched
  PROVE  ShuttlesSpec => AttendanceIsKept
  <1>1. [Kept]_vars <=>
        [\A t \in Rows(Trip) :
           \/ t \in raced'
           \/ SubSeq(row'[t].attendance, 1, Len(row[t].attendance)) = row[t].attendance]_vars
    BY DEF Kept
  <1>2. QED
    BY <1>1, ShuttlesInvariance, PTL DEF AttendanceIsKept

-------------------------------------------------------------------------------
(***************************************************************************)
(* Rentals. A pending booking was decided on a free vehicle, and whatever  *)
(* booking came in between is among those the call could not have read.    *)
(***************************************************************************)

\* The queries of the methods, each with what made the call decide.
HireCreation(b, input) == Both(Insert(b, input), Exists(Rental))

HireCreating == {HireCreation(b, input) : b \in Hire, input \in HireInput}

\* Dates or a status as a client likes.
HireEditing == {Overwrite(b, edit) : b \in Hire, edit \in HireEdit \cup {[status |-> "CONFIRMED"]}}

\* A booking that blocks the vehicle after such a change did so when the call read it.
HireMove == {v \in [was : HireRow, status : HireStatus] :
               v.status \in {"CANCELLED", "COMPLETED"} \/ v.was.status \notin {"CANCELLED", "COMPLETED"}}

HireMoving == {Write(b, v.was, [status |-> v.status], NoField) : b \in Hire, v \in HireMove}

RentalWriting == {Write(Rental, old, input, NoField) : old \in {None, Unseen}, input \in RentalRow}

RentalsQueries ==
  HireCreating \cup HireEditing \cup HireMoving \cup RentalWriting \cup {Then("drop rental", Rental)}

Standing == Blocking \ (crowded \cup raced)

\* What a call is about to insert was free when it looked, and still is if no other call wrote.
ClearInv ==
  \A c \in Call, b \in Hire, input \in HireInput :
    todo[c] = <<HireCreation(b, input)>> =>
      \/ b \in crowded
      \/ \A other \in Standing : ~Overlaps(other, input.first, input.last)

RentalsInv ==
  /\ DOMAIN row = Id /\ RentalsRows(row)
  /\ todo \in OneQuery(RentalsQueries)
  /\ ClearInv
  /\ VehicleRentedOnce

-------------------------------------------------------------------------------
LEMMA HireCreationParts ==
  ASSUME NEW b \in Hire, NEW input \in HireInput, NEW q, q = HireCreation(b, input)
  PROVE  /\ q.do = "write" /\ DOMAIN q.on = {b, Rental}
         /\ q.on[b] = [saw |-> None, put |-> input, inc |-> NoField]
         /\ q.on[Rental] = [saw |-> Unseen, put |-> NoField, inc |-> NoField]
         /\ Inserting(<<q>>) = {b}
  <1> DEFINE first == Insert(b, input)
  <1>1. DOMAIN first.on = {b} /\ first.on[b] = [saw |-> None, put |-> input, inc |-> NoField]
    BY DEF Insert, Write
  <1>2. q = Both(first, Write(Rental, Unseen, NoField, NoField)) /\ Rental \notin DOMAIN first.on
    BY <1>1, RentalsAssumption DEF HireCreation, Exists, Add
  <1>3. /\ q.do = "write" /\ DOMAIN q.on = {b, Rental}
        /\ q.on[b] = [saw |-> None, put |-> input, inc |-> NoField]
        /\ q.on[Rental] = [saw |-> Unseen, put |-> NoField, inc |-> NoField]
    BY <1>1, <1>2, BothParts
  <1>4. Inserting(<<q>>) = {i \in Id : q.do = "write" /\ i \in DOMAIN q.on /\ q.on[i].saw = None}
    BY InsertingOf
  <1>5. Inserting(<<q>>) = {b}
    BY <1>3, <1>4, UnseenAssumption, RentalsAssumption
  <1>6. QED
    BY <1>3, <1>5

\* A query that writes no booking from nothing inserts none.
LEMMA InsertsNoHire ==
  ASSUME NEW q, q.do # "write" \/ \A b \in Hire : b \in DOMAIN q.on => q.on[b].saw # None
  PROVE  q \notin HireCreating /\ \A b \in Hire : b \notin Inserting(<<q>>)
  <1>1. \A b \in Hire : b \notin Inserting(<<q>>)
    BY InsertingOf
  <1>2. ASSUME NEW b \in Hire, NEW input \in HireInput, q = HireCreation(b, input) PROVE FALSE
    <2>1. Inserting(<<q>>) = {b}
      BY <1>2, HireCreationParts
    <2>2. QED
      BY <1>1, <2>1
  <1>3. QED
    BY <1>1, <1>2 DEF HireCreating

LEMMA EditsInsertNoHire ==
  ASSUME NEW q \in HireEditing
  PROVE  q \notin HireCreating /\ \A b \in Hire : b \notin Inserting(<<q>>)
  <1>1. PICK a \in Hire, edit \in HireEdit \cup {[status |-> "CONFIRMED"]} : q = Overwrite(a, edit)
    BY DEF HireEditing
  <1>2. DOMAIN q.on = {a} /\ q.on[a].saw = Unseen
    BY <1>1, WriteParts DEF Overwrite
  <1>3. QED
    BY <1>2, InsertsNoHire, UnseenAssumption

LEMMA RentalWritesInsertNoHire ==
  ASSUME NEW q \in RentalWriting
  PROVE  q \notin HireCreating /\ \A b \in Hire : b \notin Inserting(<<q>>)
  <1>1. PICK old \in {None, Unseen}, input \in RentalRow : q = Write(Rental, old, input, NoField)
    BY DEF RentalWriting
  <1>2. DOMAIN q.on = {Rental}
    BY <1>1, WriteParts
  <1>3. QED
    BY <1>2, InsertsNoHire, RentalsAssumption

\* Bookings that other calls are about to insert are crowded by what is done.
LEMMA HireCrowded ==
  ASSUME Hire \subseteq Rival, NEW c \in Call, NEW q, Done(c, q), NEW d \in Call \ {c},
         NEW b \in Hire, NEW input \in HireInput, todo[d] = <<HireCreation(b, input)>>
  PROVE  b \in crowded'
  <1> DEFINE p == HireCreation(b, input)
  <1>1. p.do = "write" /\ DOMAIN p.on = {b, Rental} /\ p.on[b] = [saw |-> None, put |-> input, inc |-> NoField]
    BY HireCreationParts
  <1>2. b \in Id \cap Rival /\ todo[d] = <<p>>
    BY RentalsAssumption
  <1> HIDE DEF p
  <1>3. p.on[b].saw = None /\ b \in DOMAIN p.on
    BY <1>1
  <1>4. QED
    BY <1>1, <1>2, <1>3, DoneCrowds

\* Other queries insert no booking, and write one record.
LEMMA RentalsQueryParts ==
  ASSUME NEW q \in RentalsQueries
  PROVE  \/ q \in HireCreating
         \/ q.do = "drop rental" /\ q.on = Rental
         \/ /\ q.do = "write" /\ DOMAIN q.on = {Rental}
            /\ q.on[Rental].put \in RentalRow /\ q.on[Rental].inc = NoField
         \/ \E b \in Hire, edit \in HireEdit \cup {[status |-> "CONFIRMED"]} :
              /\ q.do = "write" /\ DOMAIN q.on = {b}
              /\ q.on[b] = [saw |-> Unseen, put |-> edit, inc |-> NoField]
         \/ \E b \in Hire, v \in HireMove :
              /\ q.do = "write" /\ DOMAIN q.on = {b}
              /\ q.on[b] = [saw |-> v.was, put |-> [status |-> v.status], inc |-> NoField]
  <1>1. CASE q \in HireEditing
    <2>1. PICK b \in Hire, edit \in HireEdit \cup {[status |-> "CONFIRMED"]} : q = Overwrite(b, edit)
      BY <1>1 DEF HireEditing
    <2>2. /\ q.do = "write" /\ DOMAIN q.on = {b}
          /\ q.on[b] = [saw |-> Unseen, put |-> edit, inc |-> NoField]
      BY <2>1 DEF Overwrite, Write
    <2>3. QED
      BY <2>2
  <1>2. CASE q \in HireMoving
    <2>1. PICK b \in Hire, v \in HireMove : q = Write(b, v.was, [status |-> v.status], NoField)
      BY <1>2 DEF HireMoving
    <2>2. /\ q.do = "write" /\ DOMAIN q.on = {b}
          /\ q.on[b] = [saw |-> v.was, put |-> [status |-> v.status], inc |-> NoField]
      BY <2>1 DEF Write
    <2>3. QED
      BY <2>2
  <1>3. CASE q \in RentalWriting
    <2>1. PICK old \in {None, Unseen}, input \in RentalRow : q = Write(Rental, old, input, NoField)
      BY <1>3 DEF RentalWriting
    <2>2. /\ q.do = "write" /\ DOMAIN q.on = {Rental}
          /\ q.on[Rental].put = input /\ q.on[Rental].inc = NoField
      BY <2>1, WriteParts
    <2>3. QED
      BY <2>2
  <1>4. CASE q = Then("drop rental", Rental)
    <2>1. q.do = "drop rental" /\ q.on = Rental
      BY <1>4, ThenParts
    <2>2. QED
      BY <2>1
  <1>5. QED
    BY <1>1, <1>2, <1>3, <1>4 DEF RentalsQueries

\* A booking after an update is a booking still, with the status that is written if any is.
LEMMA EditedHire ==
  ASSUME NEW r \in HireRow, NEW edit \in HireEdit \cup [status : HireStatus], NEW old
  PROVE  LET s == Applied([saw |-> old, put |-> edit, inc |-> NoField], r)
         IN /\ s \in HireRow
            /\ edit = NoField => s = r
            /\ edit \in [status : HireStatus] => s = [first |-> r.first, last |-> r.last, status |-> edit.status]
  <1> DEFINE s == Applied([saw |-> old, put |-> edit, inc |-> NoField], r)
  <1>1. /\ "first" \in DOMAIN edit => edit["first"] \in Day
        /\ "last" \in DOMAIN edit => edit["last"] \in Day
        /\ "status" \in DOMAIN edit => edit["status"] \in HireStatus
    <2>1. CASE edit \in HireEdit
      <3>1. PICK fields \in HireFields : edit = Given(fields)
        BY <2>1, EditAssumption
      <3>2. \A g \in DOMAIN edit : edit[g] = fields[g] /\ fields[g] # None
        BY <3>1, GivenIs
      <3>3. QED
        BY <3>2 DEF HireFields
    <2>2. CASE edit \in [status : HireStatus]
      BY <2>2
    <2>3. QED
      BY <2>1, <2>2
  <1>2. edit # None /\ r # None
    BY RentalsAssumption
  <1>3. s = [f \in DOMAIN r |-> IF f \in DOMAIN edit THEN edit[f] ELSE r[f]]
    BY <1>2, AppliedIs
  <1>4. DOMAIN r = {"first", "last", "status"} /\ r = [first |-> r.first, last |-> r.last, status |-> r.status]
        /\ r.first \in Day /\ r.last \in Day /\ r.status \in HireStatus
    BY DEF HireRow
  <1>5. s = [first |-> s.first, last |-> s.last, status |-> s.status]
    BY <1>3, <1>4
  <1>6. s.first \in Day /\ s.last \in Day /\ s.status \in HireStatus
    BY <1>1, <1>3, <1>4
  <1>7. s \in HireRow
    BY <1>5, <1>6 DEF HireRow
  <1>8. ASSUME edit = NoField PROVE s = r
    <2>1. DOMAIN edit = {}
      BY <1>8 DEF NoField
    <2>2. s.first = r.first /\ s.last = r.last /\ s.status = r.status
      BY <1>3, <1>4, <2>1
    <2>3. QED
      BY <1>4, <1>5, <2>2
  <1>9. ASSUME edit \in [status : HireStatus]
        PROVE  s = [first |-> r.first, last |-> r.last, status |-> edit.status]
    <2>1. DOMAIN edit = {"status"}
      BY <1>9
    <2>2. s.first = r.first /\ s.last = r.last /\ s.status = edit.status
      BY <1>3, <1>4, <2>1
    <2>3. QED
      BY <1>5, <2>2
  <1>10. QED
    BY <1>7, <1>8, <1>9

-------------------------------------------------------------------------------
\* As long as bookings stop standing or stay as they are, and what calls are about to insert is
\* clear of those that stood, the invariant is kept.
LEMMA NoneStandsUp ==
  ASSUME RentalsInv, DOMAIN row' = Id, RentalsRows(row'), todo' \in OneQuery(RentalsQueries),
         \A b \in Standing' : b \in Standing /\ row'[b].first = row[b].first /\ row'[b].last = row[b].last,
         \A c \in Call, b \in Hire, input \in HireInput :
           todo'[c] = <<HireCreation(b, input)>> =>
             \/ b \in crowded'
             \/ \A other \in Standing : ~Overlaps(other, input.first, input.last)
  PROVE  RentalsInv'
  <1>1. ClearInv'
    BY DEF ClearInv, Overlaps
  <1>2. VehicleRentedOnce'
    BY DEF RentalsInv, VehicleRentedOnce, Standing
  <1>3. QED
    BY <1>1, <1>2 DEF RentalsInv

LEMMA RentalsQuiet ==
  ASSUME RentalsInv, Quiet, todo' \in OneQuery(RentalsQueries)
  PROVE  RentalsInv'
  <1>1. DOMAIN row' = Id /\ RentalsRows(row')
    BY DEF Quiet, RentalsInv
  <1>2. \A b \in Standing' : b \in Standing /\ row'[b].first = row[b].first /\ row'[b].last = row[b].last
    BY DEF Quiet, Standing, Blocking, Rows
  <1>3. ASSUME NEW c \in Call, NEW b \in Hire, NEW input \in HireInput, todo'[c] = <<HireCreation(b, input)>>
        PROVE  \/ b \in crowded'
               \/ \A other \in Standing : ~Overlaps(other, input.first, input.last)
    <2>1. todo[c] = <<HireCreation(b, input)>>
      BY <1>3 DEF Quiet
    <2>2. QED
      BY <2>1 DEF RentalsInv, ClearInv, Quiet
  <1>4. QED
    BY <1>1, <1>2, <1>3, NoneStandsUp

\* A call that starts on something else than a booking, or on one that is there.
LEMMA RentalsDecide ==
  ASSUME RentalsInv, NEW c \in Call, NEW q \in RentalsQueries, Decide(c, <<q>>),
         \A b \in Hire : b \notin Inserting(<<q>>) \/ row[b] # None,
         q \notin HireCreating
  PROVE  RentalsInv'
  <1>1. todo' \in OneQuery(RentalsQueries) /\ todo'[c] = <<q>> /\ \A d \in Call \ {c} : todo'[d] = todo[d]
    BY OneQueryDecided DEF RentalsInv
  <1>2. row' = row
    BY DecideParts
  <1>3. \A b \in Hire : (b \in crowded' <=> b \in crowded) /\ (b \in raced' <=> b \in raced)
    BY DecideParts
  <1>4. DOMAIN row' = Id /\ RentalsRows(row')
    BY <1>2 DEF RentalsInv
  <1>5. \A b \in Standing' : b \in Standing /\ row'[b].first = row[b].first /\ row'[b].last = row[b].last
    BY <1>2, <1>3 DEF Standing, Blocking, Rows
  <1>6. ASSUME NEW d \in Call, NEW b \in Hire, NEW input \in HireInput, todo'[d] = <<HireCreation(b, input)>>
        PROVE  \/ b \in crowded'
               \/ \A other \in Standing : ~Overlaps(other, input.first, input.last)
    <2>1. HireCreation(b, input) \in HireCreating
      BY DEF HireCreating
    <2>2. d # c
      BY <1>1, <1>6, <2>1
    <2>3. todo[d] = <<HireCreation(b, input)>>
      BY <1>1, <1>6, <2>2
    <2>4. QED
      BY <1>3, <2>3 DEF RentalsInv, ClearInv
  <1>7. QED
    BY <1>1, <1>4, <1>5, <1>6, NoneStandsUp

\* A booking is asked for where none stands in the way.
LEMMA CreateHireDecides ==
  ASSUME RentalsInv, NEW c \in Call, CreateHire(c)
  PROVE  RentalsInv'
  <1>1. PICK b \in Unused(Hire), input \in HireInput :
          /\ \A other \in Blocking : ~Overlaps(other, input.first, input.last)
          /\ Decide(c, <<HireCreation(b, input)>>)
    BY DEF CreateHire, HireCreation
  <1> DEFINE q == HireCreation(b, input)
  <1>2. b \in Hire /\ row[b] = None
    BY DEF Unused
  <1>3. q \in RentalsQueries
    <2>1. q \in HireCreating
      BY <1>2 DEF HireCreating
    <2>2. QED
      BY <2>1 DEF RentalsQueries
  <1>4. Inserting(<<q>>) = {b}
    BY <1>2, HireCreationParts
  <1> HIDE DEF q
  <1>5. todo' \in OneQuery(RentalsQueries) /\ todo'[c] = <<q>> /\ \A d \in Call \ {c} : todo'[d] = todo[d]
    BY <1>1, <1>3, OneQueryDecided DEF RentalsInv, q
  <1>6. row' = row /\ \A a \in Hire \ {b} : (a \in crowded' <=> a \in crowded) /\ (a \in raced' <=> a \in raced)
    BY <1>1, <1>4, DecideParts DEF q
  <1>7. DOMAIN row' = Id /\ RentalsRows(row')
    BY <1>6 DEF RentalsInv
  <1>8. \A a \in Standing' : a \in Standing /\ row'[a].first = row[a].first /\ row'[a].last = row[a].last
    BY <1>2, <1>6 DEF Standing, Blocking, Rows
  <1>9. ASSUME NEW d \in Call, NEW a \in Hire, NEW other \in HireInput, todo'[d] = <<HireCreation(a, other)>>
        PROVE  \/ a \in crowded'
               \/ \A s \in Standing : ~Overlaps(s, other.first, other.last)
    <2>1. CASE d = c
      <3>1. HireCreation(a, other) = HireCreation(b, input)
        BY <1>5, <1>9, <2>1 DEF q
      <3>2. other = input
        <4> DEFINE p == HireCreation(a, other)
        <4>1. DOMAIN p.on = {a, Rental} /\ p.on[a] = [saw |-> None, put |-> other, inc |-> NoField]
          BY HireCreationParts
        <4> HIDE DEF p
        <4>2. DOMAIN p.on = {b, Rental} /\ p.on[b] = [saw |-> None, put |-> input, inc |-> NoField]
          BY <1>2, <3>1, HireCreationParts DEF p
        <4>3. a = b
          BY <1>2, <4>1, <4>2, RentalsAssumption
        <4>4. QED
          BY <4>1, <4>2, <4>3
      <3>3. QED
        BY <1>1, <3>2 DEF Standing
    <2>2. CASE d # c
      <3>1. todo[d] = <<HireCreation(a, other)>>
        BY <1>5, <1>9, <2>2
      <3>2. a # b
        <4> DEFINE p == HireCreation(a, other)
        <4>0. p = HireCreation(a, other) /\ todo[d] = <<p>>
          BY <3>1
        <4> HIDE DEF p
        <4>1. p.do = "write" /\ DOMAIN p.on = {a, Rental}
          BY <4>0, HireCreationParts
        <4>2. b \notin DOMAIN p.on
          BY <4>0, <4>1, UnusedIsFree
        <4>3. QED
          BY <4>1, <4>2
      <3>3. QED
        BY <1>6, <3>1, <3>2 DEF RentalsInv, ClearInv
    <2>3. QED
      BY <2>1, <2>2
  <1>10. QED
    BY <1>5, <1>7, <1>8, <1>9, NoneStandsUp

\* Other methods look at a record and change it later.
LEMMA RentalsMethod ==
  ASSUME RentalsInv, NEW c \in Call, RentalsNext(c), ~CreateHire(c), ~DropRental(c)
  PROVE  RentalsInv'
  <1>1. ASSUME NEW q \in HireEditing \cup RentalWriting \cup {Then("drop rental", Rental)}, Decide(c, <<q>>)
        PROVE  RentalsInv'
    <2>1. q \in RentalsQueries
      BY <1>1 DEF RentalsQueries
    <2>2. ASSUME q = Then("drop rental", Rental)
          PROVE  q \notin HireCreating /\ \A b \in Hire : b \notin Inserting(<<q>>)
      <3>1. Then("drop rental", Rental).do = "drop rental"
        BY DEF Then
      <3>2. QED
        BY <2>2, <3>1, InsertsNoHire
    <2>3. q \notin HireCreating /\ \A b \in Hire : b \notin Inserting(<<q>>)
      BY <2>2, EditsInsertNoHire, RentalWritesInsertNoHire
    <2>4. QED
      BY <1>1, <2>1, <2>3, RentalsDecide
  <1>2. CASE CreateRentalVehicle(c)
    <2>1. PICK input \in RentalRow : Decide(c, <<Insert(Rental, input)>>)
      BY <1>2 DEF CreateRentalVehicle, RentalInput
    <2>2. Insert(Rental, input) \in RentalWriting
      BY DEF Insert, RentalWriting
    <2>3. QED
      BY <1>1, <2>1, <2>2
  <1>3. CASE UpdateRentalVehicle(c)
    <2>1. PICK input \in RentalRow : Decide(c, <<Overwrite(Rental, input)>>)
      BY <1>3 DEF UpdateRentalVehicle, RentalInput
    <2>2. Overwrite(Rental, input) \in RentalWriting
      BY DEF Overwrite, RentalWriting
    <2>3. QED
      BY <1>1, <2>1, <2>2
  <1>4. CASE DeleteRentalVehicle(c)
    BY <1>1, <1>4 DEF DeleteRentalVehicle
  <1>5. CASE UpdateHire(c)
    <2>1. PICK b \in Rows(Hire), edit \in HireEdit : Decide(c, <<Overwrite(b, edit)>>)
      BY <1>5 DEF UpdateHire
    <2>2. Overwrite(b, edit) \in HireEditing
      BY DEF HireEditing, Rows
    <2>3. QED
      BY <1>1, <2>1, <2>2
  <1>6. CASE ConfirmHire(c)
    <2>1. PICK b \in Rows(Hire) : Decide(c, <<Overwrite(b, [status |-> "CONFIRMED"])>>)
      BY <1>6 DEF ConfirmHire
    <2>2. Overwrite(b, [status |-> "CONFIRMED"]) \in HireEditing
      BY DEF HireEditing, Rows
    <2>3. QED
      BY <1>1, <2>1, <2>2
  <1>7. ASSUME NEW statuses, NEW status \in HireStatus, ChangeBooking(c, Hire, statuses, status),
               status \in {"CANCELLED", "COMPLETED"} \/ statuses \cap {"CANCELLED", "COMPLETED"} = {}
        PROVE  RentalsInv'
    <2>1. PICK b \in Rows(Hire) : row[b].status \in statuses /\ Decide(c, <<Put(b, [status |-> status])>>)
      BY <1>7 DEF ChangeBooking
    <2> DEFINE v == [was |-> row[b], status |-> status]
               q == Put(b, [status |-> status])
    <2>2. row[b] \in HireRow /\ row[b] # None /\ b \in Hire
      BY DEF Rows, RentalsInv, RentalsRows
    <2>3. v \in HireMove /\ v.was = row[b] /\ v.status = status
      BY <1>7, <2>1, <2>2 DEF HireMove
    <2>4. q = Write(b, v.was, [status |-> v.status], NoField)
      BY <2>3 DEF Put
    <2>5. q \in HireMoving
      BY <2>2, <2>3, <2>4 DEF HireMoving
    <2>6. q \in RentalsQueries
      BY <2>5 DEF RentalsQueries
    <2>7. DOMAIN q.on = {b} /\ q.on[b].saw = row[b]
      BY WriteParts DEF Put
    <2>8. q \notin HireCreating /\ \A a \in Hire : a \notin Inserting(<<q>>)
      BY <2>2, <2>7, InsertsNoHire
    <2>9. QED
      BY <2>1, <2>6, <2>8, RentalsDecide
  <1>8. CASE CheckOut(c)
    BY <1>7, <1>8 DEF CheckOut, HireStatus
  <1>9. CASE CheckIn(c)
    BY <1>7, <1>9 DEF CheckIn, HireStatus
  <1>10. CASE CancelHire(c)
    BY <1>7, <1>10 DEF CancelHire, HireStatus
  <1>11. QED
    BY <1>2, <1>3, <1>4, <1>5, <1>6, <1>8, <1>9, <1>10 DEF RentalsNext

\* The vehicle goes when it has no bookings.
LEMMA DropRentalStep ==
  ASSUME RentalsInv, NEW c \in Call, DropRental(c)
  PROVE  RentalsInv'
  <1>1. row' = [row EXCEPT ![Rental] = None] /\ Rows(Hire) = {} /\ ~Free(c)
        /\ todo' = [todo EXCEPT ![c] = <<>> \o Tail(@)]
    BY DEF DropRental, Perform, At
  <1>2. todo' = [todo EXCEPT ![c] = <<>>]
    <2>1. Tail(todo[c]) = <<>>
      BY <1>1, QueryOf DEF RentalsInv
    <2>2. <<>> \o <<>> = <<>>
      OBVIOUS
    <2>3. QED
      BY <1>1, <2>1, <2>2
  <1>3. todo' \in OneQuery(RentalsQueries)
    BY <1>2, OneQueryEnds DEF RentalsInv
  <1>4. DOMAIN row' = Id /\ RentalsRows(row') /\ \A b \in Hire : row'[b] = row[b]
    BY <1>1, RentalsAssumption DEF RentalsInv, RentalsRows
  <1>5. Blocking' = {} /\ Blocking = {}
    BY <1>1, <1>4 DEF Blocking, Rows
  <1>6. QED
    BY <1>3, <1>4, <1>5, NoneStandsUp DEF Standing

-------------------------------------------------------------------------------
\* A booking is made: no other call wrote since it was found to be clear, or it is crowded.
LEMMA CreateHireDone ==
  ASSUME Hire \subseteq Rival, RentalsInv, NEW c \in Call, NEW q \in HireCreating, Done(c, q)
  PROVE  RentalsInv'
  <1>1. PICK b \in Hire, input \in HireInput : q = HireCreation(b, input)
    BY DEF HireCreating
  <1>2. /\ DOMAIN q.on = {b, Rental}
        /\ q.on[b] = [saw |-> None, put |-> input, inc |-> NoField]
        /\ q.on[Rental] = [saw |-> Unseen, put |-> NoField, inc |-> NoField]
    BY <1>1, HireCreationParts
  <1>3. row[b] = None /\ row[Rental] # None
    BY <1>2, UnseenAssumption, RentalsAssumption DEF Done
  <1>4. row' = [i \in Id |-> IF i \in DOMAIN q.on THEN Applied(q.on[i], row[i]) ELSE row[i]]
    BY DEF Done
  <1>5. input \in HireRow
    BY DEF HireInput, HireRow, HireStatus
  <1>6. row'[b] = input
    BY <1>2, <1>3, <1>4, <1>5, RentalsAssumption DEF Applied
  <1>7. row'[Rental] = row[Rental]
    <2>1. row[Rental] \in RentalRow
      BY <1>3 DEF RentalsInv, RentalsRows
    <2>2. row'[Rental] = [f \in DOMAIN row[Rental] |-> IF f \in DOMAIN NoField THEN NoField[f] ELSE row[Rental][f]]
      BY <1>2, <1>3, <1>4, AppliedIs, RentalsAssumption
    <2>3. DOMAIN NoField = {}
      BY DEF NoField
    <2>4. QED
      BY <2>1, <2>2, <2>3 DEF RentalRow
  <1>8. \A a \in Hire \ {b} : row'[a] = row[a]
    BY <1>2, <1>4, RentalsAssumption
  <1>9. DOMAIN row' = Id /\ RentalsRows(row')
    BY <1>4, <1>5, <1>6, <1>7, <1>8 DEF RentalsInv, RentalsRows
  <1>10. todo' \in OneQuery(RentalsQueries) /\ todo'[c] = <<>> /\ \A d \in Call \ {c} : todo'[d] = todo[d]
    BY OneQueryEnds DEF Done, RentalsInv
  <1>11. crowded \subseteq crowded' /\ raced \subseteq raced'
    BY DEF Done
  <1>12. \A a \in Standing' : a = b \/ a \in Standing
    BY <1>8, <1>11 DEF Standing, Blocking, Rows
  <1>13. ASSUME NEW d \in Call, NEW a \in Hire, NEW other \in HireInput, todo'[d] = <<HireCreation(a, other)>>
         PROVE  a \in crowded'
    <2>1. d # c
      <3>1. <<HireCreation(a, other)>> # <<>>
        OBVIOUS
      <3>2. QED
        BY <1>10, <1>13, <3>1
    <2>2. todo[d] = <<HireCreation(a, other)>>
      BY <1>10, <1>13, <2>1
    <2>3. QED
      BY <2>1, <2>2, HireCrowded
  <1>14. ClearInv'
    BY <1>13 DEF ClearInv
  <1>15. ASSUME b \in Standing', NEW a \in Standing', a # b
         PROVE  row'[b].first > row'[a].last \/ row'[b].last < row'[a].first
    <2>1. todo[c] = <<HireCreation(b, input)>>
      BY <1>1 DEF Done
    <2>2. b \notin crowded /\ a \in Standing
      BY <1>11, <1>12, <1>15 DEF Standing
    <2>3. ~Overlaps(a, input.first, input.last)
      BY <2>1, <2>2 DEF RentalsInv, ClearInv
    <2>4. row'[a] = row[a] /\ row[a] \in HireRow
      BY <1>8, <1>15, <2>2 DEF Standing, Blocking, Rows, RentalsInv, RentalsRows
    <2>5. row[a].first \in Int /\ row[a].last \in Int /\ input.first \in Int /\ input.last \in Int
      BY <1>5, <2>4, RentalsAssumption DEF HireRow
    <2>6. QED
      BY <1>6, <2>3, <2>4, <2>5 DEF Overlaps
  <1>16. ASSUME NEW a \in Standing', a # b
         PROVE  row'[a].first \in Int /\ row'[a].last \in Int /\ row'[a] = row[a] /\ a \in Standing
    <2>1. a \in Standing
      BY <1>12, <1>16
    <2>2. row'[a] = row[a] /\ row[a] \in HireRow
      BY <1>8, <1>16, <2>1 DEF Standing, Blocking, Rows, RentalsInv, RentalsRows
    <2>3. QED
      BY <2>1, <2>2, RentalsAssumption DEF HireRow
  <1>17. input.first \in Int /\ input.last \in Int
    BY <1>5, RentalsAssumption DEF HireRow
  <1>18. ASSUME NEW a \in Standing', NEW other \in Standing', a # other
         PROVE  row'[a].first > row'[other].last \/ row'[a].last < row'[other].first
    <2>1. CASE a = b
      BY <1>15, <1>18, <2>1
    <2>2. CASE other = b
      BY <1>6, <1>15, <1>16, <1>17, <1>18, <2>2
    <2>3. CASE a # b /\ other # b
      BY <1>16, <1>18, <2>3 DEF RentalsInv, VehicleRentedOnce, Standing
    <2>4. QED
      BY <2>1, <2>2, <2>3
  <1>19. VehicleRentedOnce'
    BY <1>18 DEF VehicleRentedOnce, Standing
  <1>20. QED
    BY <1>9, <1>10, <1>14, <1>19 DEF RentalsInv

\* Whatever else is written, no booking stands up.
LEMMA RentalsDone ==
  ASSUME Hire \subseteq Rival \cap Watched, RentalsInv, NEW c \in Call, NEW q \in RentalsQueries,
         q.do = "write", Done(c, q), q \notin HireCreating
  PROVE  RentalsInv'
  <1>1. row' = [i \in Id |-> IF i \in DOMAIN q.on THEN Applied(q.on[i], row[i]) ELSE row[i]]
        /\ \A i \in DOMAIN q.on : (q.on[i].saw = None) = (row[i] = None)
    BY DEF Done
  <1>2. DOMAIN row' = Id
    BY <1>1
  <1>3. todo' \in OneQuery(RentalsQueries) /\ todo'[c] = <<>> /\ \A d \in Call \ {c} : todo'[d] = todo[d]
    BY OneQueryEnds DEF Done, RentalsInv
  <1>4. crowded \subseteq crowded' /\ raced \subseteq raced'
    BY DEF Done
  <1>5. ASSUME NEW d \in Call, NEW a \in Hire, NEW other \in HireInput, todo'[d] = <<HireCreation(a, other)>>
        PROVE  a \in crowded'
    <2>1. d # c
      BY <1>3, <1>5
    <2>2. todo[d] = <<HireCreation(a, other)>>
      BY <1>3, <1>5, <2>1
    <2>3. QED
      BY <2>1, <2>2, HireCrowded
  <1>6. ASSUME RentalsRows(row'),
               \A b \in Standing' : b \in Standing /\ row'[b].first = row[b].first /\ row'[b].last = row[b].last
        PROVE  RentalsInv'
    BY <1>2, <1>3, <1>5, <1>6, NoneStandsUp
  <1>7. CASE /\ DOMAIN q.on = {Rental}
             /\ q.on[Rental].put \in RentalRow /\ q.on[Rental].inc = NoField
    <2>1. \A b \in Hire : row'[b] = row[b]
      BY <1>1, <1>7, RentalsAssumption
    <2>2. row'[Rental] \in RentalRow
      <3> DEFINE w == q.on[Rental]
      <3>1. row'[Rental] = Applied(w, row[Rental]) /\ w.put # None
        BY <1>1, <1>7, RentalsAssumption
      <3>2. CASE row[Rental] = None
        BY <1>7, <3>1, <3>2 DEF Applied
      <3>3. CASE row[Rental] # None
        <4>1. row[Rental] \in RentalRow
          BY <3>3 DEF RentalsInv, RentalsRows
        <4>2. row'[Rental] = [f \in DOMAIN row[Rental] |-> IF f \in DOMAIN w.put THEN w.put[f]
                  ELSE IF f \in DOMAIN w.inc THEN row[Rental][f] + w.inc[f] ELSE row[Rental][f]]
          BY <3>1, <3>3 DEF Applied
        <4>3. row'[Rental] = [available |-> w.put.available]
          BY <1>7, <4>1, <4>2 DEF RentalRow
        <4>4. QED
          BY <1>7, <4>3 DEF RentalRow
      <3>4. QED
        BY <3>2, <3>3
    <2>3. RentalsRows(row')
      BY <2>1, <2>2 DEF RentalsInv, RentalsRows
    <2>4. \A b \in Standing' : b \in Standing /\ row'[b].first = row[b].first /\ row'[b].last = row[b].last
      BY <1>4, <2>1 DEF Standing, Blocking, Rows
    <2>5. QED
      BY <1>6, <2>3, <2>4
  <1>8. ASSUME NEW b \in Hire, NEW edit \in HireEdit \cup [status : HireStatus], NEW old \in HireRow \cup {Unseen},
               DOMAIN q.on = {b}, q.on[b] = [saw |-> old, put |-> edit, inc |-> NoField],
               \/ old = Unseen
               \/ /\ edit \in [status : HireStatus]
                  /\ edit.status \in {"CANCELLED", "COMPLETED"} \/ old.status \notin {"CANCELLED", "COMPLETED"}
        PROVE  RentalsInv'
    <2>1. \A a \in (Hire \cup {Rental}) \ {b} : row'[a] = row[a]
      BY <1>1, <1>8, RentalsAssumption
    <2>2. row[b] # None /\ row[b] \in HireRow
      BY <1>1, <1>8, UnseenAssumption, RentalsAssumption DEF RentalsInv, RentalsRows
    <2>3. row'[b] = Applied([saw |-> old, put |-> edit, inc |-> NoField], row[b])
      BY <1>1, <1>8, RentalsAssumption
    <2>4. /\ row'[b] \in HireRow
          /\ edit = NoField => row'[b] = row[b]
          /\ edit \in [status : HireStatus] =>
               row'[b] = [first |-> row[b].first, last |-> row[b].last, status |-> edit.status]
      BY <2>2, <2>3, EditedHire
    <2>5. RentalsRows(row')
      BY <2>1, <2>4, RentalsAssumption DEF RentalsInv, RentalsRows
    <2>6. b \notin raced' => old = row[b] \/ (old = Unseen /\ edit = NoField)
      BY <1>8, RentalsAssumption DEF Done
    <2>7. ASSUME NEW a \in Standing'
          PROVE  a \in Standing /\ row'[a].first = row[a].first /\ row'[a].last = row[a].last
      <3>1. CASE a # b
        BY <1>4, <2>1, <3>1 DEF Standing, Blocking, Rows
      <3>2. CASE a = b /\ old = Unseen
        <4>1. row'[b] = row[b]
          BY <2>2, <2>4, <2>6, <3>2, RentalsAssumption DEF Standing
        <4>2. QED
          BY <1>4, <3>2, <4>1 DEF Standing, Blocking, Rows
      <3>3. CASE a = b /\ old # Unseen
        <4>1. old = row[b]
          BY <2>6, <3>3 DEF Standing
        <4>2. row'[b].first = row[b].first /\ row'[b].last = row[b].last /\ row'[b].status = edit.status
          BY <1>8, <2>4, <3>3
        <4>3. row'[b].status \notin {"CANCELLED", "COMPLETED"}
          BY <3>3 DEF Standing, Blocking
        <4>4. row[b].status \notin {"CANCELLED", "COMPLETED"}
          BY <1>8, <3>3, <4>1, <4>2, <4>3
        <4>5. QED
          BY <1>4, <2>2, <3>3, <4>2, <4>4 DEF Standing, Blocking, Rows
      <3>4. QED
        BY <3>1, <3>2, <3>3
    <2>8. QED
      BY <1>6, <2>5, <2>7
  <1>9. ASSUME NEW b \in Hire, NEW edit \in HireEdit \cup {[status |-> "CONFIRMED"]}, DOMAIN q.on = {b},
               q.on[b] = [saw |-> Unseen, put |-> edit, inc |-> NoField]
        PROVE  RentalsInv'
    <2>1. edit \in HireEdit \cup [status : HireStatus]
      BY DEF HireStatus
    <2>2. QED
      BY <1>8, <1>9, <2>1
  <1>10. ASSUME NEW b \in Hire, NEW v \in HireMove, DOMAIN q.on = {b},
                q.on[b] = [saw |-> v.was, put |-> [status |-> v.status], inc |-> NoField]
         PROVE  RentalsInv'
    <2> DEFINE edit == [status |-> v.status]
    <2>1. edit \in [status : HireStatus] /\ edit.status = v.status /\ v.was \in HireRow
      BY DEF HireMove
    <2>2. edit.status \in {"CANCELLED", "COMPLETED"} \/ v.was.status \notin {"CANCELLED", "COMPLETED"}
      BY <2>1 DEF HireMove
    <2> HIDE DEF edit
    <2>3. q.on[b] = [saw |-> v.was, put |-> edit, inc |-> NoField]
      BY <1>10 DEF edit
    <2>4. QED
      BY <1>8, <1>10, <2>1, <2>2, <2>3
  <1>11. QED
    BY <1>7, <1>9, <1>10, RentalsQueryParts

LEMMA RentalsInvariance ==
  ASSUME Hire \subseteq Rival \cap Watched
  PROVE  RentalsSpec => []RentalsInv
  <1>1. CallsInit(NoField) => RentalsInv
    <2> SUFFICES ASSUME CallsInit(NoField) PROVE RentalsInv
      OBVIOUS
    <2>1. row = [i \in Id |-> None] /\ todo = [c \in Call |-> <<>>]
      BY DEF CallsInit, NoField
    <2>2. DOMAIN row = Id /\ RentalsRows(row) /\ Blocking = {}
      BY <2>1, RentalsAssumption DEF RentalsRows, Blocking, Rows
    <2>3. todo \in OneQuery(RentalsQueries)
      BY <2>1 DEF OneQuery
    <2>4. ClearInv /\ VehicleRentedOnce
      BY <2>2 DEF ClearInv, Standing, VehicleRentedOnce
    <2>5. QED
      BY <2>2, <2>3, <2>4 DEF RentalsInv
  <1>2. RentalsInv /\ [(\E c \in Call : RentalsNext(c) \/ Step(c)) \/ Restart]_vars => RentalsInv'
    <2> SUFFICES ASSUME RentalsInv, [(\E c \in Call : RentalsNext(c) \/ Step(c)) \/ Restart]_vars
                 PROVE  RentalsInv'
      OBVIOUS
    <2>1. ASSUME NEW c \in Call, RentalsNext(c) PROVE RentalsInv'
      BY <2>1, CreateHireDecides, DropRentalStep, RentalsMethod
    <2>2. CASE [(\E c \in Call : Step(c)) \/ Restart]_vars
      <3>1. /\ todo' \in OneQuery(RentalsQueries)
            /\ Quiet \/ \E c \in Call, q \in RentalsQueries : q.do = "write" /\ Done(c, q)
        BY <2>2, OneQueryDone DEF RentalsInv
      <3>2. QED
        BY <3>1, RentalsQuiet, CreateHireDone, RentalsDone
    <2>3. QED
      BY <2>1, <2>2
  <1>3. QED
    BY <1>1, <1>2, PTL DEF RentalsSpec

-------------------------------------------------------------------------------
\* The vehicle and its bookings have the values their columns take, whatever clients edit.
THEOREM RentalsTypeCorrect ==
  ASSUME Hire \subseteq Rival \cap Watched
  PROVE  RentalsSpec => []RentalsRows(row)
  <1>1. RentalsInv => RentalsRows(row)
    BY DEF RentalsInv
  <1>2. QED
    BY <1>1, RentalsInvariance, PTL

\* The check for overlapping bookings, in another query than the insert, keeps the bookings apart
\* that no other call came between and no client edited.
THEOREM RentedOnce ==
  ASSUME Hire \subseteq Rival \cap Watched
  PROVE  RentalsSpec => []VehicleRentedOnce
  <1>1. RentalsInv => VehicleRentedOnce
    BY DEF RentalsInv
  <1>2. QED
    BY <1>1, RentalsInvariance, PTL

-------------------------------------------------------------------------------
(***************************************************************************)
(* Tours. A pending booking was decided when the participants fitted, and  *)
(* whatever booking came in between is among those the call could not have *)
(* read. What fitted then is the sum over the bookings on which no call    *)
(* raced, so the proof needs facts about sums: see Calls_proofs.           *)
(***************************************************************************)

\* The queries of the methods, each with what made the call decide.
SeatsCreation(b, input) == Both(Insert(b, input), Exists(Tour))

SeatsCreating == {SeatsCreation(b, input) : b \in Seats, input \in SeatsInput}

\* Participants or a status as a client likes.
SeatsEditing == {Overwrite(b, edit) : b \in Seats, edit \in SeatsEdit \cup {[status |-> "CONFIRMED"]}}

SeatsCancelling == {Write(b, was, [status |-> "CANCELLED"], NoField) : b \in Seats, was \in SeatsRow}

TourWriting == {Write(Tour, old, input, NoField) : old \in {None, Unseen}, input \in TourInput}

ToursQueries ==
  SeatsCreating \cup SeatsEditing \cup SeatsCancelling \cup TourWriting \cup {Then("drop tour", Tour)}

Seated == Rows(Seats) \ (crowded \cup raced)

\* What a call is about to insert had room when it looked, and still has if no other call wrote.
RoomInv ==
  \A c \in Call, b \in Seats, input \in SeatsInput :
    todo[c] = <<SeatsCreation(b, input)>> =>
      b \in crowded \/ (row[Tour] # None /\ HasRoom(input.participants))

ToursInv ==
  /\ DOMAIN row = Id /\ ToursRows(row)
  /\ todo \in OneQuery(ToursQueries)
  /\ RoomInv
  /\ row[Tour] = None => Rows(Seats) = {}
  /\ ToursFit

-------------------------------------------------------------------------------
LEMMA SeatsCreationParts ==
  ASSUME NEW b \in Seats, NEW input \in SeatsInput, NEW q, q = SeatsCreation(b, input)
  PROVE  /\ q.do = "write" /\ DOMAIN q.on = {b, Tour}
         /\ q.on[b] = [saw |-> None, put |-> input, inc |-> NoField]
         /\ q.on[Tour] = [saw |-> Unseen, put |-> NoField, inc |-> NoField]
         /\ Inserting(<<q>>) = {b}
  <1> DEFINE first == Insert(b, input)
  <1>1. DOMAIN first.on = {b} /\ first.on[b] = [saw |-> None, put |-> input, inc |-> NoField]
    BY DEF Insert, Write
  <1>2. q = Both(first, Write(Tour, Unseen, NoField, NoField)) /\ Tour \notin DOMAIN first.on
    BY <1>1, ToursAssumption DEF SeatsCreation, Exists, Add
  <1>3. /\ q.do = "write" /\ DOMAIN q.on = {b, Tour}
        /\ q.on[b] = [saw |-> None, put |-> input, inc |-> NoField]
        /\ q.on[Tour] = [saw |-> Unseen, put |-> NoField, inc |-> NoField]
    BY <1>1, <1>2, BothParts
  <1>4. Inserting(<<q>>) = {i \in Id : q.do = "write" /\ i \in DOMAIN q.on /\ q.on[i].saw = None}
    BY InsertingOf
  <1>5. Inserting(<<q>>) = {b}
    BY <1>3, <1>4, UnseenAssumption, ToursAssumption
  <1>6. QED
    BY <1>3, <1>5

\* A query that writes no booking from nothing inserts none.
LEMMA InsertsNoSeats ==
  ASSUME NEW q, q.do # "write" \/ \A b \in Seats : b \in DOMAIN q.on => q.on[b].saw # None
  PROVE  q \notin SeatsCreating /\ \A b \in Seats : b \notin Inserting(<<q>>)
  <1>1. \A b \in Seats : b \notin Inserting(<<q>>)
    BY InsertingOf
  <1>2. ASSUME NEW b \in Seats, NEW input \in SeatsInput, q = SeatsCreation(b, input) PROVE FALSE
    <2>1. Inserting(<<q>>) = {b}
      BY <1>2, SeatsCreationParts
    <2>2. QED
      BY <1>1, <2>1
  <1>3. QED
    BY <1>1, <1>2 DEF SeatsCreating

\* Bookings that other calls are about to insert are crowded by what is done.
LEMMA SeatsCrowded ==
  ASSUME Seats \subseteq Rival, NEW c \in Call, NEW q, Done(c, q), NEW d \in Call \ {c},
         NEW b \in Seats, NEW input \in SeatsInput, todo[d] = <<SeatsCreation(b, input)>>
  PROVE  b \in crowded'
  <1> DEFINE p == SeatsCreation(b, input)
  <1>1. p.do = "write" /\ DOMAIN p.on = {b, Tour} /\ p.on[b] = [saw |-> None, put |-> input, inc |-> NoField]
    BY SeatsCreationParts
  <1>2. b \in Id \cap Rival /\ todo[d] = <<p>>
    BY ToursAssumption
  <1> HIDE DEF p
  <1>3. p.on[b].saw = None /\ b \in DOMAIN p.on
    BY <1>1
  <1>4. QED
    BY <1>1, <1>2, <1>3, DoneCrowds

\* Other queries insert no booking, and write one record.
LEMMA ToursQueryParts ==
  ASSUME NEW q \in ToursQueries
  PROVE  \/ q \in SeatsCreating
         \/ q.do = "drop tour" /\ q.on = Tour
         \/ \E old \in {None, Unseen}, input \in TourInput :
              /\ q.do = "write" /\ DOMAIN q.on = {Tour}
              /\ q.on[Tour] = [saw |-> old, put |-> input, inc |-> NoField]
         \/ \E b \in Seats, edit \in SeatsEdit \cup {[status |-> "CONFIRMED"]} :
              /\ q.do = "write" /\ DOMAIN q.on = {b}
              /\ q.on[b] = [saw |-> Unseen, put |-> edit, inc |-> NoField]
         \/ \E b \in Seats, was \in SeatsRow :
              /\ q.do = "write" /\ DOMAIN q.on = {b}
              /\ q.on[b] = [saw |-> was, put |-> [status |-> "CANCELLED"], inc |-> NoField]
  <1>1. CASE q \in SeatsEditing
    <2>1. PICK b \in Seats, edit \in SeatsEdit \cup {[status |-> "CONFIRMED"]} : q = Overwrite(b, edit)
      BY <1>1 DEF SeatsEditing
    <2>2. /\ q.do = "write" /\ DOMAIN q.on = {b}
          /\ q.on[b] = [saw |-> Unseen, put |-> edit, inc |-> NoField]
      BY <2>1 DEF Overwrite, Write
    <2>3. QED
      BY <2>2
  <1>2. CASE q \in SeatsCancelling
    <2>1. PICK b \in Seats, was \in SeatsRow : q = Write(b, was, [status |-> "CANCELLED"], NoField)
      BY <1>2 DEF SeatsCancelling
    <2>2. /\ q.do = "write" /\ DOMAIN q.on = {b}
          /\ q.on[b] = [saw |-> was, put |-> [status |-> "CANCELLED"], inc |-> NoField]
      BY <2>1 DEF Write
    <2>3. QED
      BY <2>2
  <1>3. CASE q \in TourWriting
    <2>1. PICK old \in {None, Unseen}, input \in TourInput : q = Write(Tour, old, input, NoField)
      BY <1>3 DEF TourWriting
    <2>2. /\ q.do = "write" /\ DOMAIN q.on = {Tour}
          /\ q.on[Tour] = [saw |-> old, put |-> input, inc |-> NoField]
      BY <2>1 DEF Write
    <2>3. QED
      BY <2>2
  <1>4. CASE q = Then("drop tour", Tour)
    <2>1. q.do = "drop tour" /\ q.on = Tour
      BY <1>4, ThenParts
    <2>2. QED
      BY <2>1
  <1>5. QED
    BY <1>1, <1>2, <1>3, <1>4 DEF ToursQueries

\* A booking after an update is a booking still, with the status that is written if any is.
LEMMA EditedSeats ==
  ASSUME NEW r \in SeatsRow, NEW edit \in SeatsEdit \cup [status : SeatsStatus], NEW old
  PROVE  LET s == Applied([saw |-> old, put |-> edit, inc |-> NoField], r)
         IN /\ s \in SeatsRow
            /\ edit = NoField => s = r
            /\ edit \in [status : SeatsStatus] => s = [participants |-> r.participants, status |-> edit.status]
  <1> DEFINE s == Applied([saw |-> old, put |-> edit, inc |-> NoField], r)
  <1>1. /\ "participants" \in DOMAIN edit => edit["participants"] \in Capacity
        /\ "status" \in DOMAIN edit => edit["status"] \in SeatsStatus
    <2>1. CASE edit \in SeatsEdit
      <3>1. PICK fields \in SeatsFields : edit = Given(fields)
        BY <2>1, EditAssumption
      <3>2. \A g \in DOMAIN edit : edit[g] = fields[g] /\ fields[g] # None
        BY <3>1, GivenIs
      <3>3. QED
        BY <3>2 DEF SeatsFields
    <2>2. CASE edit \in [status : SeatsStatus]
      BY <2>2
    <2>3. QED
      BY <2>1, <2>2
  <1>2. edit # None /\ r # None
    BY ToursAssumption
  <1>3. s = [f \in DOMAIN r |-> IF f \in DOMAIN edit THEN edit[f] ELSE r[f]]
    BY <1>2, AppliedIs
  <1>4. DOMAIN r = {"participants", "status"} /\ r = [participants |-> r.participants, status |-> r.status]
        /\ r.participants \in Capacity /\ r.status \in SeatsStatus
    BY DEF SeatsRow
  <1>5. s = [participants |-> s.participants, status |-> s.status]
    BY <1>3, <1>4
  <1>6. s.participants \in Capacity /\ s.status \in SeatsStatus
    BY <1>1, <1>3, <1>4
  <1>7. s \in SeatsRow
    BY <1>5, <1>6 DEF SeatsRow
  <1>8. ASSUME edit = NoField PROVE s = r
    <2>1. DOMAIN edit = {}
      BY <1>8 DEF NoField
    <2>2. s.participants = r.participants /\ s.status = r.status
      BY <1>3, <1>4, <2>1
    <2>3. QED
      BY <1>4, <1>5, <2>2
  <1>9. ASSUME edit \in [status : SeatsStatus]
        PROVE  s = [participants |-> r.participants, status |-> edit.status]
    <2>1. DOMAIN edit = {"status"}
      BY <1>9
    <2>2. s.participants = r.participants /\ s.status = edit.status
      BY <1>3, <1>4, <2>1
    <2>3. QED
      BY <1>5, <2>2
  <1>10. QED
    BY <1>7, <1>8, <1>9

LEMMA PlacesAreNat ==
  ASSUME ToursRows(row)
  PROVE  Places \in [Seats -> Nat]
  BY ToursAssumption DEF ToursRows, SeatsRow, Places

-------------------------------------------------------------------------------
\* As long as bookings are left out, stay as they are or take fewer places, and the tour stays as it
\* is or has no bookings at all, those who booked still fit.
LEMMA NobodySitsDown ==
  ASSUME ToursInv, DOMAIN row' = Id, ToursRows(row'), todo' \in OneQuery(ToursQueries), RoomInv',
         row'[Tour] = None => Rows(Seats)' = {},
         row'[Tour] # None /\ Tour \notin raced' =>
           \/ Rows(Seats)' = {}
           \/ /\ row'[Tour] = row[Tour] /\ Tour \notin raced
              /\ \A b \in Seated' : b \in Seated /\ Places'[b] <= Places[b]
  PROVE  ToursInv'
  <1>0. Places' \in [Seats -> Nat]
    BY ToursAssumption DEF ToursRows, SeatsRow, Places
  <1>1. Places \in [Seats -> Nat] /\ Places' \in [Seats -> Nat]
    BY <1>0, PlacesAreNat DEF ToursInv
  <1>2. Seated \subseteq Seats /\ Seated' \subseteq Seats /\ IsFiniteSet(Seats)
    BY ToursAssumption DEF Seated, Rows
  <1>3. IsFiniteSet(Seated) /\ IsFiniteSet(Seated')
    BY <1>2, FS_Subset
  <1>4. ASSUME row'[Tour] # None, Tour \notin raced' PROVE SumFunctionOnSet(Places', Seated') <= row'[Tour].capacity
    <2>1. CASE Rows(Seats)' = {}
      <3>1. Seated' = {}
        BY <2>1 DEF Seated
      <3>2. SumFunctionOnSet(Places', Seated') = 0
        BY <1>3, <3>1, SumUnfolds
      <3>3. row'[Tour].capacity \in Nat
        BY <1>4, ToursAssumption DEF ToursRows
      <3>4. QED
        BY <3>2, <3>3
    <2>2. CASE /\ row'[Tour] = row[Tour] /\ Tour \notin raced
               /\ \A b \in Seated' : b \in Seated /\ Places'[b] <= Places[b]
      <3>1. SumFunctionOnSet(Places', Seated') <= SumFunctionOnSet(Places, Seated')
        BY <1>1, <1>2, <1>3, <2>2, SumIsNoLess
      <3>2. SumFunctionOnSet(Places, Seated') <= SumFunctionOnSet(Places, Seated)
        BY <1>1, <1>2, <1>3, <2>2, SumOfFewer
      <3>3. SumFunctionOnSet(Places, Seated) <= row[Tour].capacity /\ row[Tour].capacity \in Nat
        BY <1>4, <2>2, ToursAssumption DEF ToursInv, ToursFit, Taken, Seated, ToursRows
      <3>4. /\ SumFunctionOnSet(Places', Seated') \in Nat /\ SumFunctionOnSet(Places, Seated') \in Nat
            /\ SumFunctionOnSet(Places, Seated) \in Nat
        BY <1>1, <1>2, <1>3, SumIsNat
      <3>5. QED
        BY <2>2, <3>1, <3>2, <3>3, <3>4
    <2>3. QED
      BY <1>4, <2>1, <2>2
  <1>5. ToursFit'
    BY <1>4 DEF ToursFit, Taken, Seated
  <1>6. QED
    BY <1>5 DEF ToursInv

LEMMA ToursQuiet ==
  ASSUME ToursInv, Quiet, todo' \in OneQuery(ToursQueries)
  PROVE  ToursInv'
  <1>1. DOMAIN row' = Id /\ ToursRows(row') /\ Places' = Places /\ Rows(Seats)' = Rows(Seats) /\ Seated' = Seated
    BY DEF Quiet, ToursInv, Places, Rows, Seated
  <1>2. ASSUME NEW c \in Call, NEW b \in Seats, NEW input \in SeatsInput, todo'[c] = <<SeatsCreation(b, input)>>
        PROVE  b \in crowded' \/ (row'[Tour] # None /\ HasRoom(input.participants)')
    <2> DEFINE q == SeatsCreation(b, input)
    <2>0. <<q>> # <<>>
      OBVIOUS
    <2> HIDE DEF q
    <2>1. todo[c] = <<q>>
      BY <1>2, <2>0 DEF Quiet, q
    <2>2. QED
      BY <1>1, <2>1 DEF ToursInv, RoomInv, Quiet, HasRoom, Taken, q
  <1>3. RoomInv'
    BY <1>2 DEF RoomInv
  <1>4. Places \in [Seats -> Nat] /\ Seated \subseteq Seats
    BY PlacesAreNat DEF ToursInv, Seated, Rows
  <1>5. \A b \in Seated : Places[b] <= Places[b]
    BY <1>4
  <1>6. QED
    BY <1>1, <1>3, <1>5, NobodySitsDown DEF Quiet, ToursInv

\* A call that starts, with a booking for which there is room or with something else.
LEMMA ToursDecide ==
  ASSUME ToursInv, NEW c \in Call, NEW q \in ToursQueries, Decide(c, <<q>>),
         \A b \in Seats, input \in SeatsInput :
           q = SeatsCreation(b, input) => row[Tour] # None /\ HasRoom(input.participants),
         \A d \in Call, b \in Seats, input \in SeatsInput :
           todo[d] = <<SeatsCreation(b, input)>> => b \notin Inserting(<<q>>)
  PROVE  ToursInv'
  <1>1. todo' \in OneQuery(ToursQueries) /\ todo'[c] = <<q>> /\ \A d \in Call \ {c} : todo'[d] = todo[d]
    BY OneQueryDecided DEF ToursInv
  <1>2. row' = row
    BY DecideParts
  <1>3. \A i : row[i] # None \/ i \notin Inserting(<<q>>) =>
          (i \in raced' <=> i \in raced) /\ (i \in crowded' <=> i \in crowded)
    BY DecideParts
  <1>4. DOMAIN row' = Id /\ ToursRows(row') /\ Places' = Places /\ Rows(Seats)' = Rows(Seats)
    BY <1>2 DEF ToursInv, Places, Rows
  <1>5. Seated' = Seated
    BY <1>3, <1>4 DEF Seated, Rows
  <1>6. ASSUME NEW d \in Call, NEW b \in Seats, NEW input \in SeatsInput, todo'[d] = <<SeatsCreation(b, input)>>
        PROVE  b \in crowded' \/ (row'[Tour] # None /\ HasRoom(input.participants)')
    <2>1. HasRoom(input.participants)' = HasRoom(input.participants)
      BY <1>2, <1>4 DEF HasRoom, Taken
    <2>2. CASE d = c
      <3>1. q = SeatsCreation(b, input)
        BY <1>1, <1>6, <2>2
      <3>2. QED
        BY <1>2, <2>1, <3>1
    <2>3. CASE d # c
      <3>1. todo[d] = <<SeatsCreation(b, input)>>
        BY <1>1, <1>6, <2>3
      <3>2. b \in crowded' <=> b \in crowded
        BY <1>3, <3>1
      <3>3. QED
        BY <1>2, <2>1, <3>1, <3>2 DEF ToursInv, RoomInv
    <2>4. QED
      BY <2>2, <2>3
  <1>7. RoomInv'
    BY <1>6 DEF RoomInv
  <1>8. Places \in [Seats -> Nat] /\ Seated \subseteq Seats
    BY PlacesAreNat DEF ToursInv, Seated, Rows
  <1>9. \A b \in Seated : Places[b] <= Places[b]
    BY <1>8
  <1>10. row'[Tour] # None /\ Tour \notin raced' => Tour \notin raced
    BY <1>2, <1>3
  <1>11. QED
    BY <1>1, <1>2, <1>4, <1>5, <1>7, <1>9, <1>10, NobodySitsDown DEF ToursInv

LEMMA BookTourDecides ==
  ASSUME ToursInv, NEW c \in Call, BookTour(c)
  PROVE  ToursInv'
  <1>1. PICK b \in Unused(Seats), input \in SeatsInput :
          /\ row[Tour] # None /\ HasRoom(input.participants)
          /\ Decide(c, <<SeatsCreation(b, input)>>)
    BY DEF BookTour, SeatsCreation
  <1> DEFINE q == SeatsCreation(b, input)
  <1>2. b \in Seats /\ row[b] = None
    BY DEF Unused
  <1>3. q \in ToursQueries
    <2>1. q \in SeatsCreating
      BY <1>2 DEF SeatsCreating
    <2>2. QED
      BY <2>1 DEF ToursQueries
  <1>4. q = SeatsCreation(b, input)
    OBVIOUS
  <1> HIDE DEF q
  <1>5. /\ DOMAIN q.on = {b, Tour} /\ q.on[b] = [saw |-> None, put |-> input, inc |-> NoField]
        /\ Inserting(<<q>>) = {b}
    BY <1>2, <1>4, SeatsCreationParts
  <1>6. ASSUME NEW a \in Seats, NEW other \in SeatsInput, q = SeatsCreation(a, other)
        PROVE  other = input
    <2>1. DOMAIN q.on = {a, Tour} /\ q.on[a] = [saw |-> None, put |-> other, inc |-> NoField]
      BY <1>6, SeatsCreationParts
    <2>2. a = b
      BY <1>2, <1>5, <2>1, ToursAssumption
    <2>3. QED
      BY <1>5, <2>1, <2>2
  <1>7. ASSUME NEW d \in Call, NEW a \in Seats, NEW other \in SeatsInput, todo[d] = <<SeatsCreation(a, other)>>
        PROVE  a \notin Inserting(<<q>>)
    <2> DEFINE p == SeatsCreation(a, other)
    <2>0. p = SeatsCreation(a, other) /\ todo[d] = <<p>>
      BY <1>7
    <2> HIDE DEF p
    <2>1. p.do = "write" /\ DOMAIN p.on = {a, Tour}
      BY <2>0, SeatsCreationParts
    <2>2. b \notin DOMAIN p.on
      BY <2>0, <2>1, UnusedIsFree
    <2>3. QED
      BY <1>5, <2>1, <2>2
  <1>8. Decide(c, <<q>>)
    BY <1>1, <1>4
  <1>9. \A a \in Seats, other \in SeatsInput :
          q = SeatsCreation(a, other) => row[Tour] # None /\ HasRoom(other.participants)
    BY <1>1, <1>6
  <1>10. QED
    BY <1>3, <1>7, <1>8, <1>9, ToursDecide

\* Other methods look at a record and change it later.
LEMMA ToursMethod ==
  ASSUME ToursInv, NEW c \in Call, ToursNext(c), ~BookTour(c), ~DropTour(c)
  PROVE  ToursInv'
  <1>1. ASSUME NEW q \in ToursQueries, Decide(c, <<q>>),
               q.do # "write" \/ \A b \in Seats : b \in DOMAIN q.on => q.on[b].saw # None
        PROVE  ToursInv'
    <2>1. q \notin SeatsCreating /\ \A b \in Seats : b \notin Inserting(<<q>>)
      BY <1>1, InsertsNoSeats
    <2>2. \A b \in Seats, input \in SeatsInput : q # SeatsCreation(b, input)
      BY <2>1 DEF SeatsCreating
    <2>3. QED
      BY <1>1, <2>1, <2>2, ToursDecide
  <1>2. ASSUME NEW old \in {None, Unseen}, NEW input \in TourInput, Decide(c, <<Write(Tour, old, input, NoField)>>)
        PROVE  ToursInv'
    <2> DEFINE q == Write(Tour, old, input, NoField)
    <2>1. q \in ToursQueries
      <3>1. q \in TourWriting
        BY DEF TourWriting
      <3>2. QED
        BY <3>1 DEF ToursQueries
    <2>2. DOMAIN q.on = {Tour}
      BY WriteParts
    <2> HIDE DEF q
    <2>3. \A b \in Seats : b \notin DOMAIN q.on
      BY <2>2, ToursAssumption
    <2>4. Decide(c, <<q>>)
      BY <1>2 DEF q
    <2>5. QED
      BY <1>1, <2>1, <2>3, <2>4
  <1>3. ASSUME NEW b \in Seats, NEW edit \in SeatsEdit \cup {[status |-> "CONFIRMED"]},
               Decide(c, <<Overwrite(b, edit)>>)
        PROVE  ToursInv'
    <2> DEFINE q == Overwrite(b, edit)
    <2>1. q \in ToursQueries
      <3>1. q \in SeatsEditing
        BY DEF SeatsEditing
      <3>2. QED
        BY <3>1 DEF ToursQueries
    <2>2. DOMAIN q.on = {b} /\ q.on[b].saw = Unseen
      BY WriteParts DEF Overwrite
    <2> HIDE DEF q
    <2>3. \A a \in Seats : a \in DOMAIN q.on => q.on[a].saw # None
      BY <2>2, UnseenAssumption
    <2>4. Decide(c, <<q>>)
      BY <1>3 DEF q
    <2>5. QED
      BY <1>1, <2>1, <2>3, <2>4
  <1>4. CASE CreateTour(c)
    <2>1. PICK input \in TourInput : Decide(c, <<Insert(Tour, input)>>)
      BY <1>4 DEF CreateTour
    <2>2. QED
      BY <1>2, <2>1 DEF Insert
  <1>5. CASE UpdateTour(c)
    <2>1. PICK input \in TourInput : Decide(c, <<Overwrite(Tour, input)>>)
      BY <1>5 DEF UpdateTour
    <2>2. QED
      BY <1>2, <2>1 DEF Overwrite
  <1>6. CASE DeleteTour(c)
    <2> DEFINE q == Then("drop tour", Tour)
    <2>1. q \in ToursQueries
      BY DEF ToursQueries
    <2>2. q.do = "drop tour"
      BY ThenParts
    <2> HIDE DEF q
    <2>3. Decide(c, <<q>>)
      BY <1>6 DEF DeleteTour, q
    <2>4. QED
      BY <1>1, <2>1, <2>2, <2>3
  <1>7. CASE UpdateTourBooking(c)
    BY <1>3, <1>7 DEF UpdateTourBooking, Rows
  <1>8. CASE ConfirmTourBooking(c)
    <2>1. PICK b \in Rows(Seats) : Decide(c, <<Overwrite(b, [status |-> "CONFIRMED"])>>)
      BY <1>8 DEF ConfirmTourBooking
    <2>2. b \in Seats
      BY DEF Rows
    <2>3. QED
      BY <1>3, <2>1, <2>2
  <1>9. CASE CancelTourBooking(c)
    <2>1. PICK b \in Rows(Seats) : Decide(c, <<Put(b, [status |-> "CANCELLED"])>>)
      BY <1>9 DEF CancelTourBooking, ChangeBooking
    <2> DEFINE q == Put(b, [status |-> "CANCELLED"])
    <2>2. b \in Seats /\ row[b] # None /\ row[b] \in SeatsRow
      BY DEF Rows, ToursInv, ToursRows
    <2>3. q \in ToursQueries
      <3>1. q \in SeatsCancelling
        BY <2>2 DEF SeatsCancelling, Put
      <3>2. QED
        BY <3>1 DEF ToursQueries
    <2>4. DOMAIN q.on = {b} /\ q.on[b].saw = row[b]
      BY WriteParts DEF Put
    <2> HIDE DEF q
    <2>5. \A a \in Seats : a \in DOMAIN q.on => q.on[a].saw # None
      BY <2>2, <2>4
    <2>6. Decide(c, <<q>>)
      BY <2>1 DEF q
    <2>7. QED
      BY <1>1, <2>3, <2>5, <2>6
  <1>10. QED
    BY <1>4, <1>5, <1>6, <1>7, <1>8, <1>9 DEF ToursNext

\* A tour is dropped when it has no bookings; who is about to book it is crowded.
LEMMA DropTourStep ==
  ASSUME Seats \subseteq Rival, ToursInv, NEW c \in Call, DropTour(c)
  PROVE  ToursInv'
  <1>1. row' = [row EXCEPT ![Tour] = None] /\ Rows(Seats) = {} /\ ~Free(c) /\ At(c, "drop tour")
        /\ todo' = [todo EXCEPT ![c] = <<>> \o Tail(@)]
        /\ crowded' = (crowded \cup Crowding(c)) \ {i \in Inserting(<<>>) : row[i] = None}
    BY DEF DropTour, Perform, At, Afresh
  <1>2. todo' = [todo EXCEPT ![c] = <<>>]
    <2>1. Tail(todo[c]) = <<>>
      BY <1>1, QueryOf DEF ToursInv
    <2>2. <<>> \o <<>> = <<>>
      OBVIOUS
    <2>3. QED
      BY <1>1, <2>1, <2>2
  <1>3. todo' \in OneQuery(ToursQueries) /\ todo'[c] = <<>> /\ \A d \in Call \ {c} : todo'[d] = todo[d]
    BY <1>2, OneQueryEnds DEF ToursInv
  <1>4. DOMAIN row' = Id /\ ToursRows(row') /\ \A b \in Seats : row'[b] = row[b]
    BY <1>1, ToursAssumption DEF ToursInv, ToursRows
  <1>5. Rows(Seats)' = {}
    BY <1>1, <1>4 DEF Rows
  <1>6. Inserting(<<>>) = {}
    BY DEF Inserting, Writes
  <1>7. ASSUME NEW d \in Call, NEW b \in Seats, NEW input \in SeatsInput, todo'[d] = <<SeatsCreation(b, input)>>
        PROVE  b \in crowded'
    <2> DEFINE p == SeatsCreation(b, input)
    <2>1. p.do = "write" /\ DOMAIN p.on = {b, Tour} /\ p.on[b] = [saw |-> None, put |-> input, inc |-> NoField]
          /\ Inserting(<<p>>) = {b}
      BY SeatsCreationParts
    <2>2. <<p>> # <<>> /\ todo'[d] = <<p>>
      BY <1>7
    <2> HIDE DEF p
    <2>3. d # c /\ todo[d] = <<p>>
      BY <1>3, <2>2
    <2>4. b \in Crowding(c)
      BY <2>1, <2>3 DEF Crowding
    <2>5. QED
      BY <1>1, <1>6, <2>4
  <1>8. RoomInv'
    BY <1>7 DEF RoomInv
  <1>9. QED
    BY <1>3, <1>4, <1>5, <1>8, NobodySitsDown

-------------------------------------------------------------------------------
\* Whatever is written, who is about to book is crowded by it.
LEMMA DoneCrowdsSeats ==
  ASSUME Seats \subseteq Rival, ToursInv, NEW c \in Call, NEW q \in ToursQueries, Done(c, q)
  PROVE  todo' \in OneQuery(ToursQueries) /\ RoomInv'
  <1>1. todo' \in OneQuery(ToursQueries) /\ todo'[c] = <<>> /\ \A d \in Call \ {c} : todo'[d] = todo[d]
    BY OneQueryEnds DEF Done, ToursInv
  <1>2. ASSUME NEW d \in Call, NEW b \in Seats, NEW input \in SeatsInput, todo'[d] = <<SeatsCreation(b, input)>>
        PROVE  b \in crowded'
    <2>1. <<SeatsCreation(b, input)>> # <<>>
      OBVIOUS
    <2>2. d # c
      BY <1>1, <1>2, <2>1
    <2>3. todo[d] = <<SeatsCreation(b, input)>>
      BY <1>1, <1>2, <2>2
    <2>4. QED
      BY <2>2, <2>3, SeatsCrowded
  <1>3. QED
    BY <1>1, <1>2 DEF RoomInv

\* A booking is made: there is room for it, or it is crowded.
LEMMA BookTourDone ==
  ASSUME Seats \subseteq Rival, ToursInv, NEW c \in Call, NEW q \in SeatsCreating, q \in ToursQueries, Done(c, q)
  PROVE  ToursInv'
  <1>1. PICK b \in Seats, input \in SeatsInput : q = SeatsCreation(b, input)
    BY DEF SeatsCreating
  <1>a. DOMAIN q.on = {b, Tour} /\ q.on[b] = [saw |-> None, put |-> input, inc |-> NoField]
    BY <1>1, SeatsCreationParts
  <1>b. q.on[Tour] = [saw |-> Unseen, put |-> NoField, inc |-> NoField]
    BY <1>1, SeatsCreationParts
  <1>2. /\ DOMAIN q.on = {b, Tour}
        /\ q.on[b] = [saw |-> None, put |-> input, inc |-> NoField]
        /\ q.on[Tour] = [saw |-> Unseen, put |-> NoField, inc |-> NoField]
    BY <1>a, <1>b
  <1>3. row[b] = None /\ row[Tour] # None
    BY <1>2, UnseenAssumption, ToursAssumption DEF Done
  <1>4. row' = [i \in Id |-> IF i \in DOMAIN q.on THEN Applied(q.on[i], row[i]) ELSE row[i]]
    BY DEF Done
  <1>5. input \in SeatsRow /\ input.participants \in Nat /\ input.status = "PENDING"
    BY ToursAssumption DEF SeatsInput, SeatsRow, SeatsStatus
  <1>6. row'[b] = input /\ input # None
    BY <1>2, <1>3, <1>4, <1>5, ToursAssumption DEF Applied
  <1>7. row'[Tour] = row[Tour]
    <2>1. row[Tour] \in [capacity : Capacity]
      BY <1>3 DEF ToursInv, ToursRows
    <2>2. row'[Tour] = [f \in DOMAIN row[Tour] |-> IF f \in DOMAIN NoField THEN NoField[f] ELSE row[Tour][f]]
      BY <1>2, <1>3, <1>4, AppliedIs, ToursAssumption
    <2>3. DOMAIN NoField = {}
      BY DEF NoField
    <2>4. QED
      BY <2>1, <2>2, <2>3
  <1>8. \A a \in Seats \ {b} : row'[a] = row[a]
    BY <1>2, <1>4, ToursAssumption
  <1>9. DOMAIN row' = Id /\ ToursRows(row')
    BY <1>4, <1>5, <1>6, <1>7, <1>8 DEF ToursInv, ToursRows
  <1>10. todo' \in OneQuery(ToursQueries) /\ RoomInv'
    BY DoneCrowdsSeats
  <1>11. crowded \subseteq crowded' /\ raced \subseteq raced' /\ (Tour \notin raced' => Tour \notin raced)
    BY DEF Done
  <1>12. \A a \in Seated' \ {b} : a \in Seated
    BY <1>8, <1>11 DEF Seated, Rows
  <1>13. Places \in [Seats -> Nat]
    BY PlacesAreNat DEF ToursInv
  <1>14. Places' \in [Seats -> Nat] /\ Places'[b] = input.participants /\ \A a \in Seats \ {b} : Places'[a] = Places[a]
    <2>1. Places' \in [Seats -> Nat]
      BY <1>9, ToursAssumption DEF ToursRows, SeatsRow, Places
    <2>2. QED
      BY <1>5, <1>6, <1>8, <2>1 DEF Places
  <1>15. CASE b \notin Seated'
    <2>1. \A a \in Seated' : a \in Seated /\ Places'[a] <= Places[a]
      BY <1>12, <1>13, <1>14, <1>15 DEF Seated, Rows
    <2>2. QED
      BY <1>3, <1>7, <1>9, <1>10, <1>11, <2>1, NobodySitsDown
  <1>16. CASE b \in Seated'
    <2> DEFINE all == Rows(Seats)
               others == Seated' \ {b}
    <2>1. IsFiniteSet(all) /\ IsFiniteSet(others) /\ IsFiniteSet(Seated')
          /\ all \subseteq Seats /\ others \subseteq Seats /\ Seated' \subseteq Seats /\ others \subseteq all
      <3>1. all \subseteq Seats /\ others \subseteq Seats /\ Seated' \subseteq Seats /\ others \subseteq all
        BY <1>12 DEF Seated, Rows
      <3>2. QED
        BY <3>1, ToursAssumption, FS_Subset
    <2>2. HasRoom(input.participants)
      <3>1. b \notin crowded /\ todo[c] = <<SeatsCreation(b, input)>>
        BY <1>1, <1>11, <1>16 DEF Seated, Done
      <3>2. QED
        BY <3>1 DEF ToursInv, RoomInv
    <2>3. SumFunctionOnSet(Places, all) + input.participants <= row[Tour].capacity
      BY <2>2 DEF HasRoom, Taken
    <2> HIDE DEF all, others
    <2>4. SumFunctionOnSet(Places', Seated') = Places'[b] + SumFunctionOnSet(Places', others)
      BY <1>14, <1>16, <2>1, SumWithout DEF others
    <2>5. SumFunctionOnSet(Places', others) = SumFunctionOnSet(Places, others)
      <3>1. \A x \in others : Places'[x] \in Nat /\ Places'[x] = Places[x]
        BY <1>14, <2>1 DEF others
      <3>2. QED
        BY <2>1, <3>1, SumIsSame
    <2>6. SumFunctionOnSet(Places, others) <= SumFunctionOnSet(Places, all)
      BY <1>13, <2>1, SumOfFewer
    <2>7. /\ SumFunctionOnSet(Places, all) \in Nat /\ SumFunctionOnSet(Places, others) \in Nat
          /\ row[Tour].capacity \in Nat
      <3>1. SumFunctionOnSet(Places, all) \in Nat /\ SumFunctionOnSet(Places, others) \in Nat
        BY <1>13, <2>1, SumIsNat
      <3>2. row[Tour].capacity \in Nat
        BY <1>3, ToursAssumption DEF ToursInv, ToursRows
      <3>3. QED
        BY <3>1, <3>2
    <2>8. SumFunctionOnSet(Places', Seated') <= row'[Tour].capacity
      BY <1>5, <1>7, <1>14, <2>3, <2>4, <2>5, <2>6, <2>7
    <2>9. ToursFit'
      BY <2>8 DEF ToursFit, Taken, Seated
    <2>10. QED
      BY <1>3, <1>7, <1>9, <1>10, <2>9 DEF ToursInv
  <1>17. QED
    BY <1>15, <1>16

\* Whatever else is written, nobody sits down.
LEMMA ToursDone ==
  ASSUME {Tour} \cup Seats \subseteq Watched, Seats \subseteq Rival, ToursInv,
         NEW c \in Call, NEW q \in ToursQueries, q.do = "write", Done(c, q), q \notin SeatsCreating
  PROVE  ToursInv'
  <1>1. row' = [i \in Id |-> IF i \in DOMAIN q.on THEN Applied(q.on[i], row[i]) ELSE row[i]]
        /\ \A i \in DOMAIN q.on : (q.on[i].saw = None) = (row[i] = None)
    BY DEF Done
  <1>2. DOMAIN row' = Id
    BY <1>1
  <1>3. todo' \in OneQuery(ToursQueries) /\ RoomInv'
    BY DoneCrowdsSeats
  <1>4. crowded \subseteq crowded' /\ raced \subseteq raced'
    BY DEF Done
  <1>5. Places \in [Seats -> Nat]
    BY PlacesAreNat DEF ToursInv
  <1>6. ASSUME NEW old \in {None, Unseen}, NEW input \in TourInput,
               DOMAIN q.on = {Tour}, q.on[Tour] = [saw |-> old, put |-> input, inc |-> NoField]
        PROVE  ToursInv'
    <2>1. \A b \in Seats : row'[b] = row[b]
      BY <1>1, <1>6, ToursAssumption
    <2>2. input \in [capacity : Capacity] /\ input # None
      BY ToursAssumption DEF TourInput
    <2>3. row'[Tour] = Applied([saw |-> old, put |-> input, inc |-> NoField], row[Tour])
      BY <1>1, <1>6, ToursAssumption
    <2>4. row'[Tour] \in [capacity : Capacity] /\ row'[Tour] # None
      <3>1. CASE row[Tour] = None
        BY <2>2, <2>3, <3>1 DEF Applied
      <3>2. CASE row[Tour] # None
        <4>1. row[Tour] \in [capacity : Capacity]
          BY <3>2 DEF ToursInv, ToursRows
        <4>2. row'[Tour] = [f \in DOMAIN row[Tour] |-> IF f \in DOMAIN input THEN input[f] ELSE row[Tour][f]]
          BY <2>2, <2>3, <3>2, AppliedIs
        <4>3. row'[Tour] = [capacity |-> input.capacity]
          BY <2>2, <4>1, <4>2
        <4>4. row'[Tour] \in [capacity : Capacity]
          BY <2>2, <4>3
        <4>5. QED
          BY <4>4, ToursAssumption
      <3>3. QED
        BY <3>1, <3>2
    <2>5. ToursRows(row')
      BY <2>1, <2>4 DEF ToursInv, ToursRows
    <2>6. CASE old = None
      <3>1. row[Tour] = None
        BY <1>1, <1>6, <2>6
      <3>2. Rows(Seats)' = {}
        BY <2>1, <3>1 DEF ToursInv, Rows
      <3>3. QED
        BY <1>2, <1>3, <2>5, <3>2, NobodySitsDown
    <2>7. CASE old = Unseen
      <3>1. input # NoField
        <4>1. DOMAIN input = {"capacity"} /\ DOMAIN NoField = {}
          BY <2>2 DEF NoField
        <4>2. QED
          BY <4>1
      <3>2. row[Tour] # Unseen
        <4>1. row[Tour] \in [capacity : Capacity]
          BY <1>1, <1>6, <2>7, UnseenAssumption DEF ToursInv, ToursRows
        <4>2. QED
          BY <4>1, ToursAssumption
      <3>3. Tour \in raced'
        BY <1>6, <2>7, <3>1, <3>2, ToursAssumption DEF Done
      <3>4. QED
        BY <1>2, <1>3, <2>4, <2>5, <3>3, NobodySitsDown, ToursAssumption
    <2>8. QED
      BY <2>6, <2>7
  <1>7. ASSUME NEW b \in Seats, NEW edit \in SeatsEdit \cup [status : SeatsStatus], NEW old \in SeatsRow \cup {Unseen},
               DOMAIN q.on = {b}, q.on[b] = [saw |-> old, put |-> edit, inc |-> NoField],
               old = Unseen \/ edit = [status |-> "CANCELLED"]
        PROVE  ToursInv'
    <2>1. \A a \in (Seats \cup {Tour}) \ {b} : row'[a] = row[a]
      BY <1>1, <1>7, ToursAssumption
    <2>2. row[b] # None /\ row[b] \in SeatsRow
      BY <1>1, <1>7, UnseenAssumption, ToursAssumption DEF ToursInv, ToursRows
    <2>3. row'[b] = Applied([saw |-> old, put |-> edit, inc |-> NoField], row[b])
      BY <1>1, <1>7, ToursAssumption
    <2>4. /\ row'[b] \in SeatsRow
          /\ edit = NoField => row'[b] = row[b]
          /\ edit \in [status : SeatsStatus] =>
               row'[b] = [participants |-> row[b].participants, status |-> edit.status]
      BY <2>2, <2>3, EditedSeats
    <2>5. ToursRows(row') /\ row'[Tour] = row[Tour]
      BY <2>1, <2>4, ToursAssumption DEF ToursInv, ToursRows
    <2>6. b \notin raced' => old = row[b] \/ (old = Unseen /\ edit = NoField)
      BY <1>7, ToursAssumption DEF Done
    <2>7. ASSUME NEW a \in Seated' PROVE a \in Seated /\ Places'[a] <= Places[a]
      <3>1. a \in Seats /\ a \in Seated
        BY <1>4, <2>1, <2>2 DEF Seated, Rows
      <3>2. CASE a # b
        <4>1. Places'[a] = Places[a]
          BY <2>1, <3>1, <3>2 DEF Places
        <4>2. QED
          BY <1>5, <3>1, <4>1
      <3>3. CASE a = b /\ old = Unseen
        <4>1. row'[b] = row[b]
          BY <2>2, <2>4, <2>6, <3>3, ToursAssumption DEF Seated
        <4>2. Places'[a] = Places[a]
          BY <3>3, <4>1 DEF Places
        <4>3. QED
          BY <1>5, <3>1, <4>2
      <3>4. CASE a = b /\ edit = [status |-> "CANCELLED"]
        <4>1. edit \in [status : SeatsStatus] /\ edit.status = "CANCELLED"
          BY <3>4 DEF SeatsStatus
        <4>2. row'[b].status = "CANCELLED"
          BY <2>4, <4>1
        <4>3. Places'[a] = 0
          BY <3>4, <4>2 DEF Places
        <4>4. QED
          BY <1>5, <3>1, <4>3
      <3>5. QED
        BY <1>7, <3>2, <3>3, <3>4
    <2>8. row'[Tour] = None => Rows(Seats)' = {}
      <3>1. row[Tour] # None
        BY <2>2 DEF ToursInv, Rows
      <3>2. QED
        BY <2>5, <3>1
    <2>9. Tour \notin raced' => Tour \notin raced
      BY <1>4
    <2>10. QED
      BY <1>2, <1>3, <2>5, <2>7, <2>8, <2>9, NobodySitsDown
  <1>8. ASSUME NEW b \in Seats, NEW edit \in SeatsEdit \cup {[status |-> "CONFIRMED"]}, DOMAIN q.on = {b},
               q.on[b] = [saw |-> Unseen, put |-> edit, inc |-> NoField]
        PROVE  ToursInv'
    <2>1. edit \in SeatsEdit \cup [status : SeatsStatus]
      BY DEF SeatsStatus
    <2>2. QED
      BY <1>7, <1>8, <2>1
  <1>9. ASSUME NEW b \in Seats, NEW was \in SeatsRow, DOMAIN q.on = {b},
               q.on[b] = [saw |-> was, put |-> [status |-> "CANCELLED"], inc |-> NoField]
        PROVE  ToursInv'
    <2> DEFINE edit == [status |-> "CANCELLED"]
    <2>1. edit \in SeatsEdit \cup [status : SeatsStatus]
      BY DEF SeatsStatus
    <2>2. QED
      BY <1>7, <1>9, <2>1
  <1>10. QED
    BY <1>6, <1>8, <1>9, ToursQueryParts

LEMMA ToursInvariance ==
  ASSUME {Tour} \cup Seats \subseteq Watched, Seats \subseteq Rival
  PROVE  ToursSpec => []ToursInv
  <1>1. CallsInit(NoField) => ToursInv
    <2> SUFFICES ASSUME CallsInit(NoField) PROVE ToursInv
      OBVIOUS
    <2>1. row = [i \in Id |-> None] /\ todo = [c \in Call |-> <<>>]
      BY DEF CallsInit, NoField
    <2>2. DOMAIN row = Id /\ ToursRows(row) /\ Rows(Seats) = {} /\ row[Tour] = None
      BY <2>1, ToursAssumption DEF ToursRows, Rows
    <2>3. todo \in OneQuery(ToursQueries)
      BY <2>1 DEF OneQuery
    <2>4. ASSUME NEW c \in Call, NEW b \in Seats, NEW input \in SeatsInput, todo[c] = <<SeatsCreation(b, input)>>
          PROVE  FALSE
      <3>1. <<SeatsCreation(b, input)>> # <<>>
        OBVIOUS
      <3>2. QED
        BY <2>1, <2>4, <3>1
    <2>5. RoomInv
      BY <2>4 DEF RoomInv
    <2>6. QED
      BY <2>2, <2>3, <2>5 DEF ToursInv, ToursFit
  <1>2. ToursInv /\ [(\E c \in Call : ToursNext(c) \/ Step(c)) \/ Restart]_vars => ToursInv'
    <2> SUFFICES ASSUME ToursInv, [(\E c \in Call : ToursNext(c) \/ Step(c)) \/ Restart]_vars
                 PROVE  ToursInv'
      OBVIOUS
    <2>1. ASSUME NEW c \in Call, ToursNext(c) PROVE ToursInv'
      BY <2>1, BookTourDecides, DropTourStep, ToursMethod
    <2>2. CASE [(\E c \in Call : Step(c)) \/ Restart]_vars
      <3>1. /\ todo' \in OneQuery(ToursQueries)
            /\ Quiet \/ \E c \in Call, q \in ToursQueries : q.do = "write" /\ Done(c, q)
        BY <2>2, OneQueryDone DEF ToursInv
      <3>2. QED
        BY <3>1, ToursQuiet, BookTourDone, ToursDone
    <2>3. QED
      BY <2>1, <2>2
  <1>3. QED
    BY <1>1, <1>2, PTL DEF ToursSpec

-------------------------------------------------------------------------------
\* The tour and its bookings have the values their columns take, whatever clients edit.
THEOREM ToursTypeCorrect ==
  ASSUME {Tour} \cup Seats \subseteq Watched, Seats \subseteq Rival
  PROVE  ToursSpec => []ToursRows(row)
  <1>1. ToursInv => ToursRows(row)
    BY DEF ToursInv
  <1>2. QED
    BY <1>1, ToursInvariance, PTL

\* The sum of the participants, taken in another query than the insert, keeps those within the
\* capacity whom no other call came between and no client edited.
THEOREM BookedToursFit ==
  ASSUME {Tour} \cup Seats \subseteq Watched, Seats \subseteq Rival
  PROVE  ToursSpec => []ToursFit
  <1>1. ToursInv => ToursFit
    BY DEF ToursInv
  <1>2. QED
    BY <1>1, ToursInvariance, PTL

-------------------------------------------------------------------------------
(***************************************************************************)
(* Stations, charge points, connectors, templates and the queue of a       *)
(* charger. No template is made or changed but by a method that first      *)
(* takes the mark away from the others.                                    *)
(***************************************************************************)

\* A connector stays at its charge point.
Stays(w) == w.saw # None /\ (w.put = None \/ "point" \notin DOMAIN w.put) /\ w.inc = NoField

\* A query that neither makes nor changes a template; it may delete one.
Harmless(q) ==
  /\ q.do # "unset" /\ (q.do = "connector" => q.on[1] \in ChargePoint)
  /\ q.do = "write" => DOMAIN q.on \cap Template = {} /\ \A n \in DOMAIN q.on \cap Connector : Stays(q.on[n])

AllHarmless(queries) == \E S : queries \in Seq(S) /\ \A q \in S : Harmless(q)

\* The write that makes t the default, which it was not when the call looked.
NotDefault == {None, [default |-> FALSE]}
Promotion(t, old) == Write(t, old, [default |-> TRUE], NoField)

\* The writes of templates that make none the default that was not.
NoPromotion(t, old, put) ==
  /\ old = None => put = [default |-> FALSE]
  /\ "default" \in DOMAIN put /\ put.default => old = [default |-> TRUE]

TameEdits(t, old) == {put \in TemplateEdit : NoPromotion(t, old, put)}
TameOf(t, old) == {Write(t, old, put, NoField) : put \in TameEdits(t, old)}
TameWrites == UNION {TameOf(t, old) : t \in Template, old \in TemplateRow \cup {None}}

TemplateTodos ==
  {<<q>> : q \in TameWrites}
  \cup {<<Promotion(t, old)>> : t \in Template, old \in NotDefault}
  \cup {<<Then("unset", t), Promotion(t, old)>> : t \in Template, old \in NotDefault}

TodoOK(queries) == AllHarmless(queries) \/ queries \in TemplateTodos

\* The call has had the others lose their place to t, and is about to give it to t.
Poises(queries, t) == \E old \in NotDefault : queries = <<Promotion(t, old)>>
Poised(c, t) == Poises(todo[c], t)

Coming(t) == (row[t] # None /\ row[t].default) \/ \E c \in Call : Poised(c, t)

Placed(r) == r = None \/ ("point" \in DOMAIN r /\ r.point \in ChargePoint)

\* One template has the place of the default or is about to have it.
TemplatesInv ==
  /\ DOMAIN row = Id /\ \A t \in Template : row[t] \in TemplateRow \cup {None}
  /\ \A n \in Connector : Placed(row[n])
  /\ DOMAIN todo = Call /\ todo = [c \in Call |-> todo[c]] /\ \A c \in Call : TodoOK(todo[c])
  /\ \A s, t \in Template \ (raced \cup crowded) : Coming(s) /\ Coming(t) => s = t

-------------------------------------------------------------------------------
LEMMA HarmlessOne ==
  ASSUME NEW q, Harmless(q)
  PROVE  AllHarmless(<<q>>)
  <1> DEFINE S == {q}
  <1>1. <<q>> \in Seq(S) /\ \A r \in S : Harmless(r)
    OBVIOUS
  <1> HIDE DEF S
  <1>2. QED
    BY <1>1 DEF AllHarmless

LEMMA HarmlessNone == AllHarmless(<<>>)
  <1> DEFINE S == {}
  <1>1. <<>> \in Seq(S) /\ \A r \in S : Harmless(r)
    OBVIOUS
  <1> HIDE DEF S
  <1>2. QED
    BY <1>1 DEF AllHarmless

LEMMA HarmlessJoined ==
  ASSUME NEW a, NEW b, AllHarmless(a), AllHarmless(b)
  PROVE  AllHarmless(a \o b)
  <1>1. PICK S : a \in Seq(S) /\ \A q \in S : Harmless(q)
    BY DEF AllHarmless
  <1>2. PICK T : b \in Seq(T) /\ \A q \in T : Harmless(q)
    BY DEF AllHarmless
  <1>3. a \in Seq(S \cup T) /\ b \in Seq(S \cup T)
    <2>1. S \subseteq S \cup T /\ T \subseteq S \cup T
      OBVIOUS
    <2>2. QED
      BY <1>1, <1>2, <2>1, SeqMonotonic
  <1>4. a \o b \in Seq(S \cup T)
    BY <1>3, ConcatProperties
  <1>5. \A q \in S \cup T : Harmless(q)
    BY <1>1, <1>2
  <1>6. QED
    BY <1>4, <1>5 DEF AllHarmless

LEMMA HarmlessRest ==
  ASSUME NEW a, AllHarmless(a), a # <<>>
  PROVE  Harmless(Head(a)) /\ AllHarmless(Tail(a))
  <1>1. PICK S : a \in Seq(S) /\ \A q \in S : Harmless(q)
    BY DEF AllHarmless
  <1>2. Head(a) \in S /\ Tail(a) \in Seq(S)
    BY <1>1, HeadTailProperties
  <1>3. QED
    BY <1>1, <1>2 DEF AllHarmless

LEMMA HarmlessInserts ==
  ASSUME NEW a, AllHarmless(a)
  PROVE  Inserting(a) \cap Template = {}
  <1>1. PICK S : a \in Seq(S) /\ \A q \in S : Harmless(q)
    BY DEF AllHarmless
  <1>2. \A k \in DOMAIN a : Harmless(a[k])
    BY <1>1
  <1>3. \A w \in Writes(a) : DOMAIN w \cap Template = {}
    BY <1>2 DEF Writes, Harmless
  <1>4. QED
    BY <1>3 DEF Inserting

LEMMA ReadIsHarmless ==
  ASSUME NEW name, NEW x, name \notin {"unset", "write", "connector"}
  PROVE  Harmless(Then(name, x)) /\ AllHarmless(<<Then(name, x)>>)
  <1>1. Harmless(Then(name, x))
    BY ThenParts DEF Harmless
  <1>2. QED
    BY <1>1, HarmlessOne

LEMMA WriteIsHarmless ==
  ASSUME NEW i, i \notin Template \cup Connector, NEW old, NEW fields, NEW more
  PROVE  /\ Harmless(Write(i, old, fields, more))
         /\ AllHarmless(<<Write(i, old, fields, more)>>)
  <1>1. Harmless(Write(i, old, fields, more))
    BY WriteParts DEF Harmless
  <1>2. QED
    BY <1>1, HarmlessOne

LEMMA ConnectorIsHarmless ==
  ASSUME NEW n \in Connector, NEW old, old # None, NEW fields, fields = None \/ "point" \notin DOMAIN fields
  PROVE  /\ Harmless(Write(n, old, fields, NoField))
         /\ AllHarmless(<<Write(n, old, fields, NoField)>>)
  <1>1. Harmless(Write(n, old, fields, NoField))
    BY WriteParts, ChargersAssumption DEF Harmless, Stays
  <1>2. QED
    BY <1>1, HarmlessOne

\* A template that is made with no default in between, or stays what it was.
LEMMA TameParts ==
  ASSUME NEW q \in TameWrites
  PROVE  \E t \in Template, old \in TemplateRow \cup {None}, put \in TemplateEdit :
           NoPromotion(t, old, put) /\ q = Write(t, old, put, NoField)
  <1>1. PICK t \in Template, old \in TemplateRow \cup {None} : q \in TameOf(t, old)
    BY DEF TameWrites
  <1>2. PICK put \in TameEdits(t, old) : q = Write(t, old, put, NoField)
    BY <1>1 DEF TameOf
  <1>3. put \in TemplateEdit /\ NoPromotion(t, old, put)
    BY DEF TameEdits
  <1>4. QED
    BY <1>2, <1>3

LEMMA EditParts ==
  ASSUME NEW put \in TemplateEdit
  PROVE  /\ DOMAIN put \subseteq {"default"} /\ put # None
         /\ "default" \in DOMAIN put => put.default \in BOOLEAN /\ put = [default |-> put.default]
  <1>1. PICK fields \in [default : BOOLEAN \cup {None}] : put = Given(fields)
    BY DEF TemplateEdit
  <1>2. DOMAIN put = {g \in {"default"} : fields[g] # None}
    BY <1>1, GivenIs
  <1>3. \A g \in DOMAIN put : put[g] = fields[g] /\ fields[g] # None
    BY <1>1, GivenIs
  <1>4. put = [g \in DOMAIN put |-> put[g]]
    BY <1>1 DEF Given
  <1>5. "default" \in DOMAIN put => put = [default |-> put.default]
    BY <1>2, <1>4
  <1>6. "default" \in DOMAIN put => put.default \in BOOLEAN
    BY <1>2, <1>3
  <1>7. put # None
    BY TemplateEditAssumption
  <1>8. QED
    BY <1>2, <1>5, <1>6, <1>7

\* Which templates the service writes once the others have lost their place.
LEMMA TodoHeads ==
  ASSUME NEW queries \in TemplateTodos
  PROVE  \/ \E q \in TameWrites : queries = <<q>> /\ Head(queries) = q /\ Tail(queries) = <<>>
         \/ \E t \in Template, old \in NotDefault :
               LET q == Promotion(t, old)
               IN \/ queries = <<q>> /\ Head(queries) = q /\ Tail(queries) = <<>>
                  \/ Head(queries) = Then("unset", t) /\ Tail(queries) = <<q>>
  <1>1. ASSUME NEW q PROVE Head(<<q>>) = q /\ Tail(<<q>>) = <<>>
    OBVIOUS
  <1>2. ASSUME NEW q, NEW r PROVE Head(<<r, q>>) = r /\ Tail(<<r, q>>) = <<q>>
    OBVIOUS
  <1>3. CASE queries \in {<<q>> : q \in TameWrites}
    BY <1>1, <1>3
  <1>4. ASSUME NEW t \in Template, NEW old \in NotDefault, queries = <<Promotion(t, old)>>
        PROVE  Head(queries) = Promotion(t, old) /\ Tail(queries) = <<>>
    BY <1>1, <1>4
  <1>5. ASSUME NEW t \in Template, NEW old \in NotDefault, queries = <<Then("unset", t), Promotion(t, old)>>
        PROVE  Head(queries) = Then("unset", t) /\ Tail(queries) = <<Promotion(t, old)>>
    BY <1>2, <1>5
  <1>6. QED
    BY <1>3, <1>4, <1>5 DEF TemplateTodos

\* What is about to be made the default is seen by a call that has the others lose their place.
LEMMA PoisedIsPromoted ==
  ASSUME NEW c \in Call, NEW d \in Call \ {c}, NEW t \in Template, Poised(d, t)
  PROVE  t \in Promoted(c)
  <1>1. PICK old \in NotDefault : todo[d] = <<Promotion(t, old)>>
    BY DEF Poised, Poises
  <1> DEFINE q == Promotion(t, old)
             new == [default |-> TRUE]
  <1>2. q.do = "write" /\ DOMAIN q.on = {t} /\ q.on[t].put = new
    BY WriteParts DEF Promotion
  <1>3. new \in TemplateRow /\ "default" \in DOMAIN new /\ new.default
    BY DEF TemplateRow
  <1>4. new # None
    BY <1>3, ChargersAssumption
  <1> HIDE DEF q, new
  <1>5. DOMAIN <<q>> = {1} /\ <<q>>[1] = q
    OBVIOUS
  <1>6. q.on \in Writes(todo[d])
    BY <1>1, <1>2, <1>5 DEF Writes, q
  <1>7. QED
    BY <1>2, <1>3, <1>4, <1>6 DEF Promoted

\* What harmless calls and those that make no default do is not to be poised.
LEMMA PoisedTodo ==
  ASSUME NEW queries, NEW t \in Template, Poises(queries, t)
  PROVE  /\ ~AllHarmless(queries) /\ queries # <<>> /\ \A q \in TameWrites : queries # <<q>>
         /\ \A q, r : queries # <<q, r>>
         /\ \A s \in Template, old \in NotDefault : queries = <<Promotion(s, old)>> => s = t
  <1>1. PICK old \in NotDefault : queries = <<Promotion(t, old)>>
    BY DEF Poises
  <1> DEFINE q == Promotion(t, old)
             new == [default |-> TRUE]
  <1>2. q.do = "write" /\ DOMAIN q.on = {t} /\ q.on[t] = [saw |-> old, put |-> new, inc |-> NoField]
    BY DEF Promotion, Write
  <1>3. "default" \in DOMAIN new /\ new.default /\ new.default = TRUE
    OBVIOUS
  <1>4. new # [default |-> FALSE]
    BY <1>3
  <1>5. [default |-> TRUE] \notin NotDefault
    BY <1>3, ChargersAssumption DEF NotDefault, TemplateRow
  <1> HIDE DEF new, q
  <1>6. Head(<<q>>) = q /\ <<q>> # <<>>
    OBVIOUS
  <1>7. ~AllHarmless(<<q>>)
    BY <1>2, <1>6, HarmlessRest DEF Harmless
  <1>8. ASSUME NEW r \in TameWrites, q = r PROVE FALSE
    <2>1. PICK s \in Template, o \in TemplateRow \cup {None}, put \in TemplateEdit :
            NoPromotion(s, o, put) /\ r = Write(s, o, put, NoField)
      BY TameParts
    <2>2. DOMAIN r.on = {s} /\ r.on[s] = [saw |-> o, put |-> put, inc |-> NoField]
      BY <2>1 DEF Write
    <2>3. s = t /\ o = old /\ put = new
      BY <1>2, <1>8, <2>2
    <2>4. QED
      BY <1>3, <1>4, <1>5, <2>1, <2>3 DEF NoPromotion
  <1>9. ASSUME NEW r, NEW x PROVE <<q>> # <<r, x>>
    <2>1. Len(<<q>>) = 1 /\ Len(<<r, x>>) = 2
      OBVIOUS
    <2>2. QED
      BY <2>1
  <1>10. ASSUME NEW r, <<q>> = <<r>> PROVE q = r
    <2>1. <<q>>[1] = q /\ <<r>>[1] = r
      OBVIOUS
    <2>2. QED
      BY <1>10, <2>1
  <1>11. ASSUME NEW s \in Template, NEW o \in NotDefault, queries = <<Promotion(s, o)>> PROVE s = t
    <2>1. DOMAIN Promotion(s, o).on = {s}
      BY DEF Promotion, Write
    <2>2. q = Promotion(s, o)
      BY <1>1, <1>10, <1>11 DEF q
    <2>3. QED
      BY <1>2, <2>1, <2>2
  <1>12. QED
    BY <1>1, <1>6, <1>7, <1>8, <1>9, <1>10, <1>11 DEF q

-------------------------------------------------------------------------------
\* As long as no other template comes to be the default, the invariant is kept.
LEMMA TemplatesStay ==
  ASSUME TemplatesInv, DOMAIN row' = Id, \A t \in Template : row'[t] \in TemplateRow \cup {None},
         \A n \in Connector : Placed(row'[n]),
         NEW c \in Call, NEW queries, TodoOK(queries), todo' = [todo EXCEPT ![c] = queries],
         \A t \in Template \ (raced' \cup crowded') : Coming(t)' => Coming(t) /\ t \notin raced \cup crowded
  PROVE  TemplatesInv'
  <1>1. DOMAIN todo' = Call /\ todo' = [d \in Call |-> todo'[d]] /\ \A d \in Call : TodoOK(todo'[d])
    BY DEF TemplatesInv
  <1>2. \A s, t \in Template \ (raced' \cup crowded') : Coming(s)' /\ Coming(t)' => s = t
    BY DEF TemplatesInv
  <1>3. QED
    BY <1>1, <1>2 DEF TemplatesInv

\* A step of c that poises no template, and leaves templates or deletes them.
LEMMA HarmlessStep ==
  ASSUME TemplatesInv, DOMAIN row' = Id, \A t \in Template : row'[t] \in {row[t], None},
         \A n \in Connector : Placed(row'[n]),
         NEW c \in Call, NEW queries, TodoOK(queries), todo' = [todo EXCEPT ![c] = queries],
         \A t \in Template : todo'[c] = queries => ~Poised(c, t)',
         \A t \in Template : t \in raced \cup crowded => t \in raced' \cup crowded' \/ ~Coming(t)
  PROVE  TemplatesInv'
  <1>1. \A t \in Template : row'[t] \in TemplateRow \cup {None}
    BY DEF TemplatesInv
  <1>2. todo'[c] = queries /\ \A d \in Call \ {c} : todo'[d] = todo[d]
    BY DEF TemplatesInv
  <1>3. ASSUME NEW t \in Template, Coming(t)' PROVE Coming(t)
    <2>1. CASE row'[t] # None /\ row'[t].default
      BY <2>1 DEF Coming
    <2>2. ASSUME NEW d \in Call, Poised(d, t)' PROVE Coming(t)
      <3>1. d # c
        BY <1>2, <2>2
      <3>2. Poised(d, t)
        BY <1>2, <2>2, <3>1 DEF Poised
      <3>3. QED
        BY <3>2 DEF Coming
    <2>3. QED
      BY <1>3, <2>1, <2>2 DEF Coming
  <1>4. QED
    BY <1>1, <1>3, TemplatesStay

LEMMA NoPoise ==
  ASSUME NEW c \in Call, NEW queries, todo'[c] = queries,
         AllHarmless(queries) \/ (\E q \in TameWrites : queries = <<q>>) \/ \E q, r : queries = <<q, r>>
  PROVE  \A t \in Template : ~Poised(c, t)'
  <1>1. \A t \in Template : ~Poises(queries, t)
    BY PoisedTodo
  <1>2. QED
    BY <1>1 DEF Poised

\* A call that starts.
LEMMA TemplatesDecide ==
  ASSUME TemplatesInv, NEW c \in Call, NEW queries, Decide(c, queries), TodoOK(queries),
         AllHarmless(queries) \/ (\E q \in TameWrites : queries = <<q>>) \/ \E q, r : queries = <<q, r>>,
         \A t \in Template \cap Inserting(queries) : ~Coming(t)
  PROVE  TemplatesInv'
  <1>1. row' = row /\ todo' = [todo EXCEPT ![c] = queries]
    BY DecideParts
  <1>2. \A t \in Template : t \in raced \cup crowded => t \in raced' \cup crowded' \/ ~Coming(t)
    BY DecideParts DEF Coming
  <1>3. \A t \in Template : todo'[c] = queries => ~Poised(c, t)'
    BY NoPoise
  <1>4. DOMAIN row' = Id /\ \A n \in Connector : Placed(row'[n])
    BY <1>1 DEF TemplatesInv
  <1>5. QED
    BY <1>1, <1>2, <1>3, <1>4, HarmlessStep

LEMMA HarmlessDecide ==
  ASSUME TemplatesInv, NEW c \in Call, NEW queries, Decide(c, queries), AllHarmless(queries)
  PROVE  TemplatesInv'
  <1>1. TodoOK(queries) /\ Template \cap Inserting(queries) = {}
    BY HarmlessInserts DEF TodoOK
  <1>2. QED
    BY <1>1, TemplatesDecide

\* A call that has come to a read other than of the defaults is a harmless one.
LEMMA ReadIsDue ==
  ASSUME TemplatesInv, NEW c \in Call, NEW name, name \notin {"unset", "write"}, At(c, name)
  PROVE  todo[c] # <<>> /\ Harmless(Head(todo[c])) /\ AllHarmless(Tail(todo[c]))
  <1>1. todo[c] # <<>> /\ Head(todo[c]).do = name
    BY DEF At, Free
  <1>2. todo[c] \notin TemplateTodos
    <2>1. ASSUME NEW q \in TameWrites PROVE q.do = "write"
      BY TameParts, WriteParts
    <2>2. ASSUME NEW t, NEW old PROVE Promotion(t, old).do = "write" /\ Then("unset", t).do = "unset"
      BY WriteParts, ThenParts DEF Promotion
    <2>3. QED
      BY <1>1, <2>1, <2>2, TodoHeads
  <1>3. AllHarmless(todo[c])
    BY <1>2 DEF TemplatesInv, TodoOK
  <1>4. QED
    BY <1>1, <1>3, HarmlessRest

\* A harmless call goes on.
LEMMA HarmlessGoesOn ==
  ASSUME TemplatesInv, NEW c \in Call, NEW name, name \notin {"unset", "write"}, At(c, name),
         NEW queries, AllHarmless(queries), todo' = [todo EXCEPT ![c] = queries \o Tail(@)],
         DOMAIN row' = Id, \A t \in Template : row'[t] \in {row[t], None},
         \A n \in Connector : Placed(row'[n]),
         \A t \in Template : t \in raced \cup crowded => t \in raced' \cup crowded'
  PROVE  TemplatesInv'
  <1> DEFINE s == queries \o Tail(todo[c])
  <1>1. AllHarmless(s)
    BY ReadIsDue, HarmlessJoined
  <1>2. todo' = [todo EXCEPT ![c] = s]
    OBVIOUS
  <1> HIDE DEF s
  <1>3. todo'[c] = s => \A t \in Template : ~Poised(c, t)'
    BY <1>1, NoPoise
  <1>4. TodoOK(s)
    BY <1>1 DEF TodoOK
  <1>5. QED
    BY <1>2, <1>3, <1>4, HarmlessStep

\* The same, when nothing is put before the rest.
LEMMA HarmlessGoesBy ==
  ASSUME TemplatesInv, NEW c \in Call, NEW name, name \notin {"unset", "write"}, At(c, name),
         todo' = [todo EXCEPT ![c] = Tail(@)], UNCHANGED history,
         DOMAIN row' = Id, \A t \in Template : row'[t] \in {row[t], None},
         \A n \in Connector : Placed(row'[n])
  PROVE  TemplatesInv'
  <1> DEFINE s == Tail(todo[c])
  <1>1. AllHarmless(s)
    BY ReadIsDue
  <1>2. todo' = [todo EXCEPT ![c] = s]
    OBVIOUS
  <1>3. raced' = raced /\ crowded' = crowded
    BY DEF history
  <1> HIDE DEF s
  <1>4. todo'[c] = s => \A t \in Template : ~Poised(c, t)'
    BY <1>1, NoPoise
  <1>5. TodoOK(s)
    BY <1>1 DEF TodoOK
  <1>6. QED
    BY <1>2, <1>3, <1>4, <1>5, HarmlessStep

\* The other service leaves templates alone, or deletes one.
LEMMA HarmlessPerform ==
  ASSUME TemplatesInv, NEW c \in Call, NEW name, name \notin {"unset", "write"},
         NEW i, NEW r, i \in Template => r \in {row[i], None}, i \in Connector => Placed(r),
         Perform(c, name, i, r, <<>>)
  PROVE  TemplatesInv'
  <1>1. /\ At(c, name) /\ row' = [row EXCEPT ![i] = r] /\ todo' = [todo EXCEPT ![c] = <<>> \o Tail(@)]
        /\ raced' = raced \ {j \in Inserting(<<>>) : row[j] = None}
        /\ crowded' = (crowded \cup Crowding(c)) \ {j \in Inserting(<<>>) : row[j] = None}
    BY DEF Perform, Afresh
  <1>2. Template \cap Inserting(<<>>) = {} /\ AllHarmless(<<>>)
    BY HarmlessNone, HarmlessInserts
  <1>3. DOMAIN row' = Id /\ \A t \in Template : row'[t] \in {row[t], None}
    BY <1>1 DEF TemplatesInv
  <1>4. \A t \in Template : t \in raced \cup crowded => t \in raced' \cup crowded'
    BY <1>1, <1>2
  <1>5. \A n \in Connector : Placed(row'[n])
    BY <1>1 DEF TemplatesInv
  <1>6. QED
    BY <1>1, <1>2, <1>3, <1>4, <1>5, HarmlessGoesOn

LEMMA HarmlessContinue ==
  ASSUME TemplatesInv, NEW c \in Call, NEW name, name \notin {"unset", "write"},
         NEW queries, AllHarmless(queries), Continue(c, name, queries)
  PROVE  TemplatesInv'
  <1>1. /\ At(c, name) /\ row' = row /\ todo' = [todo EXCEPT ![c] = queries \o Tail(@)]
        /\ raced' = raced \ {j \in Inserting(queries) : row[j] = None}
        /\ crowded' = (crowded \cup {}) \ {j \in Inserting(queries) : row[j] = None}
    BY DEF Continue, Afresh
  <1>2. Template \cap Inserting(queries) = {}
    BY HarmlessInserts
  <1>3. DOMAIN row' = Id /\ \A t \in Template : row'[t] = row[t]
    BY <1>1 DEF TemplatesInv
  <1>4. \A t \in Template : t \in raced \cup crowded => t \in raced' \cup crowded'
    BY <1>1, <1>2
  <1>5. \A n \in Connector : Placed(row'[n])
    BY <1>1 DEF TemplatesInv
  <1>6. QED
    BY <1>1, <1>3, <1>4, <1>5, HarmlessGoesOn

-------------------------------------------------------------------------------
\* What the services do with stations, charge points and connectors.
LEMMA DropStep ==
  ASSUME TemplatesInv, NEW c \in Call, NEW name, name \notin {"unset", "write"}, Drop(c, name)
  PROVE  TemplatesInv'
  <1>1. /\ At(c, name) /\ todo' = [todo EXCEPT ![c] = Tail(@)] /\ UNCHANGED history
        /\ \E gone : row' = [i \in Id |-> IF i \in gone THEN None ELSE row[i]]
    BY DEF Drop
  <1>2. DOMAIN row' = Id /\ \A t \in Template : row'[t] \in {row[t], None}
    BY <1>1, ChargersAssumption
  <1>3. \A n \in Connector : Placed(row'[n])
    <2>1. ASSUME NEW n \in Connector PROVE row'[n] \in {row[n], None}
      BY <1>1, ChargersAssumption
    <2>2. QED
      BY <2>1 DEF TemplatesInv, Placed
  <1>4. QED
    BY <1>1, <1>2, <1>3, HarmlessGoesBy

LEMMA StationsStep ==
  ASSUME TemplatesInv, NEW c \in Call, StationsNext(c)
  PROVE  TemplatesInv'
  <1>1. Station \notin Template \cup Connector
    BY ChargersAssumption
  <1>2. CASE CreateStation(c)
    <2>1. PICK input : Decide(c, <<Insert(Station, input)>>)
      BY <1>2 DEF CreateStation
    <2>2. AllHarmless(<<Insert(Station, input)>>)
      BY <1>1, WriteIsHarmless DEF Insert
    <2>3. QED
      BY <2>1, <2>2, HarmlessDecide
  <1>3. CASE UpdateStation(c)
    <2>1. PICK edit : Decide(c, <<Overwrite(Station, edit)>>)
      BY <1>3 DEF UpdateStation
    <2>2. AllHarmless(<<Overwrite(Station, edit)>>)
      BY <1>1, WriteIsHarmless DEF Overwrite
    <2>3. QED
      BY <2>1, <2>2, HarmlessDecide
  <1>4. CASE UpdateHealth(c)
    <2>1. AllHarmless(<<Exists(Station)>>)
      BY <1>1, WriteIsHarmless DEF Exists, Add
    <2>2. QED
      BY <1>4, <2>1, HarmlessDecide DEF UpdateHealth
  <1>5. CASE DeleteStation(c)
    <2>1. AllHarmless(<<Then("drop station", Station)>>)
      BY ReadIsHarmless
    <2>2. QED
      BY <1>5, <2>1, HarmlessDecide DEF DeleteStation
  <1>6. CASE DropStation(c)
    BY <1>6, DropStep DEF DropStation
  <1>7. QED
    BY <1>2, <1>3, <1>4, <1>5, <1>6 DEF StationsNext

LEMMA RecountStep ==
  ASSUME TemplatesInv, NEW c \in Call, Recount(c)
  PROVE  TemplatesInv'
  <1>1. PICK count : Continue(c, "count", <<Overwrite(Station, [connectors |-> count])>>)
    BY DEF Recount
  <1>2. AllHarmless(<<Overwrite(Station, [connectors |-> count])>>)
    BY WriteIsHarmless, ChargersAssumption DEF Overwrite
  <1>3. QED
    BY <1>1, <1>2, HarmlessContinue

\* Queries before the connectors are counted again.
LEMMA CountingIsHarmless ==
  ASSUME NEW queries, AllHarmless(queries)
  PROVE  AllHarmless(queries \o CountAgain)
  <1>1. AllHarmless(CountAgain)
    BY ReadIsHarmless DEF CountAgain
  <1>2. QED
    BY <1>1, HarmlessJoined

LEMMA BothAreHarmless ==
  ASSUME NEW i, i \notin Template \cup Connector, NEW r, NEW j, j \notin Template \cup Connector
  PROVE  AllHarmless(<<Both(Insert(i, r), Exists(j))>>)
  <1> DEFINE q == Both(Insert(i, r), Exists(j))
  <1>1. q.do = "write" /\ DOMAIN q.on = {i, j}
    BY DEF Both, Insert, Exists, Add, Write
  <1> HIDE DEF q
  <1>2. Harmless(q)
    BY <1>1 DEF Harmless
  <1>3. AllHarmless(<<q>>)
    BY <1>2, HarmlessOne
  <1>4. QED
    BY <1>3 DEF q

LEMMA HarmlessTwo ==
  ASSUME NEW q, NEW r, Harmless(q), Harmless(r)
  PROVE  AllHarmless(<<q, r>>)
  <1> DEFINE S == {q, r}
  <1>1. <<q, r>> \in Seq(S) /\ \A p \in S : Harmless(p)
    OBVIOUS
  <1> HIDE DEF S
  <1>2. QED
    BY <1>1 DEF AllHarmless

LEMMA ChargePointsStep ==
  ASSUME TemplatesInv, NEW c \in Call, ChargePointsNext(c)
  PROVE  TemplatesInv'
  <1>1. Station \notin Template \cup Connector /\ \A p \in ChargePoint : p \notin Template \cup Connector
    BY ChargersAssumption
  <1>2. CASE CreateChargePoint(c)
    <2>1. PICK p \in Unused(ChargePoint), input \in PointInput :
            Decide(c, <<Both(Insert(p, input), Exists(Station))>> \o CountAgain)
      BY <1>2 DEF CreateChargePoint
    <2>2. p \notin Template \cup Connector
      BY <1>1 DEF Unused
    <2>3. AllHarmless(<<Both(Insert(p, input), Exists(Station))>> \o CountAgain)
      BY <1>1, <2>2, BothAreHarmless, CountingIsHarmless
    <2>4. QED
      BY <2>1, <2>3, HarmlessDecide
  <1>3. CASE UpdateChargePoint(c)
    <2>1. PICK p, edit :
          /\ p \in Rows(ChargePoint)
          /\ Decide(c, <<Overwrite(p, edit)>>)
      BY <1>3 DEF UpdateChargePoint
    <2>2. AllHarmless(<<Overwrite(p, edit)>>)
      BY <1>1, <2>1, WriteIsHarmless DEF Overwrite, Rows
    <2>3. QED
      BY <2>1, <2>2, HarmlessDecide
  <1>4. CASE TouchChargePoint(c)
    <2>1. PICK p \in Rows(ChargePoint) : Decide(c, <<Exists(p)>>)
      BY <1>4 DEF TouchChargePoint
    <2>2. AllHarmless(<<Exists(p)>>)
      BY <1>1, WriteIsHarmless DEF Exists, Add, Rows
    <2>3. QED
      BY <2>1, <2>2, HarmlessDecide
  <1>5. CASE DeleteChargePoint(c)
    <2>1. PICK p \in Rows(ChargePoint) : Decide(c, <<Then("drop point", p)>> \o CountAgain)
      BY <1>5 DEF DeleteChargePoint
    <2>2. AllHarmless(<<Then("drop point", p)>> \o CountAgain)
      BY ReadIsHarmless, CountingIsHarmless
    <2>3. QED
      BY <2>1, <2>2, HarmlessDecide
  <1>6. CASE DropChargePoint(c)
    BY <1>6, DropStep DEF DropChargePoint
  <1>7. QED
    BY <1>2, <1>3, <1>4, <1>5, <1>6, RecountStep DEF ChargePointsNext

LEMMA NewIsHarmless ==
  ASSUME NEW p \in ChargePoint, NEW number
  PROVE  Harmless(NewConnector(p, number)) /\ AllHarmless(<<NewConnector(p, number)>>)
  <1> DEFINE q == NewConnector(p, number)
  <1>1. q.do = "connector" /\ q.on[1] = p
    BY DEF NewConnector, Then
  <1> HIDE DEF q
  <1>2. Harmless(q)
    BY <1>1 DEF Harmless
  <1>3. QED
    BY <1>2, HarmlessOne DEF q

LEMMA ConnectorsStep ==
  ASSUME TemplatesInv, NEW c \in Call, ConnectorsNext(c)
  PROVE  TemplatesInv'
  <1>1. /\ \A n \in Rows(Connector) : n \in Connector /\ row[n] # None /\ row[n].point \in ChargePoint
        /\ \A p \in ChargePoint : p \notin Template \cup Connector
        /\ Rows(ChargePoint) \subseteq ChargePoint
    BY ChargersAssumption DEF Rows, TemplatesInv, Placed
  <1>2. CASE AddConnector(c)
    <2>1. PICK p, number :
          /\ p \in Rows(ChargePoint)
          /\ Decide(c, <<NewConnector(p, number), Add(p, [count |-> 1])>> \o CountAgain)
      BY <1>2 DEF AddConnector
    <2>2. Harmless(NewConnector(p, number))
      BY <1>1, <2>1, NewIsHarmless
    <2>3. Harmless(Add(p, [count |-> 1]))
      BY <1>1, <2>1, WriteIsHarmless DEF Add
    <2>4. QED
      BY <2>1, <2>2, <2>3, HarmlessTwo, CountingIsHarmless, HarmlessDecide
  <1>3. CASE RemoveConnector(c)
    <2>1. PICK n \in Rows(Connector) :
            Decide(c, <<Delete(n), Add(row[n].point, [count |-> -1])>> \o CountAgain)
      BY <1>3 DEF RemoveConnector
    <2>2. Harmless(Delete(n))
      BY <1>1, ConnectorIsHarmless DEF Delete, Put
    <2>3. Harmless(Add(row[n].point, [count |-> -1]))
      BY <1>1, WriteIsHarmless DEF Add
    <2>4. QED
      BY <2>1, <2>2, <2>3, HarmlessTwo, CountingIsHarmless, HarmlessDecide
  <1>4. CASE CreateConnector(c)
    <2>1. PICK p, number :
          /\ p \in Rows(ChargePoint)
          /\ Decide(c, <<NewConnector(p, number)>>)
      BY <1>4 DEF CreateConnector
    <2>2. AllHarmless(<<NewConnector(p, number)>>)
      BY <1>1, <2>1, NewIsHarmless
    <2>3. QED
      BY <2>1, <2>2, HarmlessDecide
  <1>5. CASE DeleteConnector(c)
    <2>1. PICK n \in Rows(Connector) : Decide(c, <<Delete(n)>>)
      BY <1>5 DEF DeleteConnector
    <2>2. AllHarmless(<<Delete(n)>>)
      BY <1>1, ConnectorIsHarmless DEF Delete, Put
    <2>3. QED
      BY <2>1, <2>2, HarmlessDecide
  <1>6. CASE InsertConnector(c)
    <2> DEFINE p == Subject(c)[1]
               number == Subject(c)[2]
               new == [point |-> p, number |-> number, status |-> "AVAILABLE"]
    <2>1. PICK n \in Unused(Connector) : Perform(c, "connector", n, new, <<>>)
      BY <1>6 DEF InsertConnector
    <2>2. n \notin Template
      BY ChargersAssumption DEF Unused
    <2>3. todo[c] # <<>> /\ Head(todo[c]).do = "connector"
      BY <2>1 DEF Perform, At, Free
    <2>4. p \in ChargePoint
      BY <2>3, ReadIsDue DEF Subject, Harmless, At, Free
    <2>5. Placed(new)
      BY <2>4 DEF Placed
    <2>6. QED
      BY <2>1, <2>2, <2>5, HarmlessPerform
  <1>7. CASE UpdateConnector(c)
    <2>1. PICK n \in Rows(Connector), edit \in ConnectorEdit : Decide(c, <<Overwrite(n, edit)>>)
      BY <1>7 DEF UpdateConnector
    <2>2. PICK fields \in [status : ConnectorStatus \cup {None}] : edit = Given(fields)
      BY DEF ConnectorEdit
    <2>3. "point" \notin DOMAIN edit
      <3>1. DOMAIN edit = {g \in DOMAIN fields : fields[g] # None} /\ DOMAIN fields = {"status"}
        BY <2>2, GivenIs
      <3>2. QED
        BY <3>1
    <2>4. AllHarmless(<<Overwrite(n, edit)>>)
      BY <1>1, <2>3, ConnectorIsHarmless, UnseenAssumption DEF Overwrite
    <2>5. QED
      BY <2>1, <2>4, HarmlessDecide
  <1>8. CASE ReserveConnector(c) \/ ReleaseReservation(c)
    <2>1. PICK n, status :
          /\ n \in Rows(Connector)
          /\ Decide(c, <<Put(n, [status |-> status])>>)
      BY <1>8 DEF ReserveConnector, ReleaseReservation
    <2>2. AllHarmless(<<Put(n, [status |-> status])>>)
      BY <1>1, <2>1, ConnectorIsHarmless DEF Put
    <2>3. QED
      BY <2>1, <2>2, HarmlessDecide
  <1>9. QED
    BY <1>2, <1>3, <1>4, <1>5, <1>6, <1>7, <1>8, RecountStep DEF ConnectorsNext

-------------------------------------------------------------------------------
\* What the service does with templates.
LEMMA TameDecide ==
  ASSUME TemplatesInv, NEW c \in Call, NEW t \in Template, NEW old \in TemplateRow \cup {None},
         NEW put \in TemplateEdit, NoPromotion(t, old, put), Decide(c, <<Write(t, old, put, NoField)>>),
         old = None => ~Coming(t)
  PROVE  TemplatesInv'
  <1> DEFINE q == Write(t, old, put, NoField)
  <1>1. q \in TameWrites
    <2>1. q \in TameOf(t, old)
      BY DEF TameOf, TameEdits
    <2>2. QED
      BY <2>1 DEF TameWrites
  <1>2. DOMAIN q.on = {t} /\ q.on[t].saw = old
    BY WriteParts
  <1> HIDE DEF q
  <1>3. TodoOK(<<q>>)
    BY <1>1 DEF TodoOK, TemplateTodos
  <1>4. \A s \in Template \cap Inserting(<<q>>) : ~Coming(s)
    BY <1>2, InsertingOf
  <1>5. Decide(c, <<q>>)
    BY DEF q
  <1>6. QED
    BY <1>1, <1>3, <1>4, <1>5, TemplatesDecide

LEMMA PromoteDecide ==
  ASSUME TemplatesInv, NEW c \in Call, NEW t \in Template, NEW old \in NotDefault,
         Decide(c, <<Then("unset", t), Promotion(t, old)>>),
         old = None => ~Coming(t)
  PROVE  TemplatesInv'
  <1> DEFINE q == Promotion(t, old)
             r == Then("unset", t)
  <1>1. DOMAIN q.on = {t} /\ q.on[t].saw = old /\ r.do = "unset"
    BY WriteParts, ThenParts DEF Promotion
  <1>2. <<r, q>> \in TemplateTodos
    BY DEF TemplateTodos
  <1> HIDE DEF q, r
  <1>3. Inserting(<<r, q>>) \subseteq {i \in Id : i = t /\ old = None}
    <2>1. DOMAIN <<r, q>> = {1, 2} /\ <<r, q>>[1] = r /\ <<r, q>>[2] = q
      OBVIOUS
    <2>2. \A w \in Writes(<<r, q>>) : w = q.on
      BY <1>1, <2>1 DEF Writes
    <2>3. QED
      BY <1>1, <2>2 DEF Inserting
  <1>4. Decide(c, <<r, q>>)
    BY DEF q, r
  <1>5. \A s \in Template \cap Inserting(<<r, q>>) : ~Coming(s)
    BY <1>3
  <1>6. QED
    BY <1>2, <1>4, <1>5, TemplatesDecide DEF TodoOK

\* A name that is not taken is not that of a template to come.
LEMMA UnusedIsNotComing ==
  ASSUME NEW t \in Unused(Template)
  PROVE  t \in Template /\ ~Coming(t)
  <1>1. t \in Template /\ row[t] = None
    BY DEF Unused
  <1>2. ASSUME NEW c \in Call, Poised(c, t) PROVE FALSE
    <2>1. PICK old \in NotDefault : todo[c] = <<Promotion(t, old)>>
      BY <1>2 DEF Poised, Poises
    <2>2. Promotion(t, old).do = "write" /\ DOMAIN Promotion(t, old).on = {t}
      BY WriteParts DEF Promotion
    <2>3. QED
      BY <2>1, <2>2, UnusedIsFree
  <1>3. QED
    BY <1>1, <1>2 DEF Coming

LEMMA DefaultIsEdit == \A b \in BOOLEAN : [default |-> b] \in TemplateEdit /\ [default |-> b] \in TemplateRow
  <1> SUFFICES ASSUME NEW b \in BOOLEAN PROVE [default |-> b] \in TemplateEdit /\ [default |-> b] \in TemplateRow
    OBVIOUS
  <1> DEFINE fields == [default |-> b]
  <1>1. fields \in [default : BOOLEAN \cup {None}] /\ fields \in TemplateRow
    BY DEF TemplateRow
  <1>2. b # None
    BY ChargersAssumption
  <1>3. Given(fields) = fields
    BY <1>2 DEF Given
  <1>4. QED
    BY <1>1, <1>3 DEF TemplateEdit

LEMMA UnsetStep ==
  ASSUME TemplatesInv, NEW c \in Call, UnsetDefaults(c)
  PROVE  TemplatesInv'
  <1> DEFINE t == Subject(c)
             others == Superseded(t)
  <1>1. /\ todo[c] # <<>> /\ Head(todo[c]).do = "unset" /\ t = Head(todo[c]).on
        /\ row' = [i \in Id |-> IF i \in others THEN [row[i] EXCEPT !.default = FALSE] ELSE row[i]]
        /\ crowded' = (crowded \ others) \cup Promoted(c)
        /\ todo' = [todo EXCEPT ![c] = Tail(todo[c])] /\ raced' = raced
    BY DEF UnsetDefaults, At, Free, Subject
  <1>2. todo[c] \in TemplateTodos
    BY <1>1, HarmlessRest DEF TemplatesInv, TodoOK, Harmless
  <1>3. PICK s \in Template, old \in NotDefault :
          Head(todo[c]) = Then("unset", s) /\ Tail(todo[c]) = <<Promotion(s, old)>>
    <2>1. ASSUME NEW q \in TameWrites PROVE q.do = "write"
      BY TameParts, WriteParts
    <2>2. ASSUME NEW s, NEW old PROVE Promotion(s, old).do = "write"
      BY WriteParts DEF Promotion
    <2>3. QED
      BY <1>1, <1>2, <2>1, <2>2, TodoHeads
  <1>4. t = s
    BY <1>1, <1>3, ThenParts
  <1> HIDE DEF t
  <1>5. others = {o \in Template : row[o] # None /\ o # t /\ row[o].default}
    BY DEF Superseded, Rows
  <1> HIDE DEF others
  <1>6. DOMAIN row' = Id /\ \A n \in Connector : Placed(row'[n])
    <2>1. \A n \in Connector : row'[n] = row[n]
      BY <1>1, <1>5, ChargersAssumption
    <2>2. QED
      BY <1>1, <2>1 DEF TemplatesInv
  <1>7. ASSUME NEW o \in Template
        PROVE  /\ row'[o] \in TemplateRow \cup {None}
               /\ row'[o] # None /\ row'[o].default => o = t /\ row'[o] = row[o]
    <2>1. CASE o \in others
      <3>1. row[o] \in TemplateRow /\ row'[o] = [row[o] EXCEPT !.default = FALSE]
        BY <1>1, <1>5, <2>1, ChargersAssumption DEF TemplatesInv
      <3>2. row'[o] \in TemplateRow /\ row'[o].default = FALSE
        BY <3>1 DEF TemplateRow
      <3>3. QED
        BY <3>2
    <2>2. CASE o \notin others
      BY <1>1, <1>5, <2>2, ChargersAssumption DEF TemplatesInv
    <2>3. QED
      BY <2>1, <2>2
  <1>8. <<Promotion(s, old)>> \in TemplateTodos
    BY DEF TemplateTodos
  <1>9. todo'[c] = <<Promotion(s, old)>> /\ \A d \in Call \ {c} : todo'[d] = todo[d]
    BY <1>1, <1>3 DEF TemplatesInv
  <1>10. DOMAIN todo' = Call /\ todo' = [d \in Call |-> todo'[d]] /\ \A d \in Call : TodoOK(todo'[d])
    BY <1>1, <1>8, <1>9 DEF TemplatesInv, TodoOK
  <1>11. ASSUME NEW o \in Template \ (raced' \cup crowded'), Coming(o)' PROVE o = t
    <2>1. CASE row'[o] # None /\ row'[o].default
      BY <1>7, <2>1
    <2>2. ASSUME NEW d \in Call, Poised(d, o)' PROVE o = t
      <3>1. CASE d = c
        <4>1. Poises(<<Promotion(s, old)>>, o)
          BY <1>9, <2>2, <3>1 DEF Poised
        <4>2. s = o
          BY <4>1, PoisedTodo
        <4>3. QED
          BY <1>4, <4>2
      <3>2. CASE d # c
        <4>1. Poised(d, o)
          BY <1>9, <2>2, <3>2 DEF Poised
        <4>2. o \in Promoted(c)
          BY <3>2, <4>1, PoisedIsPromoted
        <4>3. QED
          BY <1>1, <4>2
      <3>3. QED
        BY <3>1, <3>2
    <2>3. QED
      BY <1>11, <2>1, <2>2 DEF Coming
  <1>12. QED
    BY <1>6, <1>7, <1>10, <1>11 DEF TemplatesInv

LEMMA TemplatesStep ==
  ASSUME TemplatesInv, NEW c \in Call, TemplatesNext(c)
  PROVE  TemplatesInv'
  <1>1. CASE CreateTemplate(c)
    <2>1. PICK t \in Unused(Template), default \in BOOLEAN :
            Decide(c, IF default THEN <<Then("unset", t), Insert(t, [default |-> default])>>
                      ELSE <<Insert(t, [default |-> default])>>)
      BY <1>1 DEF CreateTemplate
    <2>2. t \in Template /\ ~Coming(t)
      BY UnusedIsNotComing
    <2>3. CASE default
      <3>1. default = TRUE
        BY <2>3
      <3>2. Decide(c, <<Then("unset", t), Promotion(t, None)>>)
        BY <2>1, <3>1 DEF Insert, Promotion
      <3>3. QED
        BY <2>2, <3>2, PromoteDecide DEF NotDefault
    <2>4. CASE ~default
      <3>1. default = FALSE
        BY <2>4
      <3>2. Decide(c, <<Write(t, None, [default |-> FALSE], NoField)>>)
        BY <2>1, <3>1 DEF Insert
      <3>3. NoPromotion(t, None, [default |-> FALSE])
        BY DEF NoPromotion
      <3>4. QED
        BY <2>2, <3>2, <3>3, DefaultIsEdit, TameDecide
    <2>5. QED
      BY <2>3, <2>4
  <1>2. CASE UpdateTemplate(c)
    <2>1. PICK t \in Rows(Template), edit \in TemplateEdit :
            Decide(c, IF "default" \in DOMAIN edit /\ edit.default /\ ~row[t].default
                      THEN <<Then("unset", t), Put(t, edit)>> ELSE <<Put(t, edit)>>)
      BY <1>2 DEF UpdateTemplate
    <2>2. t \in Template /\ row[t] \in TemplateRow /\ row[t] # None
      BY DEF Rows, TemplatesInv
    <2>3. row[t] = [default |-> row[t].default] /\ row[t].default \in BOOLEAN
      BY <2>2 DEF TemplateRow
    <2>4. "default" \in DOMAIN edit => edit.default \in BOOLEAN /\ edit = [default |-> edit.default]
      BY EditParts
    <2>5. CASE "default" \in DOMAIN edit /\ edit.default /\ ~row[t].default
      <3>1. row[t] = [default |-> FALSE] /\ edit = [default |-> TRUE]
        <4>1. row[t].default = FALSE /\ edit.default = TRUE
          BY <2>3, <2>4, <2>5
        <4>2. QED
          BY <2>3, <2>4, <2>5, <4>1
      <3>2. Decide(c, <<Then("unset", t), Promotion(t, row[t])>>)
        BY <2>1, <2>5, <3>1 DEF Put, Promotion
      <3>3. QED
        BY <2>2, <3>1, <3>2, PromoteDecide DEF NotDefault
    <2>6. CASE ~("default" \in DOMAIN edit /\ edit.default /\ ~row[t].default)
      <3>1. Decide(c, <<Write(t, row[t], edit, NoField)>>)
        BY <2>1, <2>6 DEF Put
      <3>2. NoPromotion(t, row[t], edit)
        <4>1. ASSUME "default" \in DOMAIN edit, edit.default PROVE row[t] = [default |-> TRUE]
          <5>1. row[t].default = TRUE
            BY <2>3, <2>6, <4>1
          <5>2. QED
            BY <2>3, <5>1
        <4>2. QED
          BY <2>2, <4>1 DEF NoPromotion
      <3>3. QED
        BY <2>2, <3>1, <3>2, TameDecide
    <2>7. QED
      BY <2>5, <2>6
  <1>3. CASE CloneTemplate(c)
    <2>1. PICK t \in Unused(Template) : Decide(c, <<Insert(t, [default |-> FALSE])>>)
      BY <1>3 DEF CloneTemplate
    <2>2. t \in Template /\ ~Coming(t)
      BY UnusedIsNotComing
    <2>3. Decide(c, <<Write(t, None, [default |-> FALSE], NoField)>>)
      BY <2>1 DEF Insert
    <2>4. NoPromotion(t, None, [default |-> FALSE])
      BY DEF NoPromotion
    <2>5. QED
      BY <2>2, <2>3, <2>4, DefaultIsEdit, TameDecide
  <1>4. CASE UnsetDefaults(c)
    BY <1>4, UnsetStep
  <1>5. CASE DeleteTemplate(c)
    <2>1. PICK t : Decide(c, <<Then("drop template", t)>>)
      BY <1>5 DEF DeleteTemplate
    <2>2. AllHarmless(<<Then("drop template", t)>>)
      BY ReadIsHarmless
    <2>3. QED
      BY <2>1, <2>2, HarmlessDecide
  <1>6. CASE DropTemplate(c)
    <2> DEFINE t == Subject(c)
               users == UsedBy(t)
    <2>1. /\ At(c, "drop template") /\ todo' = [todo EXCEPT ![c] = Tail(@)] /\ UNCHANGED history
          /\ row' = [i \in Id |-> IF i = t THEN None
                                   ELSE IF i \in users THEN [row[i] EXCEPT !.template = None] ELSE row[i]]
      BY <1>6 DEF DropTemplate
    <2>2. users \subseteq ChargePoint
      BY DEF UsedBy, Rows
    <2> HIDE DEF t, users
    <2>3. DOMAIN row' = Id /\ \A i \in Template \cup Connector : row'[i] \in {row[i], None}
      BY <2>1, <2>2, ChargersAssumption
    <2>4. \A n \in Connector : Placed(row'[n])
      BY <2>3 DEF TemplatesInv, Placed
    <2>5. QED
      BY <2>1, <2>3, <2>4, HarmlessGoesBy
  <1>7. CASE ApplyTemplate(c)
    <2>1. PICK x : Decide(c, <<Then("apply", x)>>)
      BY <1>7 DEF ApplyTemplate
    <2>2. AllHarmless(<<Then("apply", x)>>)
      BY ReadIsHarmless
    <2>3. QED
      BY <2>1, <2>2, HarmlessDecide
  <1>8. CASE SetTemplate(c)
    <2> DEFINE t == Subject(c)[1]
               points == Subject(c)[2] \cap Rows(ChargePoint)
    <2>1. /\ At(c, "apply") /\ todo' = [todo EXCEPT ![c] = Tail(@)] /\ UNCHANGED history
          /\ row' = [i \in Id |-> IF i \in points THEN [row[i] EXCEPT !.template = t] ELSE row[i]]
      BY <1>8 DEF SetTemplate
    <2>2. points \subseteq ChargePoint
      BY DEF Rows
    <2> HIDE DEF t, points
    <2>3. DOMAIN row' = Id /\ \A i \in Template \cup Connector : row'[i] = row[i]
      BY <2>1, <2>2, ChargersAssumption
    <2>4. \A n \in Connector : Placed(row'[n])
      BY <2>3 DEF TemplatesInv, Placed
    <2>5. QED
      BY <2>1, <2>3, <2>4, HarmlessGoesBy
  <1>9. QED
    BY <1>1, <1>2, <1>3, <1>4, <1>5, <1>6, <1>7, <1>8 DEF TemplatesNext

-------------------------------------------------------------------------------
\* What the service does with the queue of a charger.
LEMMA QueueStep ==
  ASSUME TemplatesInv, NEW c \in Call, QueueNext(c)
  PROVE  TemplatesInv'
  <1>1. CASE QueueChargingSession(c)
    <2>1. PICK q, input :
          /\ q \in Unused(Queued)
          /\ Decide(c, <<Insert(q, input)>>)
      BY <1>1 DEF QueueChargingSession
    <2>2. q \notin Template \cup Connector
      BY <2>1, ChargersAssumption DEF Unused
    <2>3. AllHarmless(<<Insert(q, input)>>)
      BY <2>2, WriteIsHarmless DEF Insert
    <2>4. QED
      BY <2>1, <2>3, HarmlessDecide
  <1>2. CASE ProcessQueue(c)
    <2>1. PICK q : Decide(c, <<Then("check", q)>>)
      BY <1>2 DEF ProcessQueue
    <2>2. AllHarmless(<<Then("check", q)>>)
      BY ReadIsHarmless
    <2>3. QED
      BY <2>1, <2>2, HarmlessDecide
  <1>3. CASE CheckCharger(c)
    <2>1. Continue(c, "check", <<Then("take", Subject(c))>>) \/ Continue(c, "check", <<>>)
      BY <1>3 DEF CheckCharger
    <2>2. AllHarmless(<<Then("take", Subject(c))>>) /\ AllHarmless(<<>>)
      BY ReadIsHarmless, HarmlessNone
    <2>3. QED
      BY <2>1, <2>2, HarmlessContinue
  <1>4. CASE TakeFromQueue(c)
    <2>1. PICK left \in {None, row[Subject(c)]} : Perform(c, "take", Subject(c), left, <<>>)
      BY <1>4 DEF TakeFromQueue
    <2>2. Subject(c) \in Connector => Placed(left)
      BY <2>1 DEF TemplatesInv, Placed
    <2>3. QED
      BY <2>1, <2>2, HarmlessPerform
  <1>5. QED
    BY <1>1, <1>2, <1>3, <1>4 DEF QueueNext

\* Calls may end, and what is neither a template nor a connector may change.
LEMMA TemplatesQuiet ==
  ASSUME TemplatesInv, DOMAIN row' = Id, \A i \in Template \cup Connector : row'[i] = row[i],
         raced' = raced, crowded' = crowded,
         DOMAIN todo' = Call, todo' = [d \in Call |-> todo'[d]], \A d \in Call : todo'[d] \in {<<>>, todo[d]}
  PROVE  TemplatesInv'
  <1>1. \A d \in Call : TodoOK(todo'[d])
    BY HarmlessNone DEF TemplatesInv, TodoOK
  <1>2. ASSUME NEW t \in Template, Coming(t)' PROVE Coming(t)
    <2>1. CASE row'[t] # None /\ row'[t].default
      BY <2>1 DEF Coming
    <2>2. ASSUME NEW d \in Call, Poised(d, t)' PROVE Coming(t)
      <3>1. todo'[d] # <<>>
        BY <2>2, PoisedTodo DEF Poised
      <3>2. Poised(d, t)
        BY <2>2, <3>1 DEF Poised
      <3>3. QED
        BY <3>2 DEF Coming
    <2>3. QED
      BY <1>2, <2>1, <2>2 DEF Coming
  <1>3. (\A t \in Template : row'[t] \in TemplateRow \cup {None}) /\ \A n \in Connector : Placed(row'[n])
    BY DEF TemplatesInv
  <1>4. \A s, t \in Template \ (raced' \cup crowded') : Coming(s)' /\ Coming(t)' => s = t
    BY <1>2 DEF TemplatesInv
  <1>5. QED
    BY <1>1, <1>3, <1>4 DEF TemplatesInv

LEMMA ChargerStep ==
  ASSUME TemplatesInv, ChargerChanges
  PROVE  TemplatesInv'
  <1>1. PICK now : row' = [row EXCEPT ![Presence] = now] /\ todo' = todo /\ raced' = raced /\ crowded' = crowded
    BY DEF ChargerChanges, Outside, history
  <1>2. DOMAIN row' = Id /\ \A i \in Template \cup Connector : row'[i] = row[i]
    BY <1>1, ChargersAssumption DEF TemplatesInv
  <1>3. DOMAIN todo' = Call /\ todo' = [d \in Call |-> todo'[d]]
    BY <1>1 DEF TemplatesInv
  <1>4. QED
    BY <1>1, <1>2, <1>3, TemplatesQuiet

\* A template was written by a call that had it as the last to do.
LEMMA TemplateDone ==
  ASSUME TemplatesInv, NEW c \in Call, NEW t \in Template, NEW old, NEW put \in TemplateEdit,
         old = None => put \in TemplateRow,
         Did(c, Write(t, old, put, NoField)), Tail(todo[c]) = <<>>,
         "default" \in DOMAIN put /\ put.default /\ t \notin raced' => Coming(t)
  PROVE  TemplatesInv'
  <1> DEFINE q == Write(t, old, put, NoField)
  <1>1. DOMAIN q.on = {t} /\ q.on[t] = [saw |-> old, put |-> put, inc |-> NoField]
    BY DEF Write
  <1>2. /\ todo' = [todo EXCEPT ![c] = <<>>]
        /\ \A i \in DOMAIN q.on : (q.on[i].saw = None) = (row[i] = None)
        /\ row' = [i \in Id |-> IF i \in DOMAIN q.on THEN Applied(q.on[i], row[i]) ELSE row[i]]
        /\ raced \subseteq raced' /\ crowded \subseteq crowded'
    BY DEF Did
  <1> HIDE DEF q
  <1>3. DOMAIN row' = Id /\ \A i \in (Template \cup Connector) \ {t} : row'[i] = row[i]
    BY <1>1, <1>2, ChargersAssumption
  <1>4. (old = None) = (row[t] = None) /\ row'[t] = Applied([saw |-> old, put |-> put, inc |-> NoField], row[t])
    BY <1>1, <1>2, ChargersAssumption
  <1>5. /\ row'[t] \in TemplateRow
        /\ row'[t].default => ("default" \in DOMAIN put /\ put.default) \/ (row[t] # None /\ row[t].default)
    <2>1. CASE row[t] = None
      <3>1. row'[t] = put /\ put \in TemplateRow
        BY <1>4, <2>1, EditParts DEF Applied
      <3>2. DOMAIN put = {"default"}
        BY <3>1 DEF TemplateRow
      <3>3. QED
        BY <3>1, <3>2
    <2>2. CASE row[t] # None
      <3>1. row[t] \in TemplateRow
        BY <2>2 DEF TemplatesInv
      <3>2. row'[t] = [f \in DOMAIN row[t] |-> IF f \in DOMAIN put THEN put[f] ELSE row[t][f]]
        BY <1>4, <2>2, EditParts, AppliedIs
      <3>3. DOMAIN row[t] = {"default"} /\ row[t]["default"] \in BOOLEAN
        BY <3>1 DEF TemplateRow
      <3>4. "default" \in DOMAIN put => put["default"] \in BOOLEAN
        BY EditParts
      <3>5. row'[t] = [default |-> row'[t]["default"]]
        BY <3>2, <3>3
      <3>6. row'[t]["default"] \in BOOLEAN
        BY <3>2, <3>3, <3>4
      <3>7. row'[t] \in TemplateRow
        BY <3>5, <3>6 DEF TemplateRow
      <3>8. row'[t]["default"] => ("default" \in DOMAIN put /\ put["default"]) \/ row[t]["default"]
        BY <3>2, <3>3
      <3>9. QED
        BY <2>2, <3>7, <3>8
    <2>3. QED
      BY <2>1, <2>2
  <1>6. (\A s \in Template : row'[s] \in TemplateRow \cup {None}) /\ \A n \in Connector : Placed(row'[n])
    BY <1>3, <1>5, ChargersAssumption DEF TemplatesInv
  <1>7. todo'[c] = <<>> /\ \A d \in Call \ {c} : todo'[d] = todo[d]
    BY <1>2 DEF TemplatesInv
  <1>8. ASSUME NEW s \in Template \ (raced' \cup crowded'), Coming(s)' PROVE Coming(s) /\ s \notin raced \cup crowded
    <2>1. CASE row'[s] # None /\ row'[s].default
      <3>1. CASE s = t
        BY <1>2, <1>5, <1>8, <2>1, <3>1 DEF Coming
      <3>2. CASE s # t
        BY <1>2, <1>3, <1>8, <2>1, <3>2 DEF Coming
      <3>3. QED
        BY <3>1, <3>2
    <2>2. ASSUME NEW d \in Call, Poised(d, s)' PROVE Coming(s) /\ s \notin raced \cup crowded
      <3>1. d # c
        BY <1>7, <2>2, PoisedTodo DEF Poised
      <3>2. Poised(d, s)
        BY <1>7, <2>2, <3>1 DEF Poised
      <3>3. QED
        BY <1>2, <1>8, <3>2 DEF Coming
    <2>3. QED
      BY <1>8, <2>1, <2>2 DEF Coming
  <1>9. TodoOK(<<>>)
    BY HarmlessNone DEF TodoOK
  <1>10. QED
    BY <1>2, <1>3, <1>6, <1>8, <1>9, TemplatesStay

LEMMA HarmlessDone ==
  ASSUME TemplatesInv, NEW c \in Call, NEW q, Did(c, q), AllHarmless(todo[c])
  PROVE  TemplatesInv'
  <1>1. /\ ~Free(c) /\ q = Head(todo[c]) /\ q.do = "write"
        /\ todo' = [todo EXCEPT ![c] = Tail(todo[c])]
        /\ \A i \in DOMAIN q.on : (q.on[i].saw = None) = (row[i] = None)
        /\ row' = [i \in Id |-> IF i \in DOMAIN q.on THEN Applied(q.on[i], row[i]) ELSE row[i]]
        /\ raced \subseteq raced' /\ crowded \subseteq crowded'
    BY DEF Did
  <1> DEFINE s == Tail(todo[c])
  <1>2. Harmless(q) /\ AllHarmless(s)
    BY <1>1, HarmlessRest DEF Free
  <1> HIDE DEF s
  <1>3. DOMAIN row' = Id /\ \A t \in Template : row'[t] = row[t]
    BY <1>1, <1>2, ChargersAssumption DEF Harmless
  <1>4. ASSUME NEW n \in Connector PROVE Placed(row'[n])
    <2>1. CASE n \notin DOMAIN q.on
      BY <1>1, <2>1, ChargersAssumption DEF TemplatesInv
    <2>2. CASE n \in DOMAIN q.on
      <3> DEFINE w == q.on[n]
      <3>1. Stays(w) /\ row'[n] = Applied(w, row[n]) /\ row[n] # None
        BY <1>1, <1>2, <2>2, ChargersAssumption DEF Harmless, Stays
      <3>2. "point" \in DOMAIN row[n] /\ row[n].point \in ChargePoint
        BY <3>1 DEF TemplatesInv, Placed
      <3> HIDE DEF w
      <3>3. CASE w.put = None
        BY <3>1, <3>3 DEF Applied, Placed
      <3>4. CASE w.put # None
        <4>1. DOMAIN NoField = {}
          BY DEF NoField
        <4>2. w.inc = NoField /\ "point" \notin DOMAIN w.put
          BY <3>1, <3>4 DEF Stays
        <4>3. row'[n] = [f \in DOMAIN row[n] |-> IF f \in DOMAIN w.put THEN w.put[f] ELSE row[n][f]]
          BY <3>1, <3>4, <4>1, <4>2 DEF Applied
        <4>4. QED
          BY <3>2, <4>2, <4>3 DEF Placed
      <3>5. QED
        BY <3>3, <3>4
    <2>3. QED
      BY <2>1, <2>2
  <1>5. todo' = [todo EXCEPT ![c] = s] /\ TodoOK(s)
    BY <1>1, <1>2 DEF s, TodoOK
  <1>6. todo'[c] = s => \A t \in Template : ~Poised(c, t)'
    BY <1>2, NoPoise
  <1>7. \A t \in Template : t \in raced \cup crowded => t \in raced' \cup crowded'
    BY <1>1
  <1>8. QED
    BY <1>3, <1>4, <1>5, <1>6, <1>7, HarmlessStep

LEMMA TemplatesDone ==
  ASSUME Template \subseteq Watched, TemplatesInv, NEW c \in Call, NEW q, Did(c, q)
  PROVE  TemplatesInv'
  <1>1. q = Head(todo[c]) /\ q.do = "write"
    BY DEF Did
  <1>2. CASE AllHarmless(todo[c])
    BY <1>2, HarmlessDone
  <1>3. ASSUME NEW r \in TameWrites, Head(todo[c]) = r, Tail(todo[c]) = <<>> PROVE TemplatesInv'
    <2>1. PICK t \in Template, old \in TemplateRow \cup {None}, put \in TemplateEdit :
            NoPromotion(t, old, put) /\ r = Write(t, old, put, NoField)
      BY TameParts
    <2>2. Did(c, Write(t, old, put, NoField))
      BY <1>1, <1>3, <2>1
    <2>3. old = None => put \in TemplateRow
      BY <2>1, DefaultIsEdit DEF NoPromotion
    <2>4. ASSUME "default" \in DOMAIN put, put.default, t \notin raced' PROVE Coming(t)
      <3> DEFINE p == Write(t, old, put, NoField)
      <3>1. DOMAIN p.on = {t} /\ p.on[t].saw = old
        BY WriteParts
      <3>2. raced' = raced \cup
              (Watched \cap {i \in DOMAIN p.on : p.on[i].saw # row[i] /\ (p.on[i].saw = Unseen => p.on[i].put # NoField)})
        BY <2>2 DEF Did
      <3>3. old = [default |-> TRUE] /\ old \in TemplateRow
        BY <2>1, <2>4, DefaultIsEdit DEF NoPromotion
      <3>4. old # Unseen /\ old # None
        BY <3>3, ChargersAssumption
      <3> HIDE DEF p
      <3>5. row[t] = old
        BY <2>4, <3>1, <3>2, <3>4
      <3>6. old.default
        BY <3>3
      <3>7. QED
        BY <3>4, <3>5, <3>6 DEF Coming
    <2>5. QED
      BY <1>3, <2>2, <2>3, <2>4, TemplateDone
  <1>4. ASSUME NEW t \in Template, NEW old \in NotDefault, Head(todo[c]) = Promotion(t, old), Tail(todo[c]) = <<>>,
               todo[c] = <<Promotion(t, old)>>
        PROVE  TemplatesInv'
    <2>1. Did(c, Write(t, old, [default |-> TRUE], NoField))
      BY <1>1, <1>4 DEF Promotion
    <2>2. Coming(t)
      BY <1>4 DEF Coming, Poised, Poises
    <2>3. QED
      BY <1>4, <2>1, <2>2, DefaultIsEdit, TemplateDone
  <1>5. CASE todo[c] \in TemplateTodos
    <2>1. ASSUME NEW t PROVE Then("unset", t).do = "unset"
      BY ThenParts
    <2>2. QED
      BY <1>1, <1>3, <1>4, <1>5, <2>1, TodoHeads
  <1>6. QED
    BY <1>2, <1>5 DEF TemplatesInv, TodoOK

LEMMA TemplatesInvariance ==
  ASSUME Template \subseteq Watched
  PROVE  ChargersSpec => []TemplatesInv
  <1>1. CallsInit(NoChargers) => TemplatesInv
    <2> SUFFICES ASSUME CallsInit(NoChargers) PROVE TemplatesInv
      OBVIOUS
    <2>1. /\ row = [i \in Id |-> IF i \in DOMAIN NoChargers THEN NoChargers[i] ELSE None]
          /\ todo = [c \in Call |-> <<>>]
      BY DEF CallsInit
    <2>2. DOMAIN NoChargers = {Presence}
      BY DEF NoChargers
    <2>3. \A i \in Template \cup Connector : row[i] = None
      BY <2>1, <2>2, ChargersAssumption
    <2>4. \A c \in Call : todo[c] = <<>> /\ TodoOK(todo[c])
      BY <2>1, HarmlessNone DEF TodoOK
    <2>5. \A c \in Call, t \in Template : ~Poised(c, t)
      BY <2>4, PoisedTodo DEF Poised
    <2>6. QED
      BY <2>1, <2>3, <2>4, <2>5 DEF TemplatesInv, Placed, Coming
  <1>2. TemplatesInv /\ [(\E c \in Call : ChargersNext(c) \/ Step(c)) \/ ChargerChanges \/ Restart]_vars
          => TemplatesInv'
    <2> SUFFICES ASSUME TemplatesInv,
                        [(\E c \in Call : ChargersNext(c) \/ Step(c)) \/ ChargerChanges \/ Restart]_vars
                 PROVE  TemplatesInv'
      OBVIOUS
    <2>1. ASSUME NEW c \in Call, ChargersNext(c) PROVE TemplatesInv'
      BY <2>1, StationsStep, ChargePointsStep, ConnectorsStep, TemplatesStep, QueueStep DEF ChargersNext
    <2>2. CASE ChargerChanges
      BY <2>2, ChargerStep
    <2>3. CASE [(\E c \in Call : Step(c)) \/ Restart]_vars
      <3> DEFINE S == {todo[c] : c \in Call} \cup {<<>>}
      <3>1. todo \in [Call -> S] /\ <<>> \in S
        BY DEF TemplatesInv
      <3> HIDE DEF S
      <3>2. \/ Quiet /\ todo' \in [Call -> S]
            \/ \E c \in Call : \E q : Did(c, q)
        BY <2>3, <3>1, StepIsDone
      <3>3. CASE Quiet /\ todo' \in [Call -> S]
        <4>1. DOMAIN row' = Id /\ \A i \in Template \cup Connector : row'[i] = row[i]
          BY <3>3 DEF Quiet, TemplatesInv
        <4>2. QED
          BY <3>3, <4>1, TemplatesQuiet DEF Quiet
      <3>4. QED
        BY <3>2, <3>3, TemplatesDone
    <2>4. QED
      BY <2>1, <2>2, <2>3
  <1>3. QED
    BY <1>1, <1>2, PTL DEF ChargersSpec

\* A default is given once the others have lost it, and who is about to give it to another template
\* by then is excused: so there is one default, whatever fails, and whatever the other calls about
\* the station, its connectors and its queue do.
THEOREM OneIsDefault ==
  ASSUME Template \subseteq Watched
  PROVE  ChargersSpec => []OneDefaultTemplate
  <1>1. TemplatesInv => OneDefaultTemplate
    BY DEF TemplatesInv, OneDefaultTemplate, Coming, Rows
  <1>2. QED
    BY <1>1, TemplatesInvariance, PTL
===============================================================================
