--------------------------------- MODULE Calls ---------------------------------
(***************************************************************************)
(* How the services of the API work on their records: a call looks at      *)
(* records and decides on writes, and does these later, query by query,    *)
(* while other calls do theirs.  Nothing locks a record in between.        *)
(*                                                                         *)
(* A record is a row of a table, or what a payment gateway, Redis or the   *)
(* memory of a process keeps.  The modules that extend this one give the   *)
(* methods of a service as actions of the caller c; a call that is refused *)
(* or only reads changes nothing, and is not a step.                       *)
(***************************************************************************)
EXTENDS Naturals, Sequences, TLC

CONSTANTS
  Call,    \* calls that may run at the same time
  Id,      \* names of records
  Watched, \* records of which raced is kept, for the properties that ask for it,
  Rival,   \* and crowded: those a call inserts only if there is no other like it, or few
  None,    \* no record, no value (null)
  Unseen   \* the version of a record that a call decides on without a look

ASSUME UnseenAssumption == Unseen # None

VARIABLES
  row,     \* row[i]: the record i, or None
  todo,    \* todo[c]: the queries c is still going to do; <<>> when c is not running
  raced,   \* records that a call changed without having seen them as they were by then
  crowded  \* rivals that a call inserted after another call had written since it decided

vars == <<row, todo, raced, crowded>>

\* How records came about, which no query tells.
history == <<raced, crowded>>

CallsInit(records) ==
  /\ row = [i \in Id |-> IF i \in DOMAIN records THEN records[i] ELSE None]
  /\ todo = [c \in Call |-> <<>>]
  /\ raced = {} /\ crowded = {}

\* The records of a table.
Rows(T) == {i \in T : row[i] # None}

Free(c) == todo[c] = <<>>

-------------------------------------------------------------------------------
(* Queries *)

NoField == <<>>

Write(i, old, fields, more) ==
  [do |-> "write", on |-> [j \in {i} |-> [saw |-> old, put |-> fields, inc |-> more]]]

\* update of i with the given fields, decided on the record as it is now
Put(i, fields) == Write(i, row[i], fields, NoField)

\* update that follows a write by which the same call left i as old
PutAfter(i, old, fields) == Write(i, old, fields, NoField)

\* update whatever i is
Overwrite(i, fields) == Write(i, Unseen, fields, NoField)

\* update with { increment }
Add(i, more) == Write(i, Unseen, NoField, more)

\* What an insert demands of a record it refers to (a foreign key).
Exists(i) == Add(i, NoField)

Insert(i, r) == Write(i, None, r, NoField)

Delete(i) == Put(i, None)

\* Two writes in one transaction.
Both(q, p) ==
  [do |-> "write",
   on |-> [i \in DOMAIN q.on \cup DOMAIN p.on |-> IF i \in DOMAIN q.on THEN q.on[i] ELSE p.on[i]]]

\* A read in the middle of a call, which goes on with the action of this name.
Then(name, i) == [do |-> name, on |-> i]

\* Of the data of a query, the fields that are defined.
Given(fields) == [f \in {g \in DOMAIN fields : fields[g] # None} |-> fields[f]]

\* The record r after the change w: fields that w does not give are not written.
Applied(w, r) ==
  IF w.put = None THEN None
  ELSE IF r = None THEN w.put
  ELSE [f \in DOMAIN r |-> IF f \in DOMAIN w.put THEN w.put[f]
                           ELSE IF f \in DOMAIN w.inc THEN r[f] + w.inc[f]
                           ELSE r[f]]

\* An update or delete throws when there is no record; an insert, when there is one.
Fits(w, r) == (w.saw = None) = (r = None)

-------------------------------------------------------------------------------
(* Calls *)

Writes(queries) == {queries[k].on : k \in {n \in DOMAIN queries : queries[n].do = "write"}}

\* Records that running calls are going to write.
Pending == UNION {DOMAIN w : w \in UNION {Writes(todo[c]) : c \in Call}}

\* Records that these queries are going to insert.
Inserting(queries) == {i \in Id : \E w \in Writes(queries) : i \in DOMAIN w /\ w[i].saw = None}

\* Names for a record to insert.  The database never gives one twice.
Unused(T) == {i \in T : row[i] = None /\ i \notin Pending}

\* What other calls are about to insert, on the strength of what they saw.
Crowding(c) == Rival \cap UNION {Inserting(todo[d]) : d \in Call \ {c}}

\* A record that these queries insert, and that is not there, has no history yet.
Afresh(queries, crowd) ==
  LET afresh == {i \in Inserting(queries) : row[i] = None}
  IN /\ raced' = raced \ afresh
     /\ crowded' = (crowded \cup crowd) \ afresh

\* A call starts: it has looked, and decided on these queries.
Decide(c, queries) ==
  /\ Free(c)
  /\ todo' = [todo EXCEPT ![c] = queries]
  /\ Afresh(queries, {})
  /\ UNCHANGED row

\* A call has come to the read of that name.
At(c, name) == ~Free(c) /\ Head(todo[c]).do = name

Subject(c) == Head(todo[c]).on

\* A call goes on after that read.
Continue(c, name, queries) ==
  /\ At(c, name)
  /\ todo' = [todo EXCEPT ![c] = queries \o Tail(@)]
  /\ Afresh(queries, {})
  /\ UNCHANGED row

\* A call has another service do its work, which leaves i as r.
Perform(c, name, i, r, queries) ==
  /\ At(c, name)
  /\ row' = [row EXCEPT ![i] = r]
  /\ todo' = [todo EXCEPT ![c] = queries \o Tail(@)]
  /\ Afresh(queries, Crowding(c))

\* Something outside of the API leaves i as r.
Outside(i, r) ==
  /\ row[i] # None
  /\ row' = [row EXCEPT ![i] = r]
  /\ UNCHANGED <<todo, history>>

End(c) == todo' = [todo EXCEPT ![c] = <<>>] /\ UNCHANGED <<row, history>>

\* The next write of a call.  If it throws, the call ends there.
Commit(c) ==
  /\ At(c, "write")
  /\ LET ws == Subject(c)
         blind == {i \in DOMAIN ws : ws[i].saw # row[i] /\ (ws[i].saw = Unseen => ws[i].put # NoField)}
     IN IF \A i \in DOMAIN ws : Fits(ws[i], row[i])
        THEN /\ row' = [i \in Id |-> IF i \in DOMAIN ws THEN Applied(ws[i], row[i]) ELSE row[i]]
             /\ todo' = [todo EXCEPT ![c] = Tail(@)]
             /\ raced' = raced \cup (Watched \cap blind)
             /\ crowded' = crowded \cup Crowding(c)
        ELSE End(c)

\* A query of a call fails: what the call wrote before stays.
Fail(c) == ~Free(c) /\ End(c)

Step(c) == Commit(c) \/ Fail(c)

\* The process is restarted.
Restart ==
  /\ todo' = [c \in Call |-> <<>>]
  /\ UNCHANGED <<row, history>>
===============================================================================
