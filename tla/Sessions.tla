------------------------------- MODULE Sessions -------------------------------
(***************************************************************************)
(* The life of a charging session: the CSMS engine turns a charger's       *)
(* StartTransaction, MeterValues and StopTransaction into messages on      *)
(* three topics (OcppGateway.handleMessage), and the API's one consumer    *)
(* applies them to the session in Redis, to the set of active sessions and *)
(* to the table ChargingSession (KafkaConsumerService, SessionManager).    *)
(*                                                                         *)
(* The topics are read independently of one another, so messages of one    *)
(* transaction arrive in any order; what was not committed when the        *)
(* consumer restarts arrives again.  The consumer handles one message at a *)
(* time and catches every error, so a message is consumed whether or not   *)
(* its handler got to the end.  Redis failures are swallowed: the call has *)
(* no effect, or reads nothing.                                            *)
(***************************************************************************)
EXTENDS Naturals

CONSTANTS
  Txn,         \* transaction ids
  Resolvable,  \* those whose chargerId and idTag are ids of a station and of a user
  MaxMeter,    \* bound: the energy register of a charger (kWh)
  MaxFaults,   \* bound: failed sends, failed Redis calls, restarts, expiries
  None

ASSUME SessionsAssumption ==
  /\ Resolvable \subseteq Txn
  /\ MaxMeter \in Nat
  /\ MaxFaults \in Nat

Meter == 0..MaxMeter
Message == [kind : {"start", "meter", "stop"}, txn : Txn, value : Meter]
\* billed is the energy that the cost was computed from; startSession records no meterStart.
Session == [status : {"ACTIVE", "COMPLETED"}, energy : Meter, billed : Meter]
Row == [kwh : Meter, billed : Meter]

ASSUME NoneAssumption == None \notin Message \cup Session \cup Row

VARIABLES
  phase,      \* phase[t]: what the charger has reported of t
  first,      \* first[t]: the charger's register at the start, its meterStart
  meter,      \* meter[t]: its register now
  sent,       \* messages on the topics
  handled,    \* messages whose handler has returned since the last (re)join
  committed,  \* messages whose offset is committed
  at,         \* the await the consumer stands at
  cur,        \* the message it handles
  cache,      \* cache[t]: the key session:t of Redis
  active,     \* the Redis set sessions:active
  db,         \* db[t]: the ChargingSession row of t
  faults,
  taken,      \* messages that were ever delivered
  damaged,    \* transactions that a failed call, or the expiry of their key, has hit
  reordered,  \* transactions whose start was delivered after their stop
  repeated    \* transactions of which a message was delivered again

charger == <<phase, first, meter>>
topics == <<sent, handled, committed, taken>>
worker == <<at, cur>>
store == <<cache, active, db>>
history == <<damaged, reordered, repeated>>
vars == <<charger, topics, worker, store, faults, history>>

TypeOK ==
  /\ phase \in [Txn -> {"none", "charging", "stopped"}]
  /\ first \in [Txn -> Meter]
  /\ meter \in [Txn -> Meter]
  /\ sent \in SUBSET Message
  /\ handled \in SUBSET sent
  /\ committed \in SUBSET sent
  /\ taken \in SUBSET sent
  /\ at \in {"idle", "set", "add", "update", "end", "remove", "persist"}
  /\ cur \in Message \cup {None}
  /\ cache \in [Txn -> Session \cup {None}]
  /\ active \in SUBSET Txn
  /\ db \in [Txn -> Row \cup {None}]
  /\ faults \in 0..MaxFaults
  /\ damaged \in SUBSET Txn
  /\ reordered \in SUBSET Txn
  /\ repeated \in SUBSET Txn

Init ==
  /\ phase = [t \in Txn |-> "none"]
  /\ first = [t \in Txn |-> 0]
  /\ meter = [t \in Txn |-> 0]
  /\ sent = {} /\ handled = {} /\ committed = {} /\ taken = {}
  /\ at = "idle" /\ cur = None
  /\ cache = [t \in Txn |-> None]
  /\ active = {}
  /\ db = [t \in Txn |-> None]
  /\ faults = 0
  /\ damaged = {} /\ reordered = {} /\ repeated = {}

Fault(t) ==
  /\ faults < MaxFaults
  /\ faults' = faults + 1
  /\ damaged' = damaged \cup {t}

-------------------------------------------------------------------------------
(* Charger and gateway *)

\* The gateway answers the charger first; the emit that follows may fail, and is logged.
Emit(k, t, v) ==
  \/ /\ sent' = sent \cup {[kind |-> k, txn |-> t, value |-> v]}
     /\ UNCHANGED <<faults, damaged>>
  \/ Fault(t) /\ UNCHANGED sent

StartTransaction(t, m0) ==
  /\ phase[t] = "none"
  /\ phase' = [phase EXCEPT ![t] = "charging"]
  /\ first' = [first EXCEPT ![t] = m0]
  /\ meter' = [meter EXCEPT ![t] = m0]
  /\ Emit("start", t, m0)
  /\ UNCHANGED <<handled, committed, taken, worker, store, reordered, repeated>>

\* The register has not moved on, perhaps, since the last report or the start.
MeterValues(t, m) ==
  /\ phase[t] = "charging"
  /\ m >= meter[t]
  /\ meter' = [meter EXCEPT ![t] = m]
  /\ Emit("meter", t, m)
  /\ UNCHANGED <<phase, first, handled, committed, taken, worker, store, reordered, repeated>>

StopTransaction(t, m) ==
  /\ phase[t] = "charging"
  /\ m >= meter[t]
  /\ phase' = [phase EXCEPT ![t] = "stopped"]
  /\ meter' = [meter EXCEPT ![t] = m]
  /\ Emit("stop", t, m)
  /\ UNCHANGED <<first, handled, committed, taken, worker, store, reordered, repeated>>

-------------------------------------------------------------------------------
(* The consumer *)

Goto(l) == at' = l /\ UNCHANGED <<cur, handled>>

Return(m) ==
  /\ at' = "idle"
  /\ cur' = None
  /\ handled' = handled \cup {m}

Stop(t) == {m \in sent : m.kind = "stop" /\ m.txn = t}

Repeated(m) == IF m \in taken THEN repeated \cup {m.txn} ELSE repeated

\* The message counts as handled when it is delivered.
Mutant_Deliver(m) ==
  /\ at = "idle"
  /\ m \in sent \ handled
  /\ taken' = taken \cup {m}
  /\ reordered' = IF m.kind = "start" /\ Stop(m.txn) \cap taken # {}
                  THEN reordered \cup {m.txn} ELSE reordered
  /\ repeated' = Repeated(m)
  /\ IF \/ m.kind = "stop" /\ cache[m.txn] = None
        \/ m.kind = "meter" /\ m.value = 0
     THEN Return(m)
     ELSE /\ at' = IF m.kind = "start" THEN "set" ELSE "update"
          /\ cur' = m
          /\ handled' = handled \cup {m}
  /\ UNCHANGED <<charger, sent, committed, store, faults, damaged>>

\* Delivery, up to the handler's first await that matters: handleSessionStop looks the
\* session up and drops a stop whose session it does not find; handleMeterValues ignores a
\* register that reads zero.
Deliver(m) ==
  /\ at = "idle"
  /\ m \in sent \ handled
  /\ taken' = taken \cup {m}
  /\ reordered' = IF m.kind = "start" /\ Stop(m.txn) \cap taken # {}
                  THEN reordered \cup {m.txn} ELSE reordered
  /\ repeated' = Repeated(m)
  /\ IF \/ m.kind = "stop" /\ cache[m.txn] = None
        \/ m.kind = "meter" /\ m.value = 0
     THEN Return(m)
     ELSE /\ at' = IF m.kind = "start" THEN "set" ELSE "update"
          /\ cur' = m
          /\ UNCHANGED handled
  /\ UNCHANGED <<charger, sent, committed, store, faults, damaged>>

\* The energy is left undefined until the first report.
Mutant_StartSet ==
  /\ at = "set"
  /\ cache' = [cache EXCEPT ![cur.txn] = [status |-> "ACTIVE", energy |-> None, billed |-> 0]]
  /\ Goto("add")
  /\ UNCHANGED <<charger, sent, committed, taken, active, db, faults, history>>

\* startSession: a fresh session, whatever the key held ...
StartSet ==
  /\ at = "set"
  /\ cache' = [cache EXCEPT ![cur.txn] = [status |-> "ACTIVE", energy |-> 0, billed |-> 0]]
  /\ Goto("add")
  /\ UNCHANGED <<charger, sent, committed, taken, active, db, faults, history>>

\* ... and its place among the active ones.  An emit that fails after that changes nothing.
StartAdd ==
  /\ at = "add"
  /\ active' = active \cup {cur.txn}
  /\ Return(cur)
  /\ UNCHANGED <<charger, sent, committed, taken, cache, db, faults, history>>

\* The final register of a stop is left out.
Mutant_Updated(s, m) == IF m.kind = "meter" THEN [s EXCEPT !.energy = m.value, !.billed = m.value] ELSE s

\* What updateSession makes of a session: a stop brings the final register and no cost.
Updated(s, m) ==
  LET billed == IF m.kind = "meter" THEN m.value ELSE s.billed
  IN  [status |-> s.status, energy |-> m.value, billed |-> billed]

AfterUpdate == IF cur.kind = "stop" THEN Goto("end") ELSE Return(cur)

\* The handler waits for a session that is not there (yet).
Mutant_Update ==
  /\ at = "update"
  /\ cache[cur.txn] # None
  /\ cache' = [cache EXCEPT ![cur.txn] = Updated(@, cur)]
  /\ AfterUpdate
  /\ UNCHANGED <<charger, sent, committed, taken, active, db, faults, history>>

\* updateSession, which does nothing for a session that is gone.
Update ==
  /\ at = "update"
  /\ cache' = IF cache[cur.txn] = None THEN cache
              ELSE [cache EXCEPT ![cur.txn] = Updated(@, cur)]
  /\ AfterUpdate
  /\ UNCHANGED <<charger, sent, committed, taken, active, db, faults, history>>

\* Its emit of session.updated throws: a stop ends here, before endSession.
UpdateEmitFails ==
  /\ at = "update"
  /\ cache[cur.txn] # None
  /\ Fault(cur.txn)
  /\ cache' = [cache EXCEPT ![cur.txn] = Updated(@, cur)]
  /\ Return(cur)
  /\ UNCHANGED <<charger, sent, committed, taken, active, db, reordered, repeated>>

\* The session is not taken from the active ones.
Mutant_EndSet ==
  /\ at = "end"
  /\ IF cache[cur.txn] = None
     THEN Return(cur) /\ UNCHANGED cache
     ELSE /\ cache' = [cache EXCEPT ![cur.txn].status = "COMPLETED"]
          /\ Goto("persist")
  /\ UNCHANGED <<charger, sent, committed, taken, active, db, faults, history>>

\* endSession: the session is completed in Redis ...
EndSet ==
  /\ at = "end"
  /\ IF cache[cur.txn] = None
     THEN Return(cur) /\ UNCHANGED cache
     ELSE /\ cache' = [cache EXCEPT ![cur.txn].status = "COMPLETED"]
          /\ Goto("remove")
  /\ UNCHANGED <<charger, sent, committed, taken, active, db, faults, history>>

\* ... taken from the active ones ...
Remove ==
  /\ at = "remove"
  /\ active' = active \ {cur.txn}
  /\ Goto("persist")
  /\ UNCHANGED <<charger, sent, committed, taken, cache, db, faults, history>>

\* ... and, if the emit of session.ended does not throw, written to the database once: the
\* primary key and the foreign keys refuse other writes, and the error is logged.
Persist ==
  /\ at = "persist"
  /\ db' = IF cur.txn \in Resolvable /\ db[cur.txn] = None
           THEN [db EXCEPT ![cur.txn] = [kwh |-> cache[cur.txn].energy,
                                         billed |-> cache[cur.txn].billed]]
           ELSE db
  /\ Return(cur)
  /\ UNCHANGED <<charger, sent, committed, taken, cache, active, faults, history>>

PersistFails ==
  /\ at = "persist"
  /\ Fault(cur.txn)
  /\ Return(cur)
  /\ UNCHANGED <<charger, sent, committed, taken, store, reordered, repeated>>

\* A Redis call of a handler fails.  A read that fails finds no session, a write that fails
\* is skipped, and the handler goes on.
RedisFails ==
  /\ at \in {"set", "add", "update", "end", "remove"}
  /\ Fault(cur.txn)
  /\ \/ at = "set" /\ Goto("add")
     \/ at = "add" /\ Return(cur)
     \/ at = "update" /\ AfterUpdate
     \/ at = "end" /\ (Return(cur) \/ (cache[cur.txn] # None /\ Goto("remove")))
     \/ at = "remove" /\ Goto("persist")
  /\ UNCHANGED <<charger, sent, committed, taken, store, reordered, repeated>>

\* The first read of handleSessionStop fails.
LookupFails(m) ==
  /\ at = "idle"
  /\ m \in sent \ handled
  /\ m.kind = "stop"
  /\ Fault(m.txn)
  /\ taken' = taken \cup {m}
  /\ repeated' = Repeated(m)
  /\ Return(m)
  /\ UNCHANGED <<charger, sent, committed, store, reordered>>

-------------------------------------------------------------------------------
(* Environment *)

\* The key of a session expires a day after it was last written, not while endSession holds
\* the session it has just read there.
Expire(t) ==
  /\ ~(at \in {"remove", "persist"} /\ cur.txn = t)
  /\ cache[t] # None
  /\ Fault(t)
  /\ cache' = [cache EXCEPT ![t] = None]
  /\ UNCHANGED <<charger, topics, worker, active, db, reordered, repeated>>

CommitOffsets ==
  /\ committed # handled
  /\ committed' = handled
  /\ UNCHANGED <<charger, sent, handled, taken, worker, store, faults, history>>

\* The API restarts, in the middle of a handler perhaps: what was not committed comes again.
Restart ==
  /\ faults < MaxFaults
  /\ faults' = faults + 1
  /\ at' = "idle"
  /\ cur' = None
  /\ handled' = committed
  /\ UNCHANGED <<charger, sent, committed, taken, store, history>>

Handle == StartSet \/ StartAdd \/ Update \/ EndSet \/ Remove \/ Persist

Consume == Handle \/ \E m \in sent : Deliver(m)

Next ==
  \/ \E t \in Txn :
       \/ \E m \in Meter : StartTransaction(t, m) \/ MeterValues(t, m) \/ StopTransaction(t, m)
       \/ Expire(t)
  \/ Consume
  \/ UpdateEmitFails \/ PersistFails \/ RedisFails
  \/ \E m \in sent : LookupFails(m)
  \/ CommitOffsets \/ Restart

\* The consumer goes on polling, handling and committing.
Fairness == WF_vars(Consume) /\ WF_vars(CommitOffsets)

Spec == Init /\ [][Next]_vars /\ Fairness

-------------------------------------------------------------------------------
(* Properties *)

\* getActiveSessions: the members of the set whose key can be read, whatever their status.
ActiveSessions == {t \in active : cache[t] # None}

\* Every message of t has been handled.
Settled(t) ==
  /\ at = "idle" \/ cur.txn # t
  /\ \A m \in sent : m.txn = t => m \in handled

\* The list of active sessions shows the sessions whose status is ACTIVE and no other, once
\* their messages have been handled, in whatever order and however often.
ActiveListAgrees ==
  \A t \in Txn \ damaged : Settled(t) =>
    (t \in ActiveSessions <=> (cache[t] # None /\ cache[t].status = "ACTIVE"))

\* A transaction that the charger has stopped ends: completed in Redis, off the list, and in
\* the database if it can be, however its handlers were interrupted and repeated, unless a
\* call has failed or its start came after its stop.
StoppedIsClosed ==
  \A t \in Txn \ (damaged \cup reordered) : phase[t] = "stopped" /\ Settled(t) =>
    /\ cache[t] # None
    /\ cache[t].status = "COMPLETED"
    /\ t \notin active
    /\ t \in Resolvable => db[t] # None

\* What the database holds of a session is the charger's final register, and not an earlier
\* report that was handled later or again.
PersistedIsFinal == \A t \in Txn \ damaged : db[t] # None => db[t].kwh = meter[t]

\* A completed session costs what its energy costs.
BilledAtRate ==
  \A t \in Txn : cache[t] # None /\ cache[t].status = "COMPLETED" =>
    cache[t].billed = cache[t].energy

\* The energy delivered is what the register has advanced by.
EnergyIsConsumption ==
  \A t \in Txn : cache[t] # None /\ cache[t].status = "COMPLETED" =>
    cache[t].energy = meter[t] - first[t]

\* Whoever looks at a session sees what SessionPromise says: in Redis its status and energy,
\* in the database its energy.
Shown(t) == IF cache[t] = None THEN [status |-> "none", energy |-> 0]
            ELSE [status |-> cache[t].status, energy |-> cache[t].energy]

Recorded(t) == IF db[t] = None THEN None ELSE db[t].kwh

Promise == INSTANCE SessionPromise WITH
  life <- phase,
  register <- meter,
  shown <- [t \in Txn |-> Shown(t)],
  record <- [t \in Txn |-> Recorded(t)],
  doubtful <- damaged

SessionsKeepPromise == Promise!Spec

\* No message blocks its topic, whatever its handler meets.
EveryMessageIsConsumed == \A m \in Message : m \in sent ~> m \in committed
===============================================================================
