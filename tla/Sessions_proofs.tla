--------------------------- MODULE Sessions_proofs ---------------------------
(***************************************************************************)
(* Proofs about Sessions for every set of transactions and every bound.    *)
(* The invariant says which message of a transaction is still to be        *)
(* handled whenever Redis, the list of active sessions and the database do *)
(* not agree about it: a restart leaves a handler half done, and the       *)
(* message that comes again repairs what was left.                         *)
(***************************************************************************)
EXTENDS Sessions, TLAPS

IsStart(m, t) == m.kind = "start" /\ m.txn = t
IsStop(m, t) == m.kind = "stop" /\ m.txn = t

\* Messages are sent once the charger has come so far, a stop with its final register; what
\* is missing was lost by a failed send.
MsgInv ==
  /\ committed \subseteq handled /\ handled \subseteq taken
  /\ \A m \in sent :
       /\ m.kind \in {"start", "meter"} => phase[m.txn] # "none"
       /\ m.kind = "stop" => phase[m.txn] = "stopped" /\ m.value = meter[m.txn]
  /\ \A t \in Txn \ damaged :
       /\ phase[t] # "none" => \E m \in sent : IsStart(m, t)
       /\ phase[t] = "stopped" => \E m \in sent : IsStop(m, t)

\* The consumer handles a message that counts as unhandled, at an await of its handler.
WorkInv ==
  /\ at = "idle" => cur = None
  /\ at # "idle" => cur \in taken \ handled
  /\ at \in {"set", "add"} => cur.kind = "start"
  /\ at = "update" => cur.kind \in {"meter", "stop"}
  /\ at \in {"end", "remove", "persist"} => cur.kind = "stop"

\* What the session in hand looks like at each await.
CacheInv ==
  /\ at \in {"remove", "persist"} => cache[cur.txn] # None
  /\ at # "idle" /\ cur.txn \notin damaged =>
       /\ at = "add" => cache[cur.txn] # None /\ cache[cur.txn].status = "ACTIVE"
       /\ cur.kind = "stop" => cache[cur.txn] # None
       /\ at \in {"end", "remove", "persist"} => cache[cur.txn].energy = cur.value
       /\ at \in {"remove", "persist"} => cache[cur.txn].status = "COMPLETED"
       /\ at = "persist" => cur.txn \notin active

\* Redis and the list of active sessions disagree only while a message is to come (again).
ActiveInv ==
  \A t \in Txn \ damaged : cache[t] # None =>
    /\ cache[t].status = "ACTIVE" /\ t \notin active =>
         \E m \in sent \ handled : IsStart(m, t)
    /\ cache[t].status = "COMPLETED" /\ t \in active =>
         \E m \in sent \ handled : IsStop(m, t)

\* A start that was handled left a session; a stop that was handled has closed it, or came
\* before any session.
ClosedInv ==
  /\ \A t \in Txn \ damaged : \A m \in handled : IsStart(m, t) => cache[t] # None
  /\ \A t \in Txn \ (damaged \cup reordered) :
       /\ at \in {"set", "add"} /\ cur.txn = t => \A m \in taken : ~IsStop(m, t)
       /\ \A m \in handled : IsStop(m, t) =>
            \/ cache[t] = None
            \/ cache[t].status = "COMPLETED" /\ (t \in Resolvable => db[t] # None)

\* Only a stop writes to the database, and it writes the final register.
RowInv ==
  /\ \A t \in Txn : db[t] # None => phase[t] = "stopped"
  /\ PersistedIsFinal

IInv == TypeOK /\ MsgInv /\ WorkInv /\ CacheInv /\ ActiveInv /\ ClosedInv /\ RowInv

-------------------------------------------------------------------------------
\* The initial state satisfies every part.
LEMMA InitInv == Init => IInv
  <1> SUFFICES ASSUME Init PROVE IInv
    OBVIOUS
  <1> USE SessionsAssumption DEF Init
  <1>1. TypeOK
    BY DEF TypeOK, Meter
  <1>2. MsgInv /\ WorkInv /\ CacheInv /\ ActiveInv /\ ClosedInv /\ RowInv
    BY DEF MsgInv, WorkInv, CacheInv, ActiveInv, ClosedInv, RowInv, PersistedIsFinal
  <1> QED
    BY <1>1, <1>2 DEF IInv

\* The message in hand was sent and delivered, and does not count as handled.
LEMMA InHand ==
  ASSUME TypeOK, WorkInv, at # "idle"
  PROVE  /\ cur \in sent \ handled /\ cur \in taken
         /\ cur \in Message /\ cur.txn \in Txn /\ cur.value \in Meter
  BY DEF TypeOK, WorkInv, Message

\* updateSession sets the energy and leaves the status alone.
LEMMA UpdatedSession ==
  ASSUME NEW s \in Session, NEW m \in Message
  PROVE  Updated(s, m) \in Session /\ Updated(s, m).energy = m.value /\ Updated(s, m).status = s.status
  BY DEF Updated, Session, Message

\* A call that fails is within the bound.
LEMMA FaultCounted ==
  ASSUME TypeOK, NEW t \in Txn, Fault(t)
  PROVE  faults' \in 0..MaxFaults /\ damaged' \in SUBSET Txn
  BY SessionsAssumption DEF TypeOK, Fault

\* A charger starts a transaction once, so no message of it was sent before.
LEMMA StartTransactionInv ==
  ASSUME NEW t \in Txn, NEW v \in Meter, IInv, StartTransaction(t, v) PROVE IInv'
  <1> USE SessionsAssumption, NoneAssumption DEF IInv, StartTransaction, Emit, Fault, IsStart, IsStop,
        charger, topics, worker, store, history
  <1>1. TypeOK'
    BY DEF TypeOK, Message
  <1>2. MsgInv'
    <2>1. committed \subseteq handled /\ handled \subseteq taken
      BY DEF MsgInv
    <2>2. ASSUME NEW m \in sent' PROVE /\ m.kind \in {"start", "meter"} => phase'[m.txn] # "none"
                                       /\ m.kind = "stop" => phase'[m.txn] = "stopped" /\ m.value = meter'[m.txn]
      BY <2>2 DEF TypeOK, MsgInv, Message
    <2>3. ASSUME NEW u \in Txn \ damaged'
          PROVE  /\ phase'[u] # "none" => \E m \in sent' : IsStart(m, u)
                 /\ phase'[u] = "stopped" => \E m \in sent' : IsStop(m, u)
      <3>1. CASE u = t
        <4>1. [kind |-> "start", txn |-> t, value |-> v] \in sent' /\ phase'[u] = "charging"
          BY <2>3, <3>1 DEF TypeOK
        <4> QED
          BY <3>1, <4>1
      <3>2. CASE u # t
        <4>1. phase'[u] = phase[u] /\ u \notin damaged /\ sent \subseteq sent'
          BY <2>3, <3>2 DEF TypeOK
        <4> QED
          BY <4>1 DEF MsgInv
      <3> QED
        BY <3>1, <3>2
    <2> QED
      BY <2>1, <2>2, <2>3 DEF MsgInv
  <1>3. WorkInv'
    BY DEF WorkInv
  <1>4. CacheInv'
    BY DEF CacheInv
  <1>5. ActiveInv'
    BY DEF ActiveInv
  <1>6. ClosedInv'
    BY DEF ClosedInv
  <1>7. RowInv'
    BY DEF RowInv, PersistedIsFinal
  <1> QED
    BY <1>1, <1>2, <1>3, <1>4, <1>5, <1>6, <1>7

\* The register of a charging transaction moves on; no final register was sent yet.
LEMMA MeterValuesInv ==
  ASSUME NEW t \in Txn, NEW v \in Meter, IInv, MeterValues(t, v) PROVE IInv'
  <1> USE SessionsAssumption, NoneAssumption DEF IInv, MeterValues, Emit, Fault, IsStart, IsStop,
        charger, topics, worker, store, history
  <1>1. TypeOK'
    BY DEF TypeOK, Message, Session, Row, Meter
  <1>2. MsgInv'
    BY DEF MsgInv
  <1>3. WorkInv'
    BY DEF WorkInv
  <1>4. CacheInv'
    BY DEF CacheInv
  <1>5. ActiveInv'
    BY DEF ActiveInv
  <1>6. ClosedInv'
    BY DEF ClosedInv
  <1>7. RowInv'
    BY DEF RowInv, PersistedIsFinal
  <1> QED
    BY <1>1, <1>2, <1>3, <1>4, <1>5, <1>6, <1>7

\* The stop carries the final register, which does not move any more.
LEMMA StopTransactionInv ==
  ASSUME NEW t \in Txn, NEW v \in Meter, IInv, StopTransaction(t, v) PROVE IInv'
  <1> USE SessionsAssumption, NoneAssumption DEF IInv, StopTransaction, Emit, Fault, IsStart, IsStop,
        charger, topics, worker, store, history
  <1>1. TypeOK'
    BY DEF TypeOK, Message
  <1>2. MsgInv'
    <2>1. committed \subseteq handled /\ handled \subseteq taken
      BY DEF MsgInv
    <2>2. ASSUME NEW m \in sent' PROVE /\ m.kind \in {"start", "meter"} => phase'[m.txn] # "none"
                                       /\ m.kind = "stop" => phase'[m.txn] = "stopped" /\ m.value = meter'[m.txn]
      BY <2>2 DEF TypeOK, MsgInv, Message
    <2>3. ASSUME NEW u \in Txn \ damaged'
          PROVE  /\ phase'[u] # "none" => \E m \in sent' : IsStart(m, u)
                 /\ phase'[u] = "stopped" => \E m \in sent' : IsStop(m, u)
      <3>1. u \notin damaged /\ sent \subseteq sent'
        BY <2>3
      <3>2. CASE u = t
        <4>1. [kind |-> "stop", txn |-> t, value |-> v] \in sent' /\ phase[u] = "charging"
          BY <2>3, <3>2 DEF TypeOK
        <4> QED
          BY <3>1, <3>2, <4>1 DEF MsgInv
      <3>3. CASE u # t
        <4>1. phase'[u] = phase[u]
          BY <3>3 DEF TypeOK
        <4> QED
          BY <3>1, <4>1 DEF MsgInv
      <3> QED
        BY <3>2, <3>3
    <2> QED
      BY <2>1, <2>2, <2>3 DEF MsgInv
  <1>3. WorkInv'
    BY DEF WorkInv
  <1>4. CacheInv'
    BY DEF CacheInv
  <1>5. ActiveInv'
    BY DEF ActiveInv
  <1>6. ClosedInv'
    BY DEF ClosedInv
  <1>7. RowInv'
    BY DEF RowInv, PersistedIsFinal
  <1> QED
    BY <1>1, <1>2, <1>3, <1>4, <1>5, <1>6, <1>7

\* A delivery only puts the message in hand, or drops it.
LEMMA DeliverInv ==
  ASSUME NEW m \in sent, IInv, Deliver(m) PROVE IInv'
  <1> USE SessionsAssumption, NoneAssumption DEF IInv, Deliver, Return, Stop, IsStart, IsStop,
        charger, topics, worker, store, history
  <1>1. TypeOK'
    BY DEF TypeOK, Message, Repeated
  <1>2. MsgInv'
    BY DEF MsgInv
  <1>3. WorkInv'
    BY DEF WorkInv, TypeOK, Message
  <1>4. CacheInv'
    BY DEF CacheInv
  <1>5. ActiveInv'
    BY DEF ActiveInv
  <1>6. ClosedInv'
    BY DEF ClosedInv, TypeOK
  <1>7. RowInv'
    BY DEF RowInv, PersistedIsFinal
  <1> QED
    BY <1>1, <1>2, <1>3, <1>4, <1>5, <1>6, <1>7

\* A lookup that fails damages the transaction.
LEMMA LookupFailsInv ==
  ASSUME NEW m \in sent, IInv, LookupFails(m) PROVE IInv'
  <1> USE SessionsAssumption, NoneAssumption DEF IInv, LookupFails, Return, Fault, IsStart, IsStop,
        charger, topics, worker, store, history
  <1>1. TypeOK'
    BY DEF TypeOK, Message, Repeated
  <1>2. MsgInv'
    BY DEF MsgInv
  <1>3. WorkInv'
    BY DEF WorkInv
  <1>4. CacheInv'
    BY DEF CacheInv
  <1>5. ActiveInv'
    BY DEF ActiveInv
  <1>6. ClosedInv'
    BY DEF ClosedInv
  <1>7. RowInv'
    BY DEF RowInv, PersistedIsFinal
  <1> QED
    BY <1>1, <1>2, <1>3, <1>4, <1>5, <1>6, <1>7

\* The fresh session replaces what was there; no stop of an ordered transaction was taken yet.
LEMMA StartSetInv ==
  ASSUME IInv, StartSet PROVE IInv'
  <1> USE SessionsAssumption, NoneAssumption DEF IInv, StartSet, Goto, IsStart, IsStop,
        charger, topics, worker, store, history
  <1>0. /\ cur \in sent \ handled /\ cur \in taken
        /\ cur \in Message /\ cur.txn \in Txn /\ cur.value \in Meter
    BY InHand
  <1>1. TypeOK'
    <2>1. [status |-> "ACTIVE", energy |-> 0, billed |-> 0] \in Session
      BY DEF Session, Meter
    <2> QED
      BY <1>0, <2>1 DEF TypeOK
  <1>2. MsgInv'
    BY <1>0 DEF MsgInv
  <1>3. WorkInv'
    BY <1>0 DEF WorkInv
  <1>4. CacheInv'
    <2>1. cache'[cur.txn] = [status |-> "ACTIVE", energy |-> 0, billed |-> 0] /\ cur.kind = "start"
      BY <1>0 DEF TypeOK, WorkInv
    <2>2. cache'[cur.txn] # None
      BY <2>1 DEF Session, Meter
    <2> QED
      BY <2>1, <2>2 DEF CacheInv
  <1>5. ActiveInv'
    BY <1>0 DEF ActiveInv, WorkInv
  <1>6. ClosedInv'
    <2>1. [status |-> "ACTIVE", energy |-> 0, billed |-> 0] # None
      BY DEF Session, Meter
    <2>2. \A t \in Txn : cache'[t] = IF t = cur.txn THEN [status |-> "ACTIVE", energy |-> 0, billed |-> 0] ELSE cache[t]
      BY <1>0 DEF TypeOK
    <2>3. handled \subseteq taken
      BY DEF MsgInv
    <2> QED
      BY <1>0, <2>1, <2>2, <2>3 DEF ClosedInv
  <1>7. RowInv'
    BY <1>0 DEF RowInv, PersistedIsFinal
  <1> QED
    BY <1>1, <1>2, <1>3, <1>4, <1>5, <1>6, <1>7

\* The start counts as handled once its session is on the list.
LEMMA StartAddInv ==
  ASSUME IInv, StartAdd PROVE IInv'
  <1> USE SessionsAssumption, NoneAssumption DEF IInv, StartAdd, Return, IsStart, IsStop,
        charger, topics, worker, store, history
  <1>0. /\ cur \in sent \ handled /\ cur \in taken
        /\ cur \in Message /\ cur.txn \in Txn /\ cur.value \in Meter
    BY InHand
  <1>1. TypeOK'
    BY <1>0 DEF TypeOK
  <1>2. MsgInv'
    BY <1>0 DEF MsgInv
  <1>3. WorkInv'
    BY <1>0 DEF WorkInv
  <1>4. CacheInv'
    BY <1>0 DEF CacheInv
  <1>5. ActiveInv'
    <2> SUFFICES ASSUME NEW t \in Txn \ damaged, cache[t] # None
        PROVE  /\ cache[t].status = "ACTIVE" /\ t \notin active' =>
                    \E m \in sent \ handled' : IsStart(m, t)
               /\ cache[t].status = "COMPLETED" /\ t \in active' =>
                    \E m \in sent \ handled' : IsStop(m, t)
      BY DEF ActiveInv
    <2>1. cur.kind = "start" /\ (cur.txn = t => cache[t].status = "ACTIVE")
      BY DEF WorkInv, CacheInv
    <2> QED
      BY <1>0, <2>1 DEF ActiveInv
  <1>6. ClosedInv'
    BY <1>0 DEF ClosedInv, CacheInv
  <1>7. RowInv'
    BY <1>0 DEF RowInv, PersistedIsFinal
  <1> QED
    BY <1>1, <1>2, <1>3, <1>4, <1>5, <1>6, <1>7

\* The update of a stop goes on to endSession; a report is done.
LEMMA UpdateInv ==
  ASSUME IInv, Update PROVE IInv'
  <1> USE SessionsAssumption, NoneAssumption DEF IInv, Update, AfterUpdate, Goto, Return, IsStart, IsStop,
        charger, topics, worker, store, history
  <1>0. /\ cur \in sent \ handled /\ cur \in taken
        /\ cur \in Message /\ cur.txn \in Txn /\ cur.value \in Meter
    BY InHand
  <1>1. TypeOK'
    <2>1. cache' \in [Txn -> Session \cup {None}]
      BY <1>0, UpdatedSession DEF TypeOK
    <2> QED
      BY <1>0, <2>1 DEF TypeOK
  <1>2. MsgInv'
    BY <1>0 DEF MsgInv
  <1>3. WorkInv'
    BY <1>0 DEF WorkInv
  <1>4. CacheInv'
    <2>1. \A t \in Txn : cache[t] # None => cache'[t] # None
      BY <1>0, UpdatedSession DEF TypeOK
    <2>2. cache[cur.txn] # None => cache'[cur.txn].energy = cur.value
      BY <1>0, UpdatedSession DEF TypeOK
    <2> QED
      BY <1>0, <2>1, <2>2 DEF CacheInv, WorkInv
  <1>5. ActiveInv'
    <2>1. \A t \in Txn : (cache'[t] = None <=> cache[t] = None) /\ (cache[t] # None => cache'[t].status = cache[t].status)
      BY <1>0, UpdatedSession DEF TypeOK
    <2> QED
      BY <1>0, <2>1 DEF ActiveInv, WorkInv
  <1>6. ClosedInv'
    <2>1. \A t \in Txn : (cache'[t] = None <=> cache[t] = None) /\ (cache[t] # None => cache'[t].status = cache[t].status)
      BY <1>0, UpdatedSession DEF TypeOK
    <2> QED
      BY <1>0, <2>1 DEF ClosedInv, WorkInv
  <1>7. RowInv'
    BY <1>0 DEF RowInv, PersistedIsFinal
  <1> QED
    BY <1>1, <1>2, <1>3, <1>4, <1>5, <1>6, <1>7

\* The emit that fails damages the transaction.
LEMMA UpdateEmitFailsInv ==
  ASSUME IInv, UpdateEmitFails PROVE IInv'
  <1> USE SessionsAssumption, NoneAssumption DEF IInv, UpdateEmitFails, Fault, Return, IsStart, IsStop,
        charger, topics, worker, store, history
  <1>0. /\ cur \in sent \ handled /\ cur \in taken
        /\ cur \in Message /\ cur.txn \in Txn /\ cur.value \in Meter
    BY InHand
  <1>1. TypeOK'
    <2>1. cache' \in [Txn -> Session \cup {None}]
      BY <1>0, UpdatedSession DEF TypeOK
    <2> QED
      BY <1>0, <2>1, FaultCounted DEF TypeOK
  <1>2. MsgInv'
    BY <1>0 DEF MsgInv
  <1>3. WorkInv'
    BY <1>0 DEF WorkInv
  <1>4. CacheInv'
    BY <1>0 DEF CacheInv
  <1>5. ActiveInv'
    BY <1>0 DEF ActiveInv
  <1>6. ClosedInv'
    BY <1>0 DEF ClosedInv
  <1>7. RowInv'
    BY <1>0 DEF RowInv, PersistedIsFinal
  <1> QED
    BY <1>1, <1>2, <1>3, <1>4, <1>5, <1>6, <1>7

\* endSession has completed the session; its message is still to count as handled.
LEMMA EndSetInv ==
  ASSUME IInv, EndSet PROVE IInv'
  <1> USE SessionsAssumption, NoneAssumption DEF IInv, EndSet, Goto, Return, IsStart, IsStop,
        charger, topics, worker, store, history
  <1>0. /\ cur \in sent \ handled /\ cur \in taken
        /\ cur \in Message /\ cur.txn \in Txn /\ cur.value \in Meter
    BY InHand
  <1>1. TypeOK'
    <2>1. cache' \in [Txn -> Session \cup {None}]
      BY <1>0 DEF TypeOK, Session
    <2> QED
      BY <1>0, <2>1 DEF TypeOK
  <1>2. MsgInv'
    BY <1>0 DEF MsgInv
  <1>3. WorkInv'
    BY <1>0 DEF WorkInv
  <1>4. CacheInv'
    BY <1>0 DEF CacheInv, TypeOK, Message, Session, Row
  <1>5. ActiveInv'
    BY <1>0 DEF ActiveInv, TypeOK, Message, Session, Row, MsgInv, WorkInv
  <1>6. ClosedInv'
    BY <1>0 DEF ClosedInv, TypeOK, Message, Session, Row, CacheInv, MsgInv, WorkInv
  <1>7. RowInv'
    BY <1>0 DEF RowInv, PersistedIsFinal
  <1> QED
    BY <1>1, <1>2, <1>3, <1>4, <1>5, <1>6, <1>7

\* The session leaves the list.
LEMMA RemoveInv ==
  ASSUME IInv, Remove PROVE IInv'
  <1> USE SessionsAssumption, NoneAssumption DEF IInv, Remove, Goto, IsStart, IsStop,
        charger, topics, worker, store, history
  <1>0. /\ cur \in sent \ handled /\ cur \in taken
        /\ cur \in Message /\ cur.txn \in Txn /\ cur.value \in Meter
    BY InHand
  <1>1. TypeOK'
    BY <1>0 DEF TypeOK
  <1>2. MsgInv'
    BY <1>0 DEF MsgInv
  <1>3. WorkInv'
    BY <1>0 DEF WorkInv
  <1>4. CacheInv'
    BY <1>0 DEF CacheInv
  <1>5. ActiveInv'
    <2> SUFFICES ASSUME NEW t \in Txn \ damaged, cache[t] # None
        PROVE  /\ cache[t].status = "ACTIVE" /\ t \notin active' =>
                    \E m \in sent \ handled : IsStart(m, t)
               /\ cache[t].status = "COMPLETED" /\ t \in active' =>
                    \E m \in sent \ handled : IsStop(m, t)
      BY DEF ActiveInv
    <2>1. cur.txn = t => cache[t].status = "COMPLETED"
      BY DEF CacheInv
    <2> QED
      BY <1>0, <2>1 DEF ActiveInv
  <1>6. ClosedInv'
    BY <1>0 DEF ClosedInv
  <1>7. RowInv'
    BY <1>0 DEF RowInv, PersistedIsFinal
  <1> QED
    BY <1>1, <1>2, <1>3, <1>4, <1>5, <1>6, <1>7

\* The stop counts as handled once the row is there.
LEMMA PersistInv ==
  ASSUME IInv, Persist PROVE IInv'
  <1> USE SessionsAssumption, NoneAssumption DEF IInv, Persist, Return, IsStart, IsStop,
        charger, topics, worker, store, history
  <1>0. /\ cur \in sent \ handled /\ cur \in taken
        /\ cur \in Message /\ cur.txn \in Txn /\ cur.value \in Meter
    BY InHand
  <1>1. TypeOK'
    <2>1. cache[cur.txn] \in Session
      BY <1>0 DEF TypeOK, CacheInv
    <2>2. [kwh |-> cache[cur.txn].energy, billed |-> cache[cur.txn].billed] \in Row
      BY <2>1 DEF Session, Row
    <2> QED
      BY <1>0, <2>2 DEF TypeOK
  <1>2. MsgInv'
    BY <1>0 DEF MsgInv
  <1>3. WorkInv'
    BY <1>0 DEF WorkInv
  <1>4. CacheInv'
    BY <1>0 DEF CacheInv
  <1>5. ActiveInv'
    <2> SUFFICES ASSUME NEW t \in Txn \ damaged, cache[t] # None
        PROVE  /\ cache[t].status = "ACTIVE" /\ t \notin active =>
                    \E m \in sent \ handled' : IsStart(m, t)
               /\ cache[t].status = "COMPLETED" /\ t \in active =>
                    \E m \in sent \ handled' : IsStop(m, t)
      BY DEF ActiveInv
    <2>1. cur.kind = "stop" /\ (cur.txn = t => t \notin active)
      BY DEF WorkInv, CacheInv
    <2> QED
      BY <1>0, <2>1 DEF ActiveInv
  <1>6. ClosedInv'
    BY <1>0 DEF ClosedInv, TypeOK, Message, Session, Row, CacheInv, MsgInv, WorkInv
  <1>7. RowInv'
    BY <1>0 DEF RowInv, PersistedIsFinal, TypeOK, MsgInv, WorkInv, CacheInv
  <1> QED
    BY <1>1, <1>2, <1>3, <1>4, <1>5, <1>6, <1>7

\* The emit that fails damages the transaction.
LEMMA PersistFailsInv ==
  ASSUME IInv, PersistFails PROVE IInv'
  <1> USE SessionsAssumption, NoneAssumption DEF IInv, PersistFails, Return, Fault, IsStart, IsStop,
        charger, topics, worker, store, history
  <1>0. /\ cur \in sent \ handled /\ cur \in taken
        /\ cur \in Message /\ cur.txn \in Txn /\ cur.value \in Meter
    BY InHand
  <1>1. TypeOK'
    BY <1>0, FaultCounted DEF TypeOK
  <1>2. MsgInv'
    BY <1>0 DEF MsgInv
  <1>3. WorkInv'
    BY <1>0 DEF WorkInv
  <1>4. CacheInv'
    BY <1>0 DEF CacheInv
  <1>5. ActiveInv'
    BY <1>0 DEF ActiveInv
  <1>6. ClosedInv'
    BY <1>0 DEF ClosedInv
  <1>7. RowInv'
    BY <1>0 DEF RowInv, PersistedIsFinal
  <1> QED
    BY <1>1, <1>2, <1>3, <1>4, <1>5, <1>6, <1>7

\* Whatever the failed call skips, the transaction is damaged.
LEMMA RedisFailsInv ==
  ASSUME IInv, RedisFails PROVE IInv'
  <1> USE SessionsAssumption, NoneAssumption DEF IInv, RedisFails, Goto, Return, Fault, AfterUpdate, IsStart, IsStop,
        charger, topics, worker, store, history
  <1>0. /\ cur \in sent \ handled /\ cur \in taken
        /\ cur \in Message /\ cur.txn \in Txn /\ cur.value \in Meter
    BY InHand
  <1>1. TypeOK'
    BY <1>0, FaultCounted DEF TypeOK
  <1>2. MsgInv'
    BY <1>0 DEF MsgInv
  <1>3. WorkInv'
    BY <1>0 DEF WorkInv
  <1>4. CacheInv'
    BY <1>0 DEF CacheInv
  <1>5. ActiveInv'
    BY <1>0 DEF ActiveInv
  <1>6. ClosedInv'
    BY <1>0 DEF ClosedInv
  <1>7. RowInv'
    BY <1>0 DEF RowInv, PersistedIsFinal
  <1> QED
    BY <1>1, <1>2, <1>3, <1>4, <1>5, <1>6, <1>7

\* The key that expires damages the transaction, and is not one a handler relies on.
LEMMA ExpireInv ==
  ASSUME NEW t \in Txn, IInv, Expire(t) PROVE IInv'
  <1> USE SessionsAssumption, NoneAssumption DEF IInv, Expire, Fault, IsStart, IsStop,
        charger, topics, worker, store, history
  <1>1. TypeOK'
    BY DEF TypeOK
  <1>2. MsgInv'
    BY DEF MsgInv
  <1>3. WorkInv'
    BY DEF WorkInv
  <1>4. CacheInv'
    BY DEF CacheInv
  <1>5. ActiveInv'
    BY DEF ActiveInv
  <1>6. ClosedInv'
    BY DEF ClosedInv
  <1>7. RowInv'
    BY DEF RowInv, PersistedIsFinal
  <1> QED
    BY <1>1, <1>2, <1>3, <1>4, <1>5, <1>6, <1>7

\* Only handled messages are committed.
LEMMA CommitOffsetsInv ==
  ASSUME IInv, CommitOffsets PROVE IInv'
  <1> USE SessionsAssumption, NoneAssumption DEF IInv, CommitOffsets, IsStart, IsStop,
        charger, topics, worker, store, history
  <1>1. TypeOK'
    BY DEF TypeOK
  <1>2. MsgInv'
    BY DEF MsgInv
  <1>3. WorkInv'
    BY DEF WorkInv
  <1>4. CacheInv'
    BY DEF CacheInv
  <1>5. ActiveInv'
    BY DEF ActiveInv
  <1>6. ClosedInv'
    BY DEF ClosedInv
  <1>7. RowInv'
    BY DEF RowInv, PersistedIsFinal
  <1> QED
    BY <1>1, <1>2, <1>3, <1>4, <1>5, <1>6, <1>7

\* What was in hand, and what was not committed, is to be handled again.
LEMMA RestartInv ==
  ASSUME IInv, Restart PROVE IInv'
  <1> USE SessionsAssumption, NoneAssumption DEF IInv, Restart, IsStart, IsStop,
        charger, topics, worker, store, history
  <1>1. TypeOK'
    BY DEF TypeOK
  <1>2. MsgInv'
    BY DEF MsgInv
  <1>3. WorkInv'
    BY DEF WorkInv
  <1>4. CacheInv'
    BY DEF CacheInv
  <1>5. ActiveInv'
    BY DEF ActiveInv, MsgInv
  <1>6. ClosedInv'
    BY DEF ClosedInv, MsgInv
  <1>7. RowInv'
    BY DEF RowInv, PersistedIsFinal
  <1> QED
    BY <1>1, <1>2, <1>3, <1>4, <1>5, <1>6, <1>7

\* Every step preserves the invariant.
LEMMA StepInv == IInv /\ [Next]_vars => IInv'
  <1> SUFFICES ASSUME IInv, [Next]_vars PROVE IInv'
    OBVIOUS
  <1>1. ASSUME NEW t \in Txn, NEW v \in Meter, StartTransaction(t, v) PROVE IInv'
    BY <1>1, StartTransactionInv
  <1>2. ASSUME NEW t \in Txn, NEW v \in Meter, StopTransaction(t, v) PROVE IInv'
    BY <1>2, StopTransactionInv
  <1>3. ASSUME NEW t \in Txn, NEW v \in Meter, MeterValues(t, v) PROVE IInv'
    BY <1>3, MeterValuesInv
  <1>4. ASSUME NEW t \in Txn, Expire(t) PROVE IInv'
    BY <1>4, ExpireInv
  <1>5. ASSUME NEW m \in sent, Deliver(m) PROVE IInv'
    BY <1>5, DeliverInv
  <1>6. ASSUME NEW m \in sent, LookupFails(m) PROVE IInv'
    BY <1>6, LookupFailsInv
  <1>7. CASE Handle
    BY <1>7, StartSetInv, StartAddInv, UpdateInv, EndSetInv, RemoveInv, PersistInv DEF Handle
  <1>8. CASE UpdateEmitFails \/ PersistFails \/ RedisFails
    BY <1>8, UpdateEmitFailsInv, PersistFailsInv, RedisFailsInv
  <1>9. CASE CommitOffsets \/ Restart
    BY <1>9, CommitOffsetsInv, RestartInv
  <1>10. CASE UNCHANGED vars
    BY <1>10 DEF vars, charger, topics, worker, store, history, IInv, TypeOK, MsgInv, WorkInv,
                 CacheInv, ActiveInv, ClosedInv, RowInv, PersistedIsFinal, IsStart, IsStop
  <1> QED
    BY <1>1, <1>2, <1>3, <1>4, <1>5, <1>6, <1>7, <1>8, <1>9, <1>10 DEF Next, Consume

-------------------------------------------------------------------------------
\* The invariant holds of every reachable state.
THEOREM Invariance == Spec => []IInv
  BY InitInv, StepInv, PTL DEF Spec

\* Every variable keeps its type.
THEOREM TypeCorrect == Spec => []TypeOK
  <1>1. IInv => TypeOK
    BY DEF IInv
  <1> QED
    BY <1>1, Invariance, PTL

\* Once the messages of a session have been handled, the set sessions:active and the status
\* in Redis agree about it: startSession and endSession write the two in separate calls, and
\* a restart between them is repaired by the message that comes again.
THEOREM ActiveListIsRight == Spec => []ActiveListAgrees
  <1>1. IInv => ActiveListAgrees
    BY DEF IInv, TypeOK, Session, ActiveInv, ActiveListAgrees, ActiveSessions, Settled, IsStart, IsStop
  <1> QED
    BY <1>1, Invariance, PTL

\* A stopped transaction ends completed, off the list and persisted, once its messages have
\* been handled.
THEOREM StoppedSessionsClose == Spec => []StoppedIsClosed
  <1>1. ASSUME IInv PROVE StoppedIsClosed
    <2> SUFFICES ASSUME NEW t \in Txn \ (damaged \cup reordered), phase[t] = "stopped", Settled(t)
        PROVE  /\ cache[t] # None /\ cache[t].status = "COMPLETED" /\ t \notin active
               /\ t \in Resolvable => db[t] # None
      BY DEF StoppedIsClosed
    <2>1. PICK m1 \in sent : IsStart(m1, t)
      BY <1>1 DEF IInv, MsgInv
    <2>2. PICK m2 \in sent : IsStop(m2, t)
      BY <1>1 DEF IInv, MsgInv
    <2>3. m1 \in handled /\ m2 \in handled
      BY <2>1, <2>2 DEF Settled, IsStart, IsStop
    <2>4. cache[t] # None
      BY <1>1, <2>1, <2>3 DEF IInv, ClosedInv
    <2>5. cache[t].status = "COMPLETED" /\ (t \in Resolvable => db[t] # None)
      BY <1>1, <2>2, <2>3, <2>4 DEF IInv, ClosedInv
    <2>6. t \notin active
      BY <1>1, <2>4, <2>5 DEF IInv, ActiveInv, Settled, IsStop
    <2> QED
      BY <2>4, <2>5, <2>6
  <1> QED
    BY <1>1, Invariance, PTL

\* A row of ChargingSession holds the charger's final register.
THEOREM RowsAreFinal == Spec => []PersistedIsFinal
  <1>1. IInv => PersistedIsFinal
    BY DEF IInv, RowInv
  <1> QED
    BY <1>1, Invariance, PTL

-------------------------------------------------------------------------------
(* What a session shows *)

\* The charger counts from zero, and no message and no session holds more than it has counted.
CountInv ==
  /\ \A t \in Txn : phase[t] = "none" => meter[t] = 0
  /\ \A m \in sent : m.value <= meter[m.txn]
  /\ \A t \in Txn : cache[t] # None => cache[t].energy <= meter[t]

\* The start of a transaction is one message; there is a session only once it was delivered,
\* and it is set over another only when it is delivered again.
OpenInv ==
  /\ \A m \in sent : m.kind = "start" => m.value = first[m.txn]
  /\ \A t \in Txn : cache[t] # None => \E m \in taken : IsStart(m, t)
  /\ at = "set" /\ cur.txn \notin repeated => cache[cur.txn] = None

ShowInv == CountInv /\ OpenInv

\* At the start nothing was sent and nothing is shown.
LEMMA InitShow == Init => ShowInv
  BY DEF Init, ShowInv, CountInv, OpenInv

\* What is counted, sent and shown are numbers.
LEMMA Numbers ==
  ASSUME TypeOK
  PROVE  /\ \A t \in Txn : meter[t] \in Nat /\ (cache[t] # None => cache[t].energy \in Nat)
         /\ \A m \in sent : m \in Message /\ m.txn \in Txn /\ m.value \in Nat
  BY SessionsAssumption DEF TypeOK, Message, Session, Meter

\* A step of a charger sends no more than a message with its register, which never goes back.
LEMMA ChargerShow ==
  ASSUME NEW t \in Txn, NEW v \in Meter, IInv, ShowInv,
         StartTransaction(t, v) \/ MeterValues(t, v) \/ StopTransaction(t, v)
  PROVE  ShowInv'
  <1> USE SessionsAssumption DEF IInv
  <1>1. /\ meter' = [meter EXCEPT ![t] = v] /\ meter[t] <= v /\ v \in Nat
        /\ UNCHANGED <<cache, taken, at, cur, repeated>>
        /\ \/ first' = [first EXCEPT ![t] = v] /\ phase[t] = "none"
           \/ first' = first
    <2>1. meter \in [Txn -> Meter] /\ v \in Nat
      BY DEF TypeOK, Meter
    <2>2. CASE StartTransaction(t, v)
      <3>1. meter[t] = 0
        BY <2>2 DEF StartTransaction, ShowInv, CountInv
      <3> QED
        BY <2>1, <2>2, <3>1 DEF StartTransaction, worker, store
    <2>3. CASE MeterValues(t, v) \/ StopTransaction(t, v)
      BY <2>1, <2>3 DEF MeterValues, StopTransaction, worker, store
    <2> QED
      BY <2>2, <2>3
  <1>2. \E k \in {"start", "meter", "stop"} :
          /\ sent' \subseteq sent \cup {[kind |-> k, txn |-> t, value |-> v]}
          /\ k = "start" => first'[t] = v
    BY DEF StartTransaction, MeterValues, StopTransaction, Emit, Fault, TypeOK
  <1>3. \A u \in Txn : meter'[u] \in Nat /\ meter[u] <= meter'[u]
    BY <1>1, Numbers DEF TypeOK
  <1>4. \A u \in Txn : phase'[u] = "none" => u # t /\ phase[u] = "none"
    BY DEF StartTransaction, MeterValues, StopTransaction, TypeOK
  <1>5. CountInv'
    BY <1>1, <1>2, <1>3, <1>4, Numbers DEF ShowInv, CountInv, TypeOK
  <1>6. OpenInv'
    BY <1>1, <1>2, Numbers DEF ShowInv, OpenInv, MsgInv, TypeOK
  <1> QED
    BY <1>5, <1>6 DEF ShowInv

\* A start that was not delivered before finds no session.
LEMMA DeliverShow ==
  ASSUME NEW m \in sent, IInv, ShowInv, Deliver(m) PROVE ShowInv'
  <1> USE DEF IInv
  <1>1. CountInv'
    BY DEF Deliver, ShowInv, CountInv, charger, store
  <1>2. ASSUME at' = "set", cur'.txn \notin repeated' PROVE cache'[cur'.txn] = None
    <2>1. cur' = m /\ m.kind = "start" /\ m \notin taken /\ cache' = cache
      BY <1>2 DEF Deliver, Return, Repeated, store
    <2>2. ASSUME NEW n \in taken, IsStart(n, m.txn) PROVE FALSE
      <3>1. n \in Message /\ m \in Message /\ n \in sent
        BY DEF TypeOK
      <3>2. n.kind = m.kind /\ n.txn = m.txn /\ n.value = m.value
        BY <2>1, <2>2, <3>1 DEF IsStart, ShowInv, OpenInv
      <3> QED
        BY <2>1, <3>1, <3>2 DEF Message
    <2> QED
      BY <2>1, <2>2, Numbers DEF ShowInv, OpenInv
  <1>3. OpenInv'
    BY <1>2 DEF Deliver, ShowInv, OpenInv, charger, store
  <1> QED
    BY <1>1, <1>3 DEF ShowInv

\* A step that shows nothing else and does not turn to a start.
LEMMA HiddenShow ==
  ASSUME ShowInv, UNCHANGED <<charger, sent, cache>>, taken \subseteq taken',
         at' = "set" => at = "set" /\ UNCHANGED <<cur, repeated>>
  PROVE  ShowInv'
  BY DEF ShowInv, CountInv, OpenInv, charger

\* A start that was delivered is behind a fresh session.
LEMMA StartSetShow ==
  ASSUME IInv, ShowInv, StartSet PROVE ShowInv'
  <1> USE DEF IInv
  <1>1. cur \in taken /\ cur.kind = "start" /\ cur.txn \in Txn /\ at' = "add"
    BY InHand DEF WorkInv, StartSet, Goto
  <1>2. cache' = [cache EXCEPT ![cur.txn] = [status |-> "ACTIVE", energy |-> 0, billed |-> 0]]
    BY DEF StartSet
  <1>3. CountInv'
    BY <1>1, <1>2, Numbers DEF StartSet, ShowInv, CountInv, TypeOK, charger
  <1>4. OpenInv'
    BY <1>1, <1>2 DEF StartSet, ShowInv, OpenInv, TypeOK, IsStart, charger
  <1> QED
    BY <1>3, <1>4 DEF ShowInv

\* An update shows what its message holds.
LEMMA UpdateShow ==
  ASSUME IInv, ShowInv, Update \/ UpdateEmitFails PROVE ShowInv'
  <1> USE DEF IInv
  <1>1. cur \in sent /\ cur \in Message /\ cur.txn \in Txn /\ at' # "set"
    BY InHand DEF Update, UpdateEmitFails, AfterUpdate, Goto, Return
  <1>2. /\ cache' = cache \/ (cache[cur.txn] # None /\ cache' = [cache EXCEPT ![cur.txn] = Updated(@, cur)])
        /\ UNCHANGED <<charger, sent, taken>>
    BY DEF Update, UpdateEmitFails
  <1>3. cache[cur.txn] # None => Updated(cache[cur.txn], cur).energy = cur.value
    BY <1>1, UpdatedSession DEF TypeOK
  <1>4. CountInv'
    BY <1>1, <1>2, <1>3 DEF ShowInv, CountInv, TypeOK, charger
  <1>5. OpenInv'
    BY <1>1, <1>2 DEF ShowInv, OpenInv, TypeOK, charger
  <1> QED
    BY <1>4, <1>5 DEF ShowInv

\* The end of a session leaves its energy alone.
LEMMA EndSetShow ==
  ASSUME IInv, ShowInv, EndSet PROVE ShowInv'
  <1> USE DEF IInv
  <1>1. cur.txn \in Txn /\ at' # "set"
    BY InHand DEF EndSet, Goto, Return
  <1>2. /\ cache' = cache \/ (cache[cur.txn] # None /\ cache' = [cache EXCEPT ![cur.txn].status = "COMPLETED"])
        /\ UNCHANGED <<charger, sent, taken>>
    BY DEF EndSet
  <1>3. \A t \in Txn : cache'[t] # None => cache[t] # None /\ cache'[t].energy = cache[t].energy
    BY <1>1, <1>2 DEF TypeOK, Session
  <1> QED
    BY <1>1, <1>2, <1>3 DEF ShowInv, CountInv, OpenInv, charger

\* A key that expires shows nothing.
LEMMA ExpireShow ==
  ASSUME NEW t \in Txn, IInv, ShowInv, Expire(t) PROVE ShowInv'
  <1> USE DEF IInv
  <1>1. cache' = [cache EXCEPT ![t] = None] /\ UNCHANGED <<charger, sent, taken, at, cur, repeated>>
    BY DEF Expire, topics, worker
  <1>2. \A u \in Txn : cache'[u] # None => cache[u] # None /\ cache'[u] = cache[u]
    BY <1>1 DEF TypeOK
  <1>3. at = "set" => cur.txn \in Txn
    BY InHand
  <1> QED
    BY <1>1, <1>2, <1>3 DEF ShowInv, CountInv, OpenInv, charger

\* Every step preserves what is shown to be so.
LEMMA StepShow == IInv /\ ShowInv /\ [Next]_vars => ShowInv'
  <1> SUFFICES ASSUME IInv, ShowInv, [Next]_vars PROVE ShowInv'
    OBVIOUS
  <1>1. ASSUME NEW t \in Txn, NEW v \in Meter,
               StartTransaction(t, v) \/ MeterValues(t, v) \/ StopTransaction(t, v)
        PROVE  ShowInv'
    BY <1>1, ChargerShow
  <1>2. ASSUME NEW t \in Txn, Expire(t) PROVE ShowInv'
    BY <1>2, ExpireShow
  <1>3. ASSUME NEW m \in sent, Deliver(m) PROVE ShowInv'
    BY <1>3, DeliverShow
  <1>4. ASSUME NEW m \in sent, LookupFails(m) PROVE ShowInv'
    BY <1>4, HiddenShow DEF LookupFails, Return, store
  <1>5. CASE StartSet \/ Update \/ EndSet \/ UpdateEmitFails
    BY <1>5, StartSetShow, UpdateShow, EndSetShow
  <1>6. CASE StartAdd \/ Remove \/ Persist \/ PersistFails
    BY <1>6, HiddenShow DEF StartAdd, Remove, Persist, PersistFails, Goto, Return, store
  <1>7. CASE RedisFails
    BY <1>7, HiddenShow DEF RedisFails, AfterUpdate, Goto, Return, store
  <1>8. CASE CommitOffsets \/ Restart \/ UNCHANGED vars
    BY <1>8, HiddenShow DEF CommitOffsets, Restart, vars, topics, worker, store, history
  <1> QED
    BY <1>1, <1>2, <1>3, <1>4, <1>5, <1>6, <1>7, <1>8 DEF Next, Consume, Handle

-------------------------------------------------------------------------------
(* What SessionPromise says *)

\* A change of one session shows in one session.
LEMMA ShownOnce ==
  ASSUME TypeOK, NEW t \in Txn, NEW c, cache' = [cache EXCEPT ![t] = c]
  PROVE  [u \in Txn |-> Shown(u)]' = [[u \in Txn |-> Shown(u)] EXCEPT ![t] = Shown(t)']
  <1>1. \A u \in Txn \ {t} : Shown(u)' = Shown(u)
    BY DEF TypeOK, Shown
  <1> QED
    BY <1>1

\* What has not changed shows as it did.
LEMMA ShownStays ==
  ASSUME UNCHANGED cache
  PROVE  UNCHANGED [t \in Txn |-> Shown(t)]
  BY DEF Shown

LEMMA RecordedStays ==
  ASSUME UNCHANGED db
  PROVE  UNCHANGED [t \in Txn |-> Recorded(t)]
  BY DEF Recorded

\* Steps of a charger are those of its counterpart.
LEMMA ChargerKeeps ==
  ASSUME NEW t \in Txn, NEW v \in Meter, IInv, ShowInv,
         StartTransaction(t, v) \/ MeterValues(t, v) \/ StopTransaction(t, v)
  PROVE  Promise!Next
  <1>1. UNCHANGED <<cache, db, repeated>> /\ damaged' \in {damaged, damaged \cup {t}}
    BY DEF StartTransaction, MeterValues, StopTransaction, Emit, Fault, store
  <1>2. v >= meter[t] /\ meter' = [meter EXCEPT ![t] = v]
    <2>1. phase[t] = "none" => meter[t] = 0
      BY DEF ShowInv, CountInv
    <2> QED
      BY <2>1, SessionsAssumption DEF StartTransaction, MeterValues, StopTransaction, Meter
  <1>3. Promise!Begin(t) \/ Promise!Continue(t) \/ Promise!Stop(t)
    BY DEF StartTransaction, MeterValues, StopTransaction, Promise!Begin, Promise!Continue, Promise!Stop
  <1>4. Promise!Charge(t)
    BY <1>1, <1>2, <1>3, ShownStays, RecordedStays DEF Promise!Charge
  <1> QED
    BY <1>1, <1>4 DEF Promise!Next

\* When a session may be replaced by another, or by none.
Opens(t, c) ==
  /\ c # None /\ c.status = "ACTIVE" /\ c.energy = 0
  /\ phase[t] # "none" /\ (cache[t] = None \/ t \in repeated)
Reads(t, c) ==
  /\ c # None /\ cache[t] # None
  /\ c.status = cache[t].status /\ c.energy <= meter[t]
Closes(t, c) ==
  /\ c # None /\ cache[t] # None
  /\ c.status = "COMPLETED" /\ c.energy = cache[t].energy
  /\ phase[t] = "stopped" /\ (t \notin damaged => c.energy = meter[t])
Vanishes(t, c) == c = None /\ t \in damaged'

\* Then it shows as SessionPromise allows.
LEMMA ShowKeeps ==
  ASSUME TypeOK, NEW t \in Txn, NEW c \in Session \cup {None}, cache' = [cache EXCEPT ![t] = c],
         UNCHANGED <<charger, db, repeated>>, damaged' \in {damaged, damaged \cup {t}},
         Opens(t, c) \/ Reads(t, c) \/ Closes(t, c) \/ Vanishes(t, c)
  PROVE  Promise!Next
  <1> DEFINE shown == [u \in Txn |-> Shown(u)]
  <1>1. cache'[t] = c /\ (cache[t] # None => cache[t] \in Session)
    BY DEF TypeOK
  <1>2. shown' = [shown EXCEPT ![t] = Shown(t)']
    BY ShownOnce
  <1>3. shown[t] = Shown(t)
    OBVIOUS
  <1>4. UNCHANGED [u \in Txn |-> Recorded(u)]
    BY RecordedStays
  <1>5. Promise!Open(t) \/ Promise!Read(t) \/ Promise!Close(t) \/ Promise!Vanish(t) => Promise!Next
    BY <1>4 DEF Promise!Next, Promise!Show, charger
  <1>6. CASE Opens(t, c)
    <2>1. Shown(t)' = Promise!Opened /\ (cache[t] = None => Shown(t) = Promise!Nothing)
      BY <1>1, <1>6 DEF Shown, Opens, Promise!Opened, Promise!Nothing
    <2>2. Promise!Open(t)
      BY <1>2, <1>3, <1>6, <2>1 DEF Opens, Promise!Open
    <2> QED
      BY <1>5, <2>2
  <1>7. CASE Reads(t, c)
    <2>1. Shown(t)' = [Shown(t) EXCEPT !.energy = c.energy] /\ Shown(t) # Promise!Nothing
      BY <1>1, <1>7 DEF Shown, Reads, Session, Promise!Nothing
    <2>2. c.energy \in Meter
      BY <1>7 DEF Reads, Session
    <2>3. Promise!Read(t)
      BY <1>2, <1>3, <1>7, <2>1, <2>2 DEF Reads, Promise!Read
    <2> QED
      BY <1>5, <2>3
  <1>8. CASE Closes(t, c)
    <2>1. Shown(t)' = [Shown(t) EXCEPT !.status = "COMPLETED"] /\ Shown(t) # Promise!Nothing
          /\ Shown(t).energy = c.energy
      BY <1>1, <1>8 DEF Shown, Closes, Session, Promise!Nothing
    <2>2. Promise!Close(t)
      BY <1>2, <1>3, <1>8, <2>1 DEF Closes, Promise!Close
    <2> QED
      BY <1>5, <2>2
  <1>9. CASE Vanishes(t, c)
    <2>1. Shown(t)' = Promise!Nothing
      BY <1>1, <1>9 DEF Shown, Vanishes, Promise!Nothing
    <2>2. Promise!Vanish(t)
      BY <1>2, <1>9, <2>1 DEF Vanishes, Promise!Vanish
    <2> QED
      BY <1>5, <2>2
  <1> QED
    BY <1>6, <1>7, <1>8, <1>9

\* A start sets a fresh session.
LEMMA StartSetKeeps ==
  ASSUME IInv, ShowInv, StartSet PROVE Promise!Next
  <1> DEFINE c == [status |-> "ACTIVE", energy |-> 0, billed |-> 0]
  <1> USE DEF IInv
  <1>1. cur \in sent /\ cur.txn \in Txn /\ phase[cur.txn] # "none"
    BY InHand DEF WorkInv, MsgInv, StartSet
  <1>2. cache' = [cache EXCEPT ![cur.txn] = c] /\ UNCHANGED <<charger, db, repeated, damaged>>
    BY DEF StartSet, history
  <1>3. c \in Session /\ c # None
    BY NoneAssumption, SessionsAssumption DEF Session, Meter
  <1>4. Opens(cur.txn, c)
    BY <1>1, <1>3 DEF Opens, StartSet, ShowInv, OpenInv
  <1> QED
    BY <1>1, <1>2, <1>3, <1>4, ShowKeeps

\* An update shows a count of the charger's.
LEMMA UpdateKeeps ==
  ASSUME IInv, ShowInv, Update \/ UpdateEmitFails, cache[cur.txn] # None PROVE Promise!Next
  <1> DEFINE c == Updated(cache[cur.txn], cur)
  <1> USE DEF IInv
  <1>1. cur \in sent /\ cur.txn \in Txn /\ cur \in Message
    BY InHand DEF Update, UpdateEmitFails
  <1>2. /\ cache' = [cache EXCEPT ![cur.txn] = c] /\ UNCHANGED <<charger, db, repeated>>
        /\ damaged' \in {damaged, damaged \cup {cur.txn}}
    BY DEF Update, UpdateEmitFails, Fault, history
  <1>3. c \in Session /\ c # None /\ c.energy = cur.value /\ c.status = cache[cur.txn].status
    BY <1>1, UpdatedSession, NoneAssumption DEF TypeOK
  <1>4. Reads(cur.txn, c)
    BY <1>1, <1>3 DEF Reads, ShowInv, CountInv
  <1> QED
    BY <1>1, <1>2, <1>3, <1>4, ShowKeeps

\* endSession completes a session that holds the register of the stop.
LEMMA EndSetKeeps ==
  ASSUME IInv, ShowInv, EndSet, cache[cur.txn] # None PROVE Promise!Next
  <1> DEFINE c == [cache[cur.txn] EXCEPT !.status = "COMPLETED"]
  <1> USE DEF IInv
  <1>1. cur \in sent /\ cur.txn \in Txn /\ cur.kind = "stop"
    BY InHand DEF WorkInv, EndSet
  <1>2. cache' = [cache EXCEPT ![cur.txn] = c] /\ UNCHANGED <<charger, db, repeated, damaged>>
    BY DEF EndSet, history
  <1>3. cache[cur.txn] \in Session
    BY <1>1 DEF TypeOK
  <1>4. c \in Session /\ c # None /\ c.energy = cache[cur.txn].energy /\ c.status = "COMPLETED"
    BY <1>3, NoneAssumption DEF Session
  <1>5. phase[cur.txn] = "stopped" /\ cur.value = meter[cur.txn]
    BY <1>1 DEF MsgInv
  <1>6. cur.txn \notin damaged => cache[cur.txn].energy = cur.value
    BY DEF CacheInv, EndSet
  <1>7. Closes(cur.txn, c)
    BY <1>4, <1>5, <1>6 DEF Closes
  <1> QED
    BY <1>1, <1>2, <1>4, <1>7, ShowKeeps

\* An expiry hits the session that vanishes.
LEMMA ExpireKeeps ==
  ASSUME NEW t \in Txn, IInv, Expire(t) PROVE Promise!Next
  <1>1. cache' = [cache EXCEPT ![t] = None] /\ UNCHANGED <<charger, db, repeated>>
        /\ damaged' = damaged \cup {t}
    BY DEF Expire, Fault
  <1>2. Vanishes(t, None)
    BY <1>1 DEF Vanishes
  <1> QED
    BY <1>1, <1>2, ShowKeeps DEF IInv

\* The row holds what is shown.
LEMMA PersistKeeps ==
  ASSUME IInv, Persist, db' # db PROVE Promise!Next
  <1> DEFINE t == cur.txn
             shown == [u \in Txn |-> Shown(u)]
             record == [u \in Txn |-> Recorded(u)]
  <1> USE DEF IInv
  <1>1. cur \in sent /\ t \in Txn /\ cur.kind = "stop"
    BY InHand DEF WorkInv, Persist
  <1>2. cache[t] \in Session /\ cache[t] # None
    BY <1>1 DEF TypeOK, CacheInv, Persist
  <1>3. /\ db[t] = None /\ db' = [db EXCEPT ![t] = [kwh |-> cache[t].energy, billed |-> cache[t].billed]]
        /\ UNCHANGED <<charger, cache, repeated, damaged>>
    BY DEF Persist, history
  <1>4. [kwh |-> cache[t].energy, billed |-> cache[t].billed] # None
    BY <1>2, NoneAssumption DEF Session, Row
  <1>5. shown[t] = [status |-> cache[t].status, energy |-> cache[t].energy] /\ record[t] = None
    BY <1>1, <1>2, <1>3 DEF Shown, Recorded
  <1>6. \A u \in Txn : Recorded(u)' = IF u = t THEN cache[t].energy ELSE Recorded(u)
    BY <1>1, <1>3, <1>4 DEF TypeOK, Recorded
  <1>7. record' = [record EXCEPT ![t] = shown[t].energy]
    BY <1>5, <1>6
  <1>8. phase[t] = "stopped" /\ cur.value = meter[t]
    BY <1>1 DEF MsgInv
  <1>9. t \notin damaged => cache[t].status = "COMPLETED" /\ cache[t].energy = meter[t]
    BY <1>8 DEF CacheInv, Persist
  <1>10. shown[t] # Promise!Nothing
    BY <1>2, <1>5 DEF Session, Promise!Nothing
  <1>11. Promise!Keep(t)
    BY <1>3, <1>5, <1>7, <1>8, <1>9, <1>10, ShownStays DEF Promise!Keep, charger
  <1> QED
    BY <1>1, <1>3, <1>11 DEF Promise!Next

\* A step that changes neither Redis nor the table hides.
LEMMA HiddenKeeps ==
  ASSUME NEW t \in Txn, UNCHANGED <<charger, cache, db>>, repeated' \in {repeated, repeated \cup {t}},
         damaged' \in {damaged, damaged \cup {t}}
  PROVE  Promise!Next
  <1>1. Promise!Hide(t)
    BY ShownStays, RecordedStays DEF Promise!Hide, charger
  <1> QED
    BY <1>1 DEF Promise!Next

\* A step that changes none of what SessionPromise speaks about.
LEMMA Stutters ==
  ASSUME UNCHANGED <<charger, cache, db, repeated, damaged>>
  PROVE  UNCHANGED Promise!promise
  BY ShownStays, RecordedStays DEF Promise!promise, charger

\* Whoever looks at a session, in Redis or in the table, sees a life that SessionPromise
\* allows, in whatever order the messages of startSession, updateSession and endSession come
\* and however often: opened again only by a repeated message, completed and recorded with
\* the last count unless a call failed, recorded once, and never with more than was counted.
THEOREM PromiseIsKept == Spec => SessionsKeepPromise
  <1>1. Init => Promise!Init
    <2> SUFFICES ASSUME Init PROVE Promise!Init
      OBVIOUS
    <2>1. \A t \in Txn : Shown(t) = Promise!Nothing /\ Recorded(t) = None
      BY DEF Init, Shown, Recorded, Promise!Nothing
    <2> QED
      BY <2>1 DEF Init, Promise!Init
  <1>2. IInv /\ ShowInv /\ [Next]_vars => [Promise!Next]_(Promise!promise)
    <2> SUFFICES ASSUME IInv, ShowInv, [Next]_vars
        PROVE  Promise!Next \/ UNCHANGED Promise!promise
      OBVIOUS
    <2>1. ASSUME NEW t \in Txn, NEW v \in Meter,
                 StartTransaction(t, v) \/ MeterValues(t, v) \/ StopTransaction(t, v)
          PROVE  Promise!Next
      BY <2>1, ChargerKeeps
    <2>2. ASSUME NEW t \in Txn, Expire(t) PROVE Promise!Next
      BY <2>2, ExpireKeeps
    <2>3. ASSUME NEW m \in sent, Deliver(m) \/ LookupFails(m) PROVE Promise!Next
      <3>1. m.txn \in Txn
        BY Numbers DEF IInv
      <3>2. /\ UNCHANGED <<charger, cache, db>> /\ repeated' \in {repeated, repeated \cup {m.txn}}
            /\ damaged' \in {damaged, damaged \cup {m.txn}}
        BY <2>3 DEF Deliver, LookupFails, Repeated, Fault, store
      <3> QED
        BY <3>1, <3>2, HiddenKeeps
    <2>4. CASE StartSet
      BY <2>4, StartSetKeeps
    <2>5. CASE Update \/ UpdateEmitFails
      <3>1. CASE cache[cur.txn] # None
        BY <2>5, <3>1, UpdateKeeps
      <3>2. CASE cache[cur.txn] = None
        BY <2>5, <3>2, Stutters DEF Update, UpdateEmitFails, history
      <3> QED
        BY <3>1, <3>2
    <2>6. CASE EndSet
      <3>1. CASE cache[cur.txn] # None
        BY <2>6, <3>1, EndSetKeeps
      <3>2. CASE cache[cur.txn] = None
        BY <2>6, <3>2, Stutters DEF EndSet, history
      <3> QED
        BY <3>1, <3>2
    <2>7. CASE Persist
      <3>1. CASE db' # db
        BY <2>7, <3>1, PersistKeeps
      <3>2. CASE db' = db
        BY <2>7, <3>2, Stutters DEF Persist, history
      <3> QED
        BY <3>1, <3>2
    <2>8. CASE PersistFails \/ RedisFails
      <3>1. cur.txn \in Txn
        BY <2>8, InHand DEF IInv, PersistFails, RedisFails
      <3>2. UNCHANGED <<charger, cache, db, repeated>> /\ damaged' = damaged \cup {cur.txn}
        BY <2>8 DEF PersistFails, RedisFails, Fault, store
      <3> QED
        BY <3>1, <3>2, HiddenKeeps
    <2>9. CASE StartAdd \/ Remove \/ CommitOffsets \/ Restart \/ UNCHANGED vars
      BY <2>9, Stutters DEF StartAdd, Remove, CommitOffsets, Restart, vars, store, history
    <2> QED
      BY <2>1, <2>2, <2>3, <2>4, <2>5, <2>6, <2>7, <2>8, <2>9 DEF Next, Consume, Handle
  <1> QED
    BY <1>1, <1>2, Invariance, InitShow, StepShow, PTL DEF Spec, SessionsKeepPromise, Promise!Spec
===============================================================================
