---------------------------- MODULE Services_proofs ---------------------------
(***************************************************************************)
(* Proofs about the services that handle money, for every set of calls and *)
(* of records.                                                             *)
(***************************************************************************)
EXTENDS Billing, GroupWallets, Calls_proofs
-------------------------------------------------------------------------------
(***************************************************************************)
(* Payments. The inductive invariant says of each query a call may still   *)
(* do what made the call decide on it: a payment is credited and updated   *)
(* only after the transaction it was made with had been collected, it is   *)
(* shown as refunded only after the one it names had been, and what was    *)
(* collected or refunded once stays so.  Reconciliation gives payments     *)
(* another session, and nothing else; what the other services of billing   *)
(* write is elsewhere.                                                     *)
(***************************************************************************)

\* The customer paid the transaction the payment was made with.
Paid(r) == r.intent \in Tx /\ Collected(r.intent)

\* The gateway refunded the transaction.
Returned(t) == t \in Tx /\ row[t] # None /\ row[t].state = "refunded"

\* Only a confirmation of what was paid makes a payment name another transaction.
Justified(r) == r.tx = r.intent \/ Paid(r)

\* What a confirmation or a refund knows of its payment.
Known(v) ==
  /\ row[v.payment] # None /\ row[v.payment].intent = v.was.intent
  /\ v.was.tx # None /\ Justified(v.was)

Confirmation == {v \in [payment : Payment, was : PaymentRow, named : Tx] : Known(v)}

Refunding == {v \in [payment : Payment, was : PaymentRow] : Known(v)}

\* The queries of a call, by what they are for.
Opening == {Insert(t, [state |-> s]) : t \in Tx, s \in {"open", "captured"}}

Fresh == {r \in PaymentRow : r.tx = r.intent /\ r.status # "REFUNDED"}

Making == {Insert(p, r) : p \in Payment, r \in Fresh}

Verifying == {Then("verify", v) : v \in Confirmation}

Confirming ==
  {PutAfter(v.payment, v.was, [status |-> "SUCCEEDED", tx |-> v.named]) :
     v \in {u \in Confirmation : Paid(u.was)}}

Crediting == {Then("credit", p) : p \in {q \in Payment : row[q] # None /\ Paid(row[q])}}

AskingBack == {Then("refund", v) : v \in Refunding}

Refunded ==
  {PutAfter(v.payment, v.was, [status |-> "REFUNDED"]) : v \in {u \in Refunding : Returned(u.was.tx)}}

Caching == {Overwrite(k, [rate |-> from]) : k \in Pair, from \in FetchExchangeRate}

Linking ==
  {PutAfter(v.payment, v.was, [session |-> v.session]) :
     v \in [payment : Payment, was : PaymentRow, session : Session]}

PaymentQueries ==
  Opening \cup Making \cup Verifying \cup Confirming \cup Crediting \cup AskingBack
    \cup Refunded \cup Caching \cup Linking

\* A query of another service.
Elsewhere(q) ==
  /\ q.do \notin {"verify", "credit", "refund"}
  /\ q.do = "match" => q.on \in Session
  /\ q.do = "write" =>
       \E i \in Id \ (Payment \cup Tx \cup Pair \cup {Purse}) : \E old, fields :
         q = Write(i, old, fields, NoField)

\* Queries of P and of other services.
Queue(P, queries) == \E Q : queries \in Seq(P \cup Q) /\ \A q \in Q : Elsewhere(q)

Within(P, t) == \E Q : t \in [Call -> Seq(P \cup Q)] /\ \A q \in Q : Elsewhere(q)

PaymentRowsInv == DOMAIN row = Id /\ PaymentsRows(row)

PaymentInv == \A p \in Rows(Payment) : Justified(row[p])

CreditInv == \A p \in Payment : row[Purse][p] > 0 => row[p] # None /\ Paid(row[p])

\* For this, it must be seen which payments a call wrote over that it did not know.
RefundInv ==
  Payment \subseteq Watched =>
    \A p \in Payment \ raced : row[p] # None /\ row[p].status = "REFUNDED" => Returned(row[p].tx)

PaymentIInv ==
  /\ PaymentRowsInv
  /\ PaymentInv
  /\ CreditInv
  /\ RefundInv
  /\ Within(PaymentQueries, todo)

\* A call decides on these queries, or goes on with them.
Does(c, queries) == Decide(c, queries) \/ \E name : Continue(c, name, queries)

PaymentsGo(c) == \E queries \in Seq(PaymentQueries) : Does(c, queries)

-------------------------------------------------------------------------------
\* Payments and collected transactions stay.
Lasts ==
  /\ \A p \in Payment : row[p] # None => row'[p] # None /\ row'[p].intent = row[p].intent
  /\ \A t \in Tx : (Collected(t) => Collected(t)') /\ (Returned(t) => Returned(t)')

\* A payment that a call wrote over stays known as one.
StaysRaced == \A p \in Payment : p \in raced /\ row[p] # None => p \in raced'

\* What calls know stays true.
LEMMA KnownLasts ==
  ASSUME Lasts
  PROVE  Confirmation \subseteq Confirmation' /\ Refunding \subseteq Refunding'
  <1>1. \A r : Paid(r) => Paid(r)'
    BY DEF Lasts, Paid
  <1>2. \A r : Justified(r) => Justified(r)'
    BY <1>1 DEF Justified
  <1>3. \A v : v.payment \in Payment /\ Known(v) => Known(v)'
    BY <1>2 DEF Known, Lasts
  <1>4. QED
    BY <1>3 DEF Confirmation, Refunding

LEMMA QueriesLast ==
  ASSUME Lasts
  PROVE  PaymentQueries \subseteq PaymentQueries'
  <1>1. \A r : Paid(r) => Paid(r)'
    BY DEF Lasts, Paid
  <1>4. Confirmation \subseteq Confirmation' /\ Refunding \subseteq Refunding'
    BY KnownLasts
  <1>5. Verifying \subseteq Verifying' /\ AskingBack \subseteq AskingBack'
    BY <1>4 DEF Verifying, AskingBack
  <1>11. Refunded \subseteq Refunded'
    <2>1. \A v : Returned(v.was.tx) => Returned(v.was.tx)'
      BY DEF Lasts, Returned
    <2>2. QED
      BY <1>4, <2>1 DEF Refunded
  <1>6. Confirming \subseteq Confirming'
    BY <1>1, <1>4 DEF Confirming
  <1>7. \A p \in Payment : row[p] # None /\ Paid(row[p]) => row'[p] # None /\ Paid(row[p])'
    BY <1>1 DEF Lasts, Paid
  <1>8. Crediting \subseteq Crediting'
    BY <1>7 DEF Crediting
  <1>9. Opening' = Opening /\ Making' = Making /\ Caching' = Caching /\ Linking' = Linking
    BY DEF Opening, Making, Caching, Linking
  <1>10. QED
    BY <1>5, <1>6, <1>8, <1>9, <1>11 DEF PaymentQueries

\* What PaymentIInv says of the records.
RecordsInv == PaymentRowsInv /\ PaymentInv /\ CreditInv /\ RefundInv

LEMMA SameRecords ==
  ASSUME RecordsInv, row' = row, StaysRaced
  PROVE  RecordsInv' /\ PaymentQueries' = PaymentQueries
  <1>1. (PaymentRowsInv /\ PaymentInv /\ CreditInv)' /\ PaymentQueries' = PaymentQueries
    BY DEF RecordsInv, PaymentRowsInv, PaymentsRows, PaymentInv, CreditInv, PaymentQueries, Opening, Making,
           Verifying, Confirming, Crediting, AskingBack, Refunded, Caching, Linking, Confirmation, Refunding,
           Known, Justified, Paid, Collected, Returned, Rows
  <1>2. RefundInv'
    BY DEF RecordsInv, RefundInv, StaysRaced, Returned
  <1>3. QED
    BY <1>1, <1>2 DEF RecordsInv

\* Payments stay what they are, and what was refunded stays so.
LEMMA RefundsStay ==
  ASSUME RefundInv, Lasts, StaysRaced, \A p \in Payment : row'[p] = row[p]
  PROVE  RefundInv'
  <1>1. \A t : Returned(t) => Returned(t)'
    BY DEF Lasts, Returned
  <1>2. QED
    BY <1>1 DEF RefundInv, StaysRaced

\* A call that starts or goes on forgets the history only of what is not there.
LEMMA HistoryStays ==
  ASSUME NEW queries, NEW crowd, Afresh(queries, crowd)
  PROVE  StaysRaced
  BY DEF Afresh, StaysRaced

\* Queries of P and of other services come one after the other.
LEMMA QueueJoins ==
  ASSUME NEW P, NEW first, Queue(P, first), NEW then, Queue(P, then)
  PROVE  Queue(P, first \o then)
  <1>1. PICK Q : first \in Seq(P \cup Q) /\ \A q \in Q : Elsewhere(q)
    BY DEF Queue
  <1>2. PICK R : then \in Seq(P \cup R) /\ \A q \in R : Elsewhere(q)
    BY DEF Queue
  <1> DEFINE S == Q \cup R
  <1>3. \A q \in S : Elsewhere(q)
    BY <1>1, <1>2
  <1>4. first \in Seq(P \cup S) /\ then \in Seq(P \cup S)
    <2>1. P \cup Q \subseteq P \cup S /\ P \cup R \subseteq P \cup S
      OBVIOUS
    <2> HIDE DEF S
    <2>2. QED
      BY <1>1, <1>2, <2>1, SeqMonotonic
  <1> HIDE DEF S
  <1>5. first \o then \in Seq(P \cup S)
    BY <1>4, ConcatProperties
  <1>6. QED
    BY <1>3, <1>5 DEF Queue

LEMMA QueueGrows ==
  ASSUME NEW P, NEW R, P \subseteq R, NEW queries, Queue(P, queries)
  PROVE  Queue(R, queries)
  <1>1. PICK Q : queries \in Seq(P \cup Q) /\ \A q \in Q : Elsewhere(q)
    BY DEF Queue
  <1>2. P \cup Q \subseteq R \cup Q
    OBVIOUS
  <1>3. queries \in Seq(R \cup Q)
    BY <1>1, <1>2, SeqMonotonic
  <1>4. QED
    BY <1>1, <1>3 DEF Queue

LEMMA QueueIs ==
  ASSUME NEW P, NEW queries \in Seq(P)
  PROVE  Queue(P, queries)
  <1> DEFINE Q == {}
  <1>1. P \subseteq P \cup Q /\ \A q \in Q : Elsewhere(q)
    OBVIOUS
  <1> HIDE DEF Q
  <1>2. queries \in Seq(P \cup Q)
    BY <1>1, SeqMonotonic
  <1>3. QED
    BY <1>1, <1>2 DEF Queue

\* The next query of a call, and what is left after it.
LEMMA QueueOf ==
  ASSUME NEW P, Within(P, todo), NEW c \in Call, ~Free(c)
  PROVE  (Head(todo[c]) \in P \/ Elsewhere(Head(todo[c]))) /\ Queue(P, Tail(todo[c]))
  <1>1. PICK Q : todo \in [Call -> Seq(P \cup Q)] /\ \A q \in Q : Elsewhere(q)
    BY DEF Within
  <1>2. Head(todo[c]) \in P \cup Q /\ Tail(todo[c]) \in Seq(P \cup Q)
    BY <1>1, NextQuery
  <1>3. QED
    BY <1>1, <1>2 DEF Queue

\* A call has these queries in the place of what it had to do.
LEMMA WithinOf ==
  ASSUME NEW P, NEW R, P \subseteq R, Within(P, todo), NEW c \in Call, NEW queries, Queue(R, queries)
  PROVE  Within(R, [todo EXCEPT ![c] = queries])
  <1>1. PICK Q : todo \in [Call -> Seq(P \cup Q)] /\ \A q \in Q : Elsewhere(q)
    BY DEF Within
  <1>2. PICK O : queries \in Seq(R \cup O) /\ \A q \in O : Elsewhere(q)
    BY DEF Queue
  <1> DEFINE S == R \cup Q \cup O
  <1>3. P \cup Q \subseteq S /\ R \cup O \subseteq S /\ S = R \cup (Q \cup O)
    OBVIOUS
  <1> HIDE DEF S
  <1>4. Seq(P \cup Q) \subseteq Seq(S) /\ Seq(R \cup O) \subseteq Seq(S)
    BY <1>3, SeqMonotonic
  <1>5. [todo EXCEPT ![c] = queries] \in [Call -> Seq(S)]
    BY <1>1, <1>2, <1>4
  <1>6. \A q \in Q \cup O : Elsewhere(q)
    BY <1>1, <1>2
  <1>7. QED
    BY <1>3, <1>5, <1>6 DEF Within

LEMMA WithinGrows ==
  ASSUME NEW P, NEW R, P \subseteq R, Within(P, todo)
  PROVE  Within(R, todo)
  <1>1. PICK Q : todo \in [Call -> Seq(P \cup Q)] /\ \A q \in Q : Elsewhere(q)
    BY DEF Within
  <1>2. P \cup Q \subseteq R \cup Q
    OBVIOUS
  <1>3. Seq(P \cup Q) \subseteq Seq(R \cup Q)
    BY <1>2, SeqMonotonic
  <1>4. QED
    BY <1>1, <1>3 DEF Within

\* A call starts or goes on.
LEMMA PaymentDoes ==
  ASSUME PaymentIInv, NEW c \in Call, NEW queries, Queue(PaymentQueries, queries), Does(c, queries)
  PROVE  PaymentIInv'
  <1>1. StaysRaced /\ row' = row
    BY HistoryStays DEF Does, Decide, Continue
  <1>2. RecordsInv' /\ PaymentQueries' = PaymentQueries
    BY <1>1, SameRecords DEF PaymentIInv, RecordsInv
  <1>3. CASE Decide(c, queries)
    <2>1. todo' = [todo EXCEPT ![c] = queries]
      BY <1>3 DEF Decide
    <2>2. Within(PaymentQueries, todo')
      BY <2>1, WithinOf DEF PaymentIInv
    <2>3. QED
      BY <1>2, <2>2 DEF PaymentIInv, RecordsInv
  <1>4. CASE \E name : Continue(c, name, queries)
    <2>1. todo' = [todo EXCEPT ![c] = queries \o Tail(todo[c])] /\ ~Free(c)
      BY <1>4 DEF Continue, At
    <2>2. Queue(PaymentQueries, queries \o Tail(todo[c]))
      BY <2>1, QueueOf, QueueJoins DEF PaymentIInv
    <2>3. Within(PaymentQueries, todo')
      BY <2>1, <2>2, WithinOf DEF PaymentIInv
    <2>4. QED
      BY <1>2, <2>3 DEF PaymentIInv, RecordsInv
  <1>5. QED
    BY <1>3, <1>4 DEF Does

\* A step of c that changes records.
LEMMA ChangeStep ==
  ASSUME PaymentIInv, NEW c \in Call, ~Free(c), RecordsInv', Lasts,
         NEW queries \in Seq(PaymentQueries'),
         todo' = [todo EXCEPT ![c] = queries \o Tail(@)] \/ todo' = [todo EXCEPT ![c] = Tail(@)]
  PROVE  PaymentIInv'
  <1>1. PaymentQueries \subseteq PaymentQueries'
    BY QueriesLast
  <1>2. Queue(PaymentQueries', Tail(todo[c]))
    BY <1>1, QueueOf, QueueGrows DEF PaymentIInv
  <1>3. Queue(PaymentQueries', queries \o Tail(todo[c]))
    BY <1>2, QueueIs, QueueJoins
  <1>4. \/ todo' = [todo EXCEPT ![c] = queries \o Tail(todo[c])]
        \/ todo' = [todo EXCEPT ![c] = Tail(todo[c])]
    OBVIOUS
  <1>5. Within(PaymentQueries', todo')
    <2>1. Within(PaymentQueries, todo)
      BY DEF PaymentIInv
    <2>2. /\ Within(PaymentQueries', [todo EXCEPT ![c] = queries \o Tail(todo[c])])
          /\ Within(PaymentQueries', [todo EXCEPT ![c] = Tail(todo[c])])
      BY <1>1, <1>2, <1>3, <2>1, WithinOf
    <2>3. QED
      BY <1>4, <2>2
  <1>6. QED
    BY <1>5 DEF PaymentIInv, RecordsInv

\* The queries that a method of the payments starts with, or goes on with.
LEMMA PaymentDecides ==
  ASSUME NEW c \in Call, NEW queries \in Seq(PaymentQueries), Decide(c, queries)
  PROVE  PaymentsGo(c)
  BY DEF PaymentsGo, Does

-------------------------------------------------------------------------------
\* The first queries of the methods are ones of PaymentQueries.
LEMMA NewPayments ==
  ASSUME NEW c \in Call, PaymentIInv
  PROVE  CreateIntent(c) \/ ProcessCashPayment(c) \/ ProcessMobilePayment(c) => PaymentsGo(c)
  <1>1. ASSUME CreateIntent(c) PROVE PaymentsGo(c)
    <2>1. PICK p \in Unused(Payment), t \in Unused(Tx), input \in IntentInput, stripe \in BOOLEAN :
            LET g == SelectGateway(input.africanOrEuropean, input.gateway, stripe)
            IN /\ g = "stripe" => stripe
               /\ \E state \in IntentState(g) :
                    Decide(c, <<Insert(t, [state |-> state]),
                                Insert(p, NewPayment("PENDING", g, t, input.session))>>)
      BY <1>1 DEF CreateIntent
    <2> DEFINE g == SelectGateway(input.africanOrEuropean, input.gateway, stripe)
    <2>2. PICK state \in IntentState(g) :
            Decide(c, <<Insert(t, [state |-> state]),
                        Insert(p, NewPayment("PENDING", g, t, input.session))>>)
      BY <2>1
    <2>3. p \in Payment /\ t \in Tx /\ state \in {"open", "captured"} /\ g \in Gateway
          /\ input.session \in Session \cup {None}
      BY DEF Unused, IntentState, SelectGateway, IntentInput, Gateway
    <2>4. Insert(t, [state |-> state]) \in PaymentQueries
      BY <2>3 DEF PaymentQueries, Opening
    <2>5. Insert(p, NewPayment("PENDING", g, t, input.session)) \in PaymentQueries
      BY <2>3 DEF PaymentQueries, Making, Fresh, NewPayment, PaymentRow, PaymentStatus
    <2>6. QED
      BY <2>2, <2>4, <2>5, SeqOfTwo, PaymentDecides
  <1>2. ASSUME NEW p \in Payment, NEW status \in {"SUCCEEDED", "PENDING"},
               NEW provider \in {"manual", "mpesa"},
               Decide(c, <<Insert(p, NewPayment(status, provider, None, None))>>)
        PROVE  PaymentsGo(c)
    <2>1. Insert(p, NewPayment(status, provider, None, None)) \in PaymentQueries
      BY DEF PaymentQueries, Making, Fresh, NewPayment, PaymentRow, PaymentStatus
    <2>2. QED
      BY <1>2, <2>1, SeqOfOne, PaymentDecides
  <1>3. QED
    BY <1>1, <1>2 DEF ProcessCashPayment, ProcessMobilePayment, Unused

\* A payment that a call has just read is known to it.
LEMMA ReadIsKnown ==
  ASSUME PaymentIInv, NEW p \in Rows(Payment), ByGateway(p)
  PROVE  /\ row[p] \in PaymentRow
         /\ \A v : v.payment = p /\ v.was = row[p] => Known(v)
  BY DEF PaymentIInv, PaymentRowsInv, PaymentsRows, PaymentInv, Rows, ByGateway, Known

LEMMA Asking ==
  ASSUME NEW c \in Call, PaymentIInv
  PROVE  ConfirmPayment(c) \/ Refund(c) \/ GetExchangeRate(c) => PaymentsGo(c)
  <1>1. ASSUME ConfirmPayment(c) PROVE PaymentsGo(c)
    <2>1. PICK p \in Rows(Payment), t \in Rows(Tx) :
            /\ ByGateway(p)
            /\ Decide(c, <<Then("verify", [payment |-> p, was |-> row[p], named |-> t])>>)
      BY <1>1 DEF ConfirmPayment
    <2> DEFINE v == [payment |-> p, was |-> row[p], named |-> t]
    <2>2. v \in Confirmation
      BY <2>1, ReadIsKnown DEF Confirmation, Rows
    <2>3. Then("verify", v) \in PaymentQueries
      BY <2>2 DEF PaymentQueries, Verifying
    <2>4. QED
      BY <2>1, <2>3, SeqOfOne, PaymentDecides
  <1>2. ASSUME Refund(c) PROVE PaymentsGo(c)
    <2>1. PICK p \in Rows(Payment) :
            ByGateway(p) /\ Decide(c, <<Then("refund", [payment |-> p, was |-> row[p]])>>)
      BY <1>2 DEF Refund
    <2> DEFINE v == [payment |-> p, was |-> row[p]]
    <2>2. v \in Refunding
      BY <2>1, ReadIsKnown DEF Refunding, Rows
    <2>3. Then("refund", v) \in PaymentQueries
      BY <2>2 DEF PaymentQueries, AskingBack
    <2>4. QED
      BY <2>1, <2>3, SeqOfOne, PaymentDecides
  <1>3. ASSUME GetExchangeRate(c) PROVE PaymentsGo(c)
    <2>1. PICK k \in Pair, rate \in FetchExchangeRate : Decide(c, <<Overwrite(k, [rate |-> rate])>>)
      BY <1>3 DEF GetExchangeRate
    <2>2. Overwrite(k, [rate |-> rate]) \in PaymentQueries
      BY DEF PaymentQueries, Caching
    <2>3. QED
      BY <2>1, <2>2, SeqOfOne, PaymentDecides
  <1>4. QED
    BY <1>1, <1>2, <1>3

-------------------------------------------------------------------------------
\* What the next query of a call is, by the name of the read it goes on from.
LEMMA NextByName ==
  ASSUME PaymentIInv, NEW c \in Call
  PROVE  /\ At(c, "verify") => \E v \in Confirmation : Head(todo[c]) = Then("verify", v)
         /\ At(c, "credit") =>
              \E p \in Payment : Head(todo[c]) = Then("credit", p) /\ row[p] # None /\ Paid(row[p])
         /\ At(c, "refund") => \E v \in Refunding : Head(todo[c]) = Then("refund", v)
         /\ At(c, "match") => Subject(c) \in Session
         /\ At(c, "write") =>
              \/ Head(todo[c]) \in Opening \cup Making \cup Confirming \cup Refunded \cup Caching \cup Linking
              \/ Elsewhere(Head(todo[c]))
  <1> DEFINE q == Head(todo[c])
  <1>1. ~Free(c) => q \in PaymentQueries \/ Elsewhere(q)
    BY QueueOf DEF PaymentIInv
  <1>2. q \in Opening \cup Making \cup Confirming \cup Refunded \cup Caching \cup Linking => q.do = "write"
    <2>1. \A i, old, fields, more : Write(i, old, fields, more).do = "write"
      BY WriteParts
    <2>2. \A x \in Opening \cup Making : x.do = "write"
      BY <2>1 DEF Opening, Making, Insert
    <2>3. \A x \in Confirming : x.do = "write"
      BY <2>1 DEF Confirming, PutAfter
    <2>4. \A x \in Refunded : x.do = "write"
      BY <2>1 DEF Refunded, PutAfter
    <2>5. ASSUME NEW x \in Caching PROVE x.do = "write"
      <3>1. PICK k \in Pair, from \in FetchExchangeRate : x = Overwrite(k, [rate |-> from])
        BY DEF Caching
      <3>2. QED
        BY <3>1, <2>1 DEF Overwrite
    <2>6. ASSUME NEW x \in Linking PROVE x.do = "write"
      <3>1. PICK v \in [payment : Payment, was : PaymentRow, session : Session] :
                   x = PutAfter(v.payment, v.was, [session |-> v.session])
        BY DEF Linking
      <3>2. QED
        BY <3>1, <2>1 DEF PutAfter
    <2>7. QED
      BY <2>2, <2>3, <2>4, <2>5, <2>6
  <1>3. q \in Verifying => q.do = "verify" /\ \E v \in Confirmation : q = Then("verify", v)
    BY DEF Verifying, Then
  <1>4. q \in Crediting =>
          q.do = "credit" /\ \E p \in Payment : q = Then("credit", p) /\ row[p] # None /\ Paid(row[p])
    BY DEF Crediting, Then
  <1>5. q \in AskingBack => q.do = "refund" /\ \E v \in Refunding : q = Then("refund", v)
    BY DEF AskingBack, Then
  <1>6. QED
    BY <1>1, <1>2, <1>3, <1>4, <1>5 DEF At, PaymentQueries, Elsewhere, Subject

LEMMA VerifyStep ==
  ASSUME PaymentIInv, NEW c \in Call, Verify(c)
  PROVE  PaymentsGo(c)
  <1> DEFINE v == Subject(c)
             queries == IF Verified(v.was.tx)
                        THEN <<PutAfter(v.payment, v.was, [status |-> "SUCCEEDED", tx |-> v.named]),
                               Then("credit", v.payment)>>
                        ELSE <<>>
  <1>1. Continue(c, "verify", queries)
    BY DEF Verify
  <1>2. v \in Confirmation
    <2>1. PICK w \in Confirmation : Head(todo[c]) = Then("verify", w)
      BY <1>1, NextByName DEF Continue
    <2>2. Head(todo[c]).on = w
      BY <2>1, ThenParts
    <2>3. QED
      BY <2>1, <2>2 DEF Subject
  <1>3. Known(v) /\ v.was \in PaymentRow /\ v.payment \in Payment /\ v.named \in Tx
    BY <1>2 DEF Confirmation
  <1>4. ASSUME Verified(v.was.tx) PROVE queries \in Seq(PaymentQueries)
    <2>1. v.was.tx \in Tx
      BY <1>3 DEF Known, PaymentRow
    <2>2. Paid(v.was)
      BY <1>3, <1>4, <2>1 DEF Known, Justified, Paid, Verified, Collected
    <2>3. PutAfter(v.payment, v.was, [status |-> "SUCCEEDED", tx |-> v.named]) \in PaymentQueries
      BY <1>2, <2>2 DEF Confirming, PaymentQueries
    <2>4. Paid(row[v.payment])
      BY <1>3, <2>2 DEF Known, Paid
    <2>5. Then("credit", v.payment) \in PaymentQueries
      BY <1>3, <2>4 DEF Known, Crediting, PaymentQueries
    <2>6. QED
      BY <1>4, <2>3, <2>5, SeqOfTwo
  <1>5. queries \in Seq(PaymentQueries)
    BY <1>4, EmptySeq
  <1>6. QED
    BY <1>1, <1>5 DEF PaymentsGo, Does

LEMMA CreditStep ==
  ASSUME PaymentIInv, NEW c \in Call, Credit(c)
  PROVE  PaymentIInv'
  <1> DEFINE p == Subject(c)
  <1>1. p \in Payment /\ row[p] # None /\ Paid(row[p])
    BY NextByName, ThenParts DEF Credit, Subject
  <1>2. /\ row' = [row EXCEPT ![Purse] = [row[Purse] EXCEPT ![p] = @ + 1]]
        /\ row[Purse][p] < MaxCredits
        /\ todo' = [todo EXCEPT ![c] = <<>> \o Tail(@)]
        /\ ~Free(c) /\ StaysRaced
    BY HistoryStays DEF Credit, Perform, At
  <1>3. row[Purse] \in [Payment -> 0..MaxCredits] /\ DOMAIN row = Id /\ Purse \in Id
    BY PaymentsIdAssumption DEF PaymentIInv, PaymentRowsInv, PaymentsRows
  <1>4. /\ row'[Purse] = [row[Purse] EXCEPT ![p] = @ + 1]
        /\ \A i \in Payment \cup Tx \cup Pair : row'[i] = row[i]
        /\ DOMAIN row' = Id
    BY <1>2, <1>3, PaymentsIdAssumption
  <1>5. row'[Purse] \in [Payment -> 0..MaxCredits]
    BY <1>1, <1>2, <1>3, <1>4, MaxCreditsAssumption
  <1>6. PaymentRowsInv'
    BY <1>4, <1>5 DEF PaymentIInv, PaymentRowsInv, PaymentsRows
  <1>7. \A t \in Tx : (Collected(t) <=> Collected(t)') /\ (Returned(t) => Returned(t)')
    BY <1>4 DEF Collected, Returned
  <1>8. Lasts
    BY <1>4, <1>7 DEF Lasts
  <1>9. \A q \in Payment : (Justified(row[q]) <=> Justified(row[q])') /\ (Paid(row[q]) <=> Paid(row[q])')
    BY <1>4, <1>7 DEF Justified, Paid
  <1>10. PaymentInv'
    BY <1>4, <1>9 DEF PaymentIInv, PaymentInv, Rows
  <1>11. CreditInv'
    BY <1>1, <1>3, <1>4, <1>9 DEF PaymentIInv, CreditInv
  <1>14. RefundInv'
    BY <1>2, <1>4, <1>8, RefundsStay DEF PaymentIInv
  <1>12. RecordsInv' /\ <<>> \in Seq(PaymentQueries')
    BY <1>6, <1>10, <1>11, <1>14, EmptySeq DEF RecordsInv
  <1>13. QED
    BY <1>2, <1>8, <1>12, ChangeStep

\* A step that changes one transaction, which stays collected or refunded if it was.
LEMMA TransactionStep ==
  ASSUME PaymentIInv, NEW t \in Tx, NEW r \in TxRow, row' = [row EXCEPT ![t] = r],
         Collected(t) => r.state \in {"captured", "refunded"},
         Returned(t) => r.state = "refunded", StaysRaced
  PROVE  RecordsInv' /\ Lasts
  <1>1. /\ row'[t] = r /\ DOMAIN row' = Id
        /\ \A i \in Payment \cup Pair \cup {Purse} : row'[i] = row[i]
        /\ \A u \in Tx \ {t} : row'[u] = row[u]
    BY PaymentsIdAssumption DEF PaymentIInv, PaymentRowsInv
  <1>2. \A u \in Tx : (Collected(u) => Collected(u)') /\ (Returned(u) => Returned(u)')
    BY <1>1, NoPaymentAssumption DEF Collected, Returned
  <1>3. Lasts
    BY <1>1, <1>2 DEF Lasts
  <1>4. PaymentRowsInv'
    BY <1>1 DEF PaymentIInv, PaymentRowsInv, PaymentsRows
  <1>5. \A q \in Payment : (Justified(row[q]) => Justified(row[q])') /\ (Paid(row[q]) => Paid(row[q])')
    BY <1>1, <1>2 DEF Justified, Paid
  <1>6. PaymentInv' /\ CreditInv'
    BY <1>1, <1>5 DEF PaymentIInv, PaymentInv, CreditInv, Rows
  <1>7. RefundInv'
    BY <1>1, <1>3, RefundsStay DEF PaymentIInv
  <1>8. QED
    BY <1>3, <1>4, <1>6, <1>7 DEF RecordsInv

LEMMA RefundStep ==
  ASSUME PaymentIInv, NEW c \in Call, RefundAtGateway(c)
  PROVE  PaymentIInv'
  <1>1. PICK v \in Refunding : Subject(c) = v
    BY NextByName, ThenParts DEF RefundAtGateway, Subject
  <1> DEFINE fields == [status |-> "REFUNDED"]
             q == PutAfter(v.payment, v.was, fields)
             r == [state |-> "refunded"]
  <1>2. v.was.tx \in Tx
    BY <1>1 DEF Refunding, Known, PaymentRow
  <1>3. row' = [row EXCEPT ![v.was.tx] = r] /\ todo' = [todo EXCEPT ![c] = <<q>> \o Tail(@)] /\ ~Free(c)
        /\ StaysRaced
    BY <1>1, HistoryStays DEF RefundAtGateway, Perform, At
  <1>4. r \in TxRow /\ r.state = "refunded"
    BY DEF TxRow
  <1>5. r # None
    BY <1>4, NoPaymentAssumption
  <1> HIDE DEF r, q
  <1>6. RecordsInv' /\ Lasts
    BY <1>2, <1>3, <1>4, TransactionStep
  <1>7. Returned(v.was.tx)'
    <2>1. row'[v.was.tx] = r
      BY <1>2, <1>3, PaymentsIdAssumption DEF PaymentIInv, PaymentRowsInv
    <2>2. QED
      BY <1>2, <1>4, <1>5, <2>1 DEF Returned
  <1>8. v \in Refunding'
    BY <1>6, KnownLasts
  <1>9. q \in PaymentQueries'
    BY <1>7, <1>8 DEF Refunded, PaymentQueries, q
  <1>10. <<q>> \in Seq(PaymentQueries')
    BY <1>9, SeqOfOne
  <1>11. QED
    BY <1>3, <1>6, <1>10, ChangeStep

\* A step that changes a rate alone.
LEMMA RateStep ==
  ASSUME PaymentIInv, NEW k \in Pair, NEW r \in RateRow, row' = [row EXCEPT ![k] = r], StaysRaced
  PROVE  RecordsInv' /\ Lasts
  <1>1. /\ row'[k] = r /\ DOMAIN row' = Id
        /\ \A i \in Payment \cup Tx \cup {Purse} : row'[i] = row[i]
        /\ \A j \in Pair \ {k} : row'[j] = row[j]
    BY PaymentsIdAssumption DEF PaymentIInv, PaymentRowsInv
  <1>2. \A t \in Tx : (Collected(t) <=> Collected(t)') /\ (Returned(t) => Returned(t)')
    BY <1>1 DEF Collected, Returned
  <1>3. PaymentRowsInv' /\ Lasts
    BY <1>1, <1>2 DEF PaymentIInv, PaymentRowsInv, PaymentsRows, Lasts
  <1>4. \A q \in Payment : (Justified(row[q]) <=> Justified(row[q])') /\ (Paid(row[q]) <=> Paid(row[q])')
    BY <1>1, <1>2 DEF Justified, Paid
  <1>5. PaymentInv' /\ CreditInv'
    BY <1>1, <1>4 DEF PaymentIInv, PaymentInv, CreditInv, Rows
  <1>6. RefundInv'
    BY <1>1, <1>3, RefundsStay DEF PaymentIInv
  <1>7. QED
    BY <1>3, <1>5, <1>6 DEF RecordsInv

\* A step that changes a record of another service.
LEMMA OtherStep ==
  ASSUME PaymentIInv, NEW i \in Id \ (Payment \cup Tx \cup Pair \cup {Purse}), NEW r,
         row' = [row EXCEPT ![i] = r], StaysRaced
  PROVE  RecordsInv' /\ Lasts
  <1>1. DOMAIN row' = Id /\ \A j \in Payment \cup Tx \cup Pair \cup {Purse} : row'[j] = row[j]
    BY PaymentsIdAssumption DEF PaymentIInv, PaymentRowsInv
  <1>2. \A t \in Tx : (Collected(t) <=> Collected(t)') /\ (Returned(t) => Returned(t)')
    BY <1>1 DEF Collected, Returned
  <1>3. PaymentRowsInv' /\ Lasts
    BY <1>1, <1>2 DEF PaymentIInv, PaymentRowsInv, PaymentsRows, Lasts
  <1>4. \A q \in Payment : (Justified(row[q]) <=> Justified(row[q])') /\ (Paid(row[q]) <=> Paid(row[q])')
    BY <1>1, <1>2 DEF Justified, Paid
  <1>5. PaymentInv' /\ CreditInv'
    BY <1>1, <1>4 DEF PaymentIInv, PaymentInv, CreditInv, Rows
  <1>6. RefundInv'
    BY <1>1, <1>3, RefundsStay DEF PaymentIInv
  <1>7. QED
    BY <1>3, <1>5, <1>6 DEF RecordsInv

\* Steps of others than calls.
LEMMA OutsideStep ==
  ASSUME PaymentIInv, CustomersPay \/ RatesExpire
  PROVE  PaymentIInv'
  <1>1. ASSUME CustomersPay PROVE RecordsInv' /\ Lasts /\ todo' = todo
    <2>1. PICK t \in Tx : CustomerPays(t)
      BY <1>1 DEF CustomersPay
    <2>2. row' = [row EXCEPT ![t] = [state |-> "captured"]] /\ todo' = todo /\ StaysRaced
          /\ [state |-> "captured"] \in TxRow /\ ~Returned(t)
      BY <2>1 DEF CustomerPays, Outside, TxRow, history, StaysRaced, Returned
    <2>3. QED
      BY <2>2, TransactionStep
  <1>2. ASSUME RatesExpire PROVE RecordsInv' /\ Lasts /\ todo' = todo
    <2>1. PICK k \in Pair : row' = [row EXCEPT ![k] = [rate |-> None]] /\ todo' = todo /\ StaysRaced
      BY <1>2 DEF RatesExpire, RateExpires, Outside, history, StaysRaced
    <2>2. QED
      BY <2>1, RateStep DEF RateRow
  <1>3. RecordsInv' /\ Lasts /\ todo' = todo
    BY <1>1, <1>2
  <1>4. Within(PaymentQueries', todo)
    BY <1>3, QueriesLast, WithinGrows DEF PaymentIInv
  <1>5. QED
    BY <1>3, <1>4 DEF PaymentIInv, RecordsInv

-------------------------------------------------------------------------------
\* A step that makes a payment or changes it, but not the transaction it was made with.
LEMMA PaymentStep ==
  ASSUME PaymentIInv, NEW p \in Payment, NEW r \in PaymentRow, row' = [row EXCEPT ![p] = r],
         row[p] # None => r.intent = row[p].intent, Justified(r), raced \subseteq raced',
         Payment \subseteq Watched /\ p \notin raced' /\ r.status = "REFUNDED" => Returned(r.tx)
  PROVE  RecordsInv' /\ Lasts
  <1>1. /\ row'[p] = r /\ DOMAIN row' = Id
        /\ \A i \in Tx \cup Pair \cup {Purse} : row'[i] = row[i]
        /\ \A q \in Payment \ {p} : row'[q] = row[q]
    BY PaymentsIdAssumption DEF PaymentIInv, PaymentRowsInv
  <1>2. r # None
    BY NoPaymentAssumption
  <1>3. \A t \in Tx : (Collected(t) <=> Collected(t)') /\ (Returned(t) <=> Returned(t)')
    BY <1>1 DEF Collected, Returned
  <1>4. Lasts
    BY <1>1, <1>2, <1>3 DEF Lasts
  <1>5. PaymentRowsInv'
    BY <1>1 DEF PaymentIInv, PaymentRowsInv, PaymentsRows
  <1>6. Justified(row[p])'
    BY <1>1, <1>3 DEF Justified, Paid
  <1>7. \A q \in Payment \ {p} :
          (Justified(row[q]) <=> Justified(row[q])') /\ (Paid(row[q]) <=> Paid(row[q])')
    BY <1>1, <1>3 DEF Justified, Paid
  <1>8. PaymentInv'
    BY <1>1, <1>6, <1>7 DEF PaymentIInv, PaymentInv, Rows
  <1>9. row[Purse][p] > 0 => row'[p] # None /\ Paid(row[p])'
    BY <1>1, <1>2, <1>3 DEF PaymentIInv, CreditInv, Paid
  <1>10. CreditInv'
    BY <1>1, <1>7, <1>9 DEF PaymentIInv, CreditInv
  <1>11. RefundInv'
    <2>1. \A t : Returned(t) => Returned(t)'
      BY <1>3 DEF Returned
    <2>2. QED
      BY <1>1, <2>1 DEF PaymentIInv, RefundInv
  <1>12. QED
    BY <1>4, <1>5, <1>8, <1>10, <1>11 DEF RecordsInv

\* A call ends, and nothing else happens.
LEMMA EndStep ==
  ASSUME PaymentIInv, NEW c \in Call, row' = row, raced' = raced, todo' = [todo EXCEPT ![c] = <<>>]
  PROVE  PaymentIInv'
  <1>1. RecordsInv' /\ PaymentQueries' = PaymentQueries
    BY SameRecords DEF PaymentIInv, RecordsInv, StaysRaced
  <1>2. Within(PaymentQueries, todo')
    BY EmptySeq, QueueIs, WithinOf DEF PaymentIInv
  <1>3. QED
    BY <1>1, <1>2 DEF PaymentIInv, RecordsInv

\* A change of a payment that leaves its transaction and provider as they were made.
LEMMA Amended ==
  ASSUME PaymentIInv, NEW p \in Payment, row[p] # None, NEW fields, NEW old, fields # None,
         NEW status \in PaymentStatus, NEW t \in Tx,
         fields \in {[status |-> status, tx |-> t], [status |-> status]}
  PROVE  LET r == Applied([saw |-> old, put |-> fields, inc |-> NoField], row[p])
         IN /\ r \in PaymentRow /\ r.intent = row[p].intent
            /\ r.status = status /\ (fields = [status |-> status] => r.tx = row[p].tx)
  <1> DEFINE w == [saw |-> old, put |-> fields, inc |-> NoField]
             r == Applied(w, row[p])
  <1>1. row[p] \in PaymentRow
    BY DEF PaymentIInv, PaymentRowsInv, PaymentsRows
  <1>2. DOMAIN row[p] = {"status", "provider", "tx", "intent", "session"}
    BY <1>1 DEF PaymentRow
  <1>3. DOMAIN NoField = {}
    BY DEF NoField
  <1>4. r = [f \in DOMAIN row[p] |-> IF f \in DOMAIN fields THEN fields[f] ELSE row[p][f]]
    BY <1>3 DEF Applied
  <1>5. CASE fields = [status |-> status, tx |-> t]
    <2>1. DOMAIN fields = {"status", "tx"}
      BY <1>5
    <2>2. r = [row[p] EXCEPT !.status = status, !.tx = t]
      BY <1>2, <1>4, <1>5, <2>1
    <2>3. r \in PaymentRow /\ r.intent = row[p].intent /\ r.status = status
      BY <1>1, <2>2 DEF PaymentRow
    <2>4. fields # [status |-> status]
      <3>1. DOMAIN [status |-> status] = {"status"}
        OBVIOUS
      <3>2. QED
        BY <2>1, <3>1
    <2>5. QED
      BY <2>3, <2>4
  <1>6. CASE fields = [status |-> status]
    <2>1. DOMAIN fields = {"status"}
      BY <1>6
    <2>2. r = [row[p] EXCEPT !.status = status]
      BY <1>2, <1>4, <1>6, <2>1
    <2>3. QED
      BY <1>1, <2>2 DEF PaymentRow
  <1>7. QED
    BY <1>5, <1>6

LEMMA CommitStep ==
  ASSUME PaymentIInv, NEW c \in Call, Commit(c)
  PROVE  PaymentIInv'
  <1> DEFINE q == Head(todo[c])
  <1>1. /\ ~Free(c) /\ q.do = "write"
        /\ q \in Opening \cup Making \cup Confirming \cup Refunded \cup Caching \cup Linking \/ Elsewhere(q)
    BY NextByName DEF Commit, At
  <1>2. SUFFICES ASSUME row' # row \/ raced' # raced \/ todo' # [todo EXCEPT ![c] = <<>>]
                 PROVE  RecordsInv' /\ Lasts /\ todo' = [todo EXCEPT ![c] = Tail(@)]
    <2>1. CASE row' = row /\ raced' = raced /\ todo' = [todo EXCEPT ![c] = <<>>]
      BY <2>1, EndStep
    <2>2. CASE ~(row' = row /\ raced' = raced /\ todo' = [todo EXCEPT ![c] = <<>>])
      BY <1>1, <1>2, <2>2, EmptySeq, ChangeStep
    <2>3. QED
      BY <2>1, <2>2
  <1>3. DOMAIN row = Id
    BY DEF PaymentIInv, PaymentRowsInv
  <1>4. ASSUME NEW i \in Id, NEW old, NEW fields, q = Write(i, old, fields, NoField)
        PROVE  /\ row' = [row EXCEPT ![i] = Applied([saw |-> old, put |-> fields, inc |-> NoField], row[i])]
               /\ (old = None) = (row[i] = None)
               /\ todo' = [todo EXCEPT ![c] = Tail(@)]
               /\ raced' = raced \cup (Watched \cap {j \in {i} : old # row[i] /\ (old = Unseen => fields # NoField)})
    BY <1>2, <1>3, <1>4, CommitOne
  <1>5. CASE q \in Opening
    <2>1. PICK t \in Tx, s \in {"open", "captured"} : q = Insert(t, [state |-> s])
      BY <1>5 DEF Opening
    <2> DEFINE r == [state |-> s]
    <2>2. r \in TxRow /\ r # None
      BY NoPaymentAssumption DEF TxRow
    <2>3. t \in Id /\ q = Write(t, None, r, NoField)
      BY <2>1, PaymentsIdAssumption DEF Insert
    <2>4. row[t] = None
      BY <1>4, <2>3
    <2>5. Applied([saw |-> None, put |-> r, inc |-> NoField], row[t]) = r
      BY <2>2, <2>4 DEF Applied
    <2>6. row' = [row EXCEPT ![t] = r] /\ todo' = [todo EXCEPT ![c] = Tail(@)]
      BY <1>4, <2>3, <2>5
    <2>7. ~Collected(t) /\ ~Returned(t)
      BY <2>4 DEF Collected, Returned
    <2>8. StaysRaced
      BY <1>4, <2>3 DEF StaysRaced
    <2>9. QED
      BY <2>2, <2>6, <2>7, <2>8, TransactionStep
  <1>6. CASE q \in Making
    <2>1. PICK p \in Payment, r \in Fresh : q = Insert(p, r)
      BY <1>6 DEF Making
    <2>2. r \in PaymentRow /\ r # None /\ Justified(r) /\ r.status # "REFUNDED"
      BY NoPaymentAssumption DEF Fresh, Justified
    <2>3. p \in Id /\ q = Write(p, None, r, NoField)
      BY <2>1, PaymentsIdAssumption DEF Insert
    <2>4. row[p] = None
      BY <1>4, <2>3
    <2>5. Applied([saw |-> None, put |-> r, inc |-> NoField], row[p]) = r
      BY <2>2, <2>4 DEF Applied
    <2>6. row' = [row EXCEPT ![p] = r] /\ todo' = [todo EXCEPT ![c] = Tail(@)] /\ raced \subseteq raced'
      BY <1>4, <2>3, <2>5
    <2>7. QED
      BY <2>2, <2>4, <2>6, PaymentStep
  <1>7. CASE q \in Confirming
    <2>1. PICK v \in Confirmation :
            Paid(v.was) /\ q = PutAfter(v.payment, v.was, [status |-> "SUCCEEDED", tx |-> v.named])
      BY <1>7 DEF Confirming
    <2> DEFINE p == v.payment
               fields == [status |-> "SUCCEEDED", tx |-> v.named]
               r == Applied([saw |-> v.was, put |-> fields, inc |-> NoField], row[p])
    <2>2. p \in Payment /\ v.named \in Tx /\ Known(v) /\ row[p] # None
      BY DEF Confirmation, Known
    <2>3. p \in Id /\ q = Write(p, v.was, fields, NoField)
      BY <2>1, <2>2, PaymentsIdAssumption DEF PutAfter
    <2>4. row' = [row EXCEPT ![p] = r] /\ todo' = [todo EXCEPT ![c] = Tail(@)] /\ raced \subseteq raced'
      BY <1>4, <2>3
    <2>5. fields \in [status : PaymentStatus, tx : Tx]
      BY <2>2 DEF PaymentStatus
    <2>6. fields # None
      BY <2>5, NoPaymentAssumption
    <2>7. r \in PaymentRow /\ r.intent = row[p].intent /\ r.status = "SUCCEEDED"
      BY <2>2, <2>6, Amended DEF PaymentStatus
    <2>8. Justified(r)
      BY <2>1, <2>2, <2>7 DEF Justified, Paid, Known
    <2>9. QED
      BY <2>2, <2>4, <2>7, <2>8, PaymentStep
  <1>8. CASE q \in Refunded
    <2>1. PICK v \in Refunding :
            Returned(v.was.tx) /\ q = PutAfter(v.payment, v.was, [status |-> "REFUNDED"])
      BY <1>8 DEF Refunded
    <2> DEFINE p == v.payment
               fields == [status |-> "REFUNDED"]
               r == Applied([saw |-> v.was, put |-> fields, inc |-> NoField], row[p])
    <2>2. p \in Payment /\ Known(v) /\ row[p] # None /\ v.was.tx \in Tx
      BY DEF Refunding, Known, PaymentRow
    <2>3. p \in Id /\ q = Write(p, v.was, fields, NoField)
      BY <2>1, <2>2, PaymentsIdAssumption DEF PutAfter
    <2>4. /\ row' = [row EXCEPT ![p] = r] /\ todo' = [todo EXCEPT ![c] = Tail(@)]
          /\ raced' = raced \cup (Watched \cap {j \in {p} : v.was # row[p] /\ (v.was = Unseen => fields # NoField)})
      BY <1>4, <2>3
    <2>5. fields \in [status : PaymentStatus]
      BY DEF PaymentStatus
    <2>6. fields # None
      BY <2>5, NoPaymentAssumption
    <2>7. r \in PaymentRow /\ r.intent = row[p].intent /\ r.tx = row[p].tx
      BY <2>2, <2>6, Amended DEF PaymentStatus
    <2>8. Justified(r)
      BY <2>2, <2>7 DEF PaymentIInv, PaymentInv, Rows, Justified, Paid
    <2>9. ASSUME Payment \subseteq Watched, p \notin raced' PROVE Returned(r.tx)
      <3>1. v.was \in PaymentRow
        BY DEF Refunding
      <3>2. v.was # Unseen
        BY <3>1, NoPaymentAssumption
      <3>3. v.was = row[p]
        BY <2>2, <2>4, <2>9, <3>2
      <3>4. QED
        BY <2>1, <2>7, <3>3
    <2>10. QED
      BY <2>2, <2>4, <2>7, <2>8, <2>9, PaymentStep
  <1>9. CASE q \in Caching
    <2>0. \A x \in Caching : \E k \in Pair, from \in FetchExchangeRate : x = Overwrite(k, [rate |-> from])
      BY DEF Caching
    <2>1. PICK k \in Pair, from \in FetchExchangeRate : q = Overwrite(k, [rate |-> from])
      BY <1>9, <2>0
    <2> DEFINE fields == [rate |-> from]
               r == Applied([saw |-> Unseen, put |-> fields, inc |-> NoField], row[k])
    <2>2. k \in Id /\ q = Write(k, Unseen, fields, NoField)
      BY <2>1, PaymentsIdAssumption DEF Overwrite
    <2>3. row' = [row EXCEPT ![k] = r] /\ todo' = [todo EXCEPT ![c] = Tail(@)] /\ StaysRaced
      BY <1>4, <2>2 DEF StaysRaced
    <2>4. row[k] \in RateRow
      BY DEF PaymentIInv, PaymentRowsInv, PaymentsRows
    <2>5. fields \in RateRow
      BY DEF FetchExchangeRate, RateRow
    <2>6. fields # None /\ row[k] # None
      BY <2>4, <2>5, NoPaymentAssumption
    <2>7. r = [f \in DOMAIN row[k] |-> IF f \in DOMAIN fields THEN fields[f]
                                      ELSE IF f \in DOMAIN NoField THEN row[k][f] + NoField[f]
                                      ELSE row[k][f]]
      BY <2>6 DEF Applied
    <2>8. DOMAIN row[k] = {"rate"} /\ DOMAIN fields = {"rate"}
      BY <2>4 DEF RateRow
    <2>9. r = fields
      BY <2>7, <2>8
    <2>10. row' = [row EXCEPT ![k] = fields]
      BY <2>3, <2>9
    <2>11. QED
      BY <2>3, <2>5, <2>10, RateStep
  <1>10. CASE q \in Linking
    <2>1. PICK p \in Payment, old \in PaymentRow, s \in Session : q = Write(p, old, [session |-> s], NoField)
      <3>1. PICK v \in [payment : Payment, was : PaymentRow, session : Session] :
                   q = PutAfter(v.payment, v.was, [session |-> v.session])
        BY <1>10 DEF Linking
      <3>2. QED
        BY <3>1 DEF PutAfter
    <2> DEFINE fields == [session |-> s]
               r == Applied([saw |-> old, put |-> fields, inc |-> NoField], row[p])
    <2>2. /\ row' = [row EXCEPT ![p] = r] /\ todo' = [todo EXCEPT ![c] = Tail(@)] /\ raced \subseteq raced'
          /\ (old = None) = (row[p] = None)
      BY <1>4, <2>1, PaymentsIdAssumption
    <2>3. row[p] \in PaymentRow /\ row[p] # None
      BY <2>2, NoPaymentAssumption DEF PaymentIInv, PaymentRowsInv, PaymentsRows
    <2>4. fields # None
      BY BillingEditAssumption
    <2>5. r = [row[p] EXCEPT !.session = s]
      <3>1. DOMAIN fields = {"session"} /\ fields.session = s
        OBVIOUS
      <3> HIDE DEF fields
      <3>2. r = [f \in DOMAIN row[p] |-> IF f \in DOMAIN fields THEN fields[f] ELSE row[p][f]]
        BY <2>3, <2>4, AppliedIs
      <3>3. DOMAIN row[p] = {"status", "provider", "tx", "intent", "session"}
        BY <2>3 DEF PaymentRow
      <3>4. QED
        BY <3>1, <3>2, <3>3
    <2>6. /\ r \in PaymentRow /\ r.intent = row[p].intent /\ r.tx = row[p].tx
          /\ r.status = row[p].status
      BY <2>3, <2>5 DEF PaymentRow
    <2>7. Justified(r)
      BY <2>3, <2>6 DEF PaymentIInv, PaymentInv, Rows, Justified, Paid
    <2>8. Payment \subseteq Watched /\ p \notin raced' /\ r.status = "REFUNDED" => Returned(r.tx)
      BY <2>2, <2>3, <2>6 DEF PaymentIInv, RefundInv
    <2> HIDE DEF r
    <2>9. QED
      BY <2>2, <2>6, <2>7, <2>8, PaymentStep
  <1>11. CASE Elsewhere(q)
    <2>1. PICK i, old, fields :
            i \in Id \ (Payment \cup Tx \cup Pair \cup {Purse}) /\ q = Write(i, old, fields, NoField)
      BY <1>1, <1>11 DEF Elsewhere
    <2> DEFINE r == Applied([saw |-> old, put |-> fields, inc |-> NoField], row[i])
    <2>2. row' = [row EXCEPT ![i] = r] /\ todo' = [todo EXCEPT ![c] = Tail(@)] /\ raced \subseteq raced'
      BY <1>4, <2>1
    <2> HIDE DEF r
    <2>3. StaysRaced
      BY <2>2 DEF StaysRaced
    <2>4. QED
      BY <2>1, <2>2, <2>3, OtherStep
  <1>12. QED
    BY <1>1, <1>5, <1>6, <1>7, <1>8, <1>9, <1>10, <1>11

-------------------------------------------------------------------------------
(***************************************************************************)
(* Settlements, reconciliation and invoices.                               *)
(***************************************************************************)

\* A sequence of the elements of a finite set.
LEMMA SetToSeqIs ==
  ASSUME NEW S, IsFiniteSet(S)
  PROVE  SetToSeq(S) \in Seq(S)
  <1> DEFINE n == Cardinality(S)
  <1>1. n \in Nat /\ ExistsBijection(1..n, S)
    BY FS_CardinalityType
  <1>2. PICK f \in [1..n -> S] : IsInjective(f)
    BY <1>1 DEF ExistsBijection, Bijection, Injection, IsInjective
  <1>3. SetToSeq(S) \in [1..n -> S]
    BY <1>2 DEF SetToSeq
  <1>4. QED
    BY <1>1, <1>3

\* One query for each element of a sequence.
LEMMA SeqOfEach ==
  ASSUME NEW S, NEW s \in Seq(S), NEW R, NEW g, DOMAIN g = 1..Len(s), g = [k \in 1..Len(s) |-> g[k]],
         \A k \in 1..Len(s) : s[k] \in S => g[k] \in R
  PROVE  g \in Seq(R)
  <1>1. Len(s) \in Nat /\ \A k \in 1..Len(s) : s[k] \in S
    OBVIOUS
  <1>2. g \in [1..Len(s) -> R]
    BY <1>1
  <1>3. QED
    BY <1>1, <1>2

LEMMA TotalIsNat ==
  ASSUME NEW T \in SUBSET (Session \cup Cdr), IsFiniteSet(T)
  PROVE  Total(T) \in Nat
  <1>1. \A i \in T : Amount[i] \in Nat
    BY AmountAssumption
  <1>2. QED
    BY <1>1, SumIsNat DEF Total

\* The fees and the net amount miss the gross amount by a cent at most.
Sound(r) == r.gross <= r.fees + r.net + 1 /\ r.fees + r.net <= r.gross + 1

LEMMA SplitIsSound ==
  ASSUME NEW gross \in Nat
  PROVE  /\ Split(gross) \in [gross : Nat, fees : Nat, net : Nat]
         /\ Sound(Split(gross))
  <1>1. Percent(3, gross) \in Nat /\ Percent(97, gross) \in Nat
    BY DEF Percent
  <1>2. /\ gross <= Percent(3, gross) + Percent(97, gross) + 1
        /\ Percent(3, gross) + Percent(97, gross) <= gross + 1
    BY DEF Percent
  <1>3. QED
    BY <1>1, <1>2 DEF Split, Sound

LEMMA GrossIsNat ==
  ASSUME BillingRows(row), NEW gross \in Gross
  PROVE  gross \in Nat
  <1>1. Total(Session) \in Nat
    BY TotalIsNat, AmountAssumption
  <1>2. Total(Rows(Cdr)) \in Nat
    BY TotalIsNat, FS_Subset, AmountAssumption DEF Rows
  <1>3. \A fee \in Fee : CalculateCPOPayout(fee) \in Nat
    BY <1>1, AmountAssumption DEF CalculateCPOPayout
  <1>4. CalculateFleetBilling(Session) \in Nat /\ CalculateRoamingSettlement \in Nat
    BY <1>1, <1>2 DEF CalculateFleetBilling, CalculateRoamingSettlement
  <1>5. \A stars \in {22, 25} : CalculateDriverPayout(1, 5, stars) \in Nat
    BY DEF CalculateDriverPayout
  <1>6. QED
    BY <1>3, <1>4, <1>5 DEF Gross

\* What calls may still write, with what they read.
SettlementWrite(old, fields) ==
  \/ old = None /\ fields \in SettlementRow /\ Sound(fields)
  \/ old = Unseen /\ fields \in SettlementEdit
  \/ /\ old \in SettlementRow /\ old.status # "COMPLETED"
     /\ fields \in {None, [status |-> "DISPUTED"]}
  \/ /\ old \in SettlementRow /\ old.status \notin {"COMPLETED", "FAILED"}
     /\ fields = [status |-> "PROCESSING"]
  \/ /\ old \in SettlementRow /\ old.status = "PROCESSING"
     /\ fields = [status |-> "COMPLETED"]

InvoiceWrite(old, fields) ==
  \/ old = None /\ fields \in InvoiceRow /\ ~fields.paid
  \/ old = Unseen /\ fields \in InvoiceEdit
  \/ old \in InvoiceRow /\ fields \in {None, [status |-> "PAID", paid |-> TRUE]}
  \/ old \in InvoiceRow /\ old.status # "PAID" /\ fields = [status |-> "OVERDUE"]

BillingWrite(i, old, fields) ==
  /\ i \in Settlement => SettlementWrite(old, fields)
  /\ i \in Invoice => InvoiceWrite(old, fields)
  /\ i \in Cdr => old \in CdrRow /\ fields = [status |-> "ACKNOWLEDGED"]

BillingQuery(q) ==
  q.do = "write" =>
    \E i \in Id : \E old, fields : q = Write(i, old, fields, NoField) /\ BillingWrite(i, old, fields)

BillingTodo == \E Q : todo \in [Call -> Seq(Q)] /\ \A q \in Q : BillingQuery(q)

BillingQueries(queries) == \E Q : queries \in Seq(Q) /\ \A q \in Q : BillingQuery(q)

BillingInv ==
  /\ DOMAIN row = Id /\ BillingRows(row) /\ BillingTodo
  /\ \A i \in Settlement : row[i] # None => Sound(row[i])
  /\ \A i \in Invoice : i \in Watched /\ row[i] # None /\ i \notin raced /\ row[i].paid => row[i].status = "PAID"

\* What the methods of the three services decide on, or go on with.
OwnQuery(q) == BillingQuery(q) /\ (q \in Linking \/ Elsewhere(q))

OwnQueries(queries) == \E Q : queries \in Seq(Q) /\ \A q \in Q : OwnQuery(q)

BillingGo(c) == \E queries : OwnQueries(queries) /\ Does(c, queries)

LEMMA WriteIsOwn ==
  ASSUME NEW i \in Settlement \cup Invoice \cup Cdr, NEW old, NEW fields, BillingWrite(i, old, fields)
  PROVE  OwnQuery(Write(i, old, fields, NoField))
  <1>1. i \in Id \ (Payment \cup Tx \cup Pair \cup {Purse})
    BY BillingAssumption
  <1>2. Write(i, old, fields, NoField).do = "write"
    BY WriteParts
  <1>3. QED
    BY <1>1, <1>2 DEF OwnQuery, BillingQuery, Elsewhere

LEMMA ReadIsOwn ==
  ASSUME NEW name \in {"match", "cdrs"}, NEW i, name = "match" => i \in Session
  PROVE  OwnQuery(Then(name, i))
  <1>1. Then(name, i).do = name /\ Then(name, i).on = i
    BY ThenParts
  <1>2. QED
    BY <1>1 DEF OwnQuery, BillingQuery, Elsewhere

LEMMA LinkIsOwn ==
  ASSUME NEW p \in Payment, NEW old \in PaymentRow, NEW s \in Session
  PROVE  OwnQuery(Write(p, old, [session |-> s], NoField))
  <1>1. Write(p, old, [session |-> s], NoField) \in Linking
    <2> DEFINE v == [payment |-> p, was |-> old, session |-> s]
    <2>1. v \in [payment : Payment, was : PaymentRow, session : Session]
      OBVIOUS
    <2>2. v.payment = p /\ v.was = old /\ v.session = s
      OBVIOUS
    <2> HIDE DEF v
    <2>3. PutAfter(v.payment, v.was, [session |-> v.session]) = Write(p, old, [session |-> s], NoField)
      BY <2>2 DEF PutAfter
    <2>4. QED
      BY <2>1, <2>3 DEF Linking
  <1>2. p \in Id /\ BillingWrite(p, old, [session |-> s])
    BY BillingAssumption, PaymentsIdAssumption DEF BillingWrite
  <1>3. QED
    BY <1>1, <1>2 DEF OwnQuery, BillingQuery

LEMMA QueriesOfOne ==
  ASSUME NEW q, OwnQuery(q)
  PROVE  OwnQueries(<<q>>)
  <1> DEFINE Q == {q}
  <1>1. <<q>> \in Seq(Q) /\ \A x \in Q : OwnQuery(x)
    BY SeqOfOne
  <1> HIDE DEF Q
  <1>2. QED
    BY <1>1 DEF OwnQueries

LEMMA QueriesOfNone == OwnQueries(<<>>)
  <1> DEFINE Q == {}
  <1>1. <<>> \in Seq(Q) /\ \A q \in Q : OwnQuery(q)
    BY EmptySeq
  <1> HIDE DEF Q
  <1>2. QED
    BY <1>1 DEF OwnQueries

LEMMA QueriesOfTwo ==
  ASSUME NEW q, OwnQuery(q), NEW p, OwnQuery(p)
  PROVE  OwnQueries(<<q, p>>)
  <1> DEFINE Q == {q, p}
  <1>1. <<q, p>> \in Seq(Q) /\ \A x \in Q : OwnQuery(x)
    BY SeqOfTwo
  <1> HIDE DEF Q
  <1>2. QED
    BY <1>1 DEF OwnQueries

LEMMA OwnQueriesJoin ==
  ASSUME NEW first, OwnQueries(first), NEW then, OwnQueries(then)
  PROVE  OwnQueries(first \o then)
  <1>1. PICK Q : first \in Seq(Q) /\ \A q \in Q : OwnQuery(q)
    BY DEF OwnQueries
  <1>2. PICK R : then \in Seq(R) /\ \A q \in R : OwnQuery(q)
    BY DEF OwnQueries
  <1> DEFINE S == Q \cup R
  <1>3. first \in Seq(S) /\ then \in Seq(S) /\ \A q \in S : OwnQuery(q)
    BY <1>1, <1>2
  <1> HIDE DEF S
  <1>4. first \o then \in Seq(S)
    BY <1>3
  <1>5. QED
    BY <1>3, <1>4 DEF OwnQueries

\* They are queries of billing, and none of the payments' but links.
LEMMA OwnAreQueries ==
  ASSUME NEW queries, OwnQueries(queries)
  PROVE  BillingQueries(queries) /\ Queue(PaymentQueries, queries)
  <1>1. PICK Q : queries \in Seq(Q) /\ \A q \in Q : OwnQuery(q)
    BY DEF OwnQueries
  <1>2. BillingQueries(queries)
    BY <1>1 DEF BillingQueries, OwnQuery
  <1> DEFINE R == {q \in Q : Elsewhere(q)}
  <1>3. Q \subseteq PaymentQueries \cup R /\ \A q \in R : Elsewhere(q)
    BY <1>1 DEF OwnQuery, PaymentQueries
  <1> HIDE DEF R
  <1>4. queries \in Seq(PaymentQueries \cup R)
    BY <1>1, <1>3, SeqMonotonic
  <1>5. QED
    BY <1>2, <1>3, <1>4 DEF Queue

\* Nor do the queries of the payments write to records of billing.
LEMMA PaymentQueryIs ==
  ASSUME NEW q \in PaymentQueries
  PROVE  BillingQuery(q)
  <1>1. ASSUME NEW i \in Payment \cup Tx \cup Pair \cup {Purse}, NEW old, NEW fields
        PROVE  BillingQuery(Write(i, old, fields, NoField))
    BY PaymentsIdAssumption, BillingAssumption DEF BillingQuery, BillingWrite
  <1>2. ASSUME NEW name, NEW x, name # "write" PROVE BillingQuery(Then(name, x))
    BY <1>2, ThenParts DEF BillingQuery
  <1>3. q \in Opening \cup Making => BillingQuery(q)
    BY <1>1 DEF Opening, Making, Insert
  <1>4. q \in Confirming => BillingQuery(q)
    BY <1>1 DEF Confirming, PutAfter, Confirmation
  <1>5. q \in Refunded => BillingQuery(q)
    BY <1>1 DEF Refunded, PutAfter, Refunding
  <1>6. ASSUME q \in Caching PROVE BillingQuery(q)
    <2>1. PICK k \in Pair, from \in FetchExchangeRate : q = Overwrite(k, [rate |-> from])
      BY <1>6 DEF Caching
    <2>2. QED
      BY <2>1, <1>1 DEF Overwrite
  <1>7. q \in Linking => BillingQuery(q)
    BY <1>1 DEF Linking, PutAfter
  <1>8. q \in Verifying \cup Crediting \cup AskingBack => BillingQuery(q)
    BY <1>2 DEF Verifying, Crediting, AskingBack
  <1>9. QED
    BY <1>3, <1>4, <1>5, <1>6, <1>7, <1>8 DEF PaymentQueries

LEMMA PaymentQueriesAre ==
  ASSUME NEW queries \in Seq(PaymentQueries)
  PROVE  BillingQueries(queries)
  BY PaymentQueryIs DEF BillingQueries

LEMMA NothingIsQuery == BillingQueries(<<>>)
  BY EmptySeq, PaymentQueriesAre

LEMMA QueriesJoin ==
  ASSUME NEW first, BillingQueries(first), NEW then, BillingQueries(then)
  PROVE  BillingQueries(first \o then)
  <1>1. PICK Q : first \in Seq(Q) /\ \A q \in Q : BillingQuery(q)
    BY DEF BillingQueries
  <1>2. PICK R : then \in Seq(R) /\ \A q \in R : BillingQuery(q)
    BY DEF BillingQueries
  <1> DEFINE S == Q \cup R
  <1>3. first \in Seq(S) /\ then \in Seq(S) /\ \A q \in S : BillingQuery(q)
    BY <1>1, <1>2
  <1> HIDE DEF S
  <1>4. first \o then \in Seq(S)
    BY <1>3
  <1>5. QED
    BY <1>3, <1>4 DEF BillingQueries

\* What is left of the queries of a call.
LEMMA QueriesOf ==
  ASSUME BillingTodo, NEW c \in Call
  PROVE  /\ BillingQueries(todo[c])
         /\ ~Free(c) => BillingQuery(Head(todo[c])) /\ BillingQueries(Tail(todo[c]))
  <1>1. PICK Q : todo \in [Call -> Seq(Q)] /\ \A q \in Q : BillingQuery(q)
    BY DEF BillingTodo
  <1>2. todo[c] \in Seq(Q)
    BY <1>1
  <1>3. ~Free(c) => Head(todo[c]) \in Q /\ Tail(todo[c]) \in Seq(Q)
    BY <1>1, NextQuery
  <1>4. QED
    BY <1>1, <1>2, <1>3 DEF BillingQueries

LEMMA BillingTodoOf ==
  ASSUME BillingTodo, NEW c \in Call, NEW queries, BillingQueries(queries),
         todo' = [todo EXCEPT ![c] = queries]
  PROVE  BillingTodo'
  <1>1. PICK Q : todo \in [Call -> Seq(Q)] /\ \A q \in Q : BillingQuery(q)
    BY DEF BillingTodo
  <1>2. PICK R : queries \in Seq(R) /\ \A q \in R : BillingQuery(q)
    BY DEF BillingQueries
  <1> DEFINE S == Q \cup R
  <1>3. queries \in Seq(S) /\ Q \subseteq S /\ \A q \in S : BillingQuery(q)
    BY <1>1, <1>2
  <1> HIDE DEF S
  <1>4. todo' \in [Call -> Seq(S)]
    BY <1>1, <1>3, TodoOf
  <1>5. QED
    BY <1>3, <1>4 DEF BillingTodo

LEMMA BillingTodoOver ==
  ASSUME todo' = [c \in Call |-> <<>>]
  PROVE  BillingTodo'
  <1>1. todo' \in [Call -> Seq({})]
    BY TodoIsOver
  <1>2. QED
    BY <1>1 DEF BillingTodo

\* The lifecycle of settlements, without its functions.
Phase(r) == IF r = None THEN "absent" ELSE r.status

SettlementGoes(i) ==
  \/ <<Phase(row[i]), Phase(row'[i])>> \in SettlementMove /\ i \notin raced \cup raced'
  \/ i \in raced'
  \/ row[i] = None /\ row'[i] = None /\ i \notin raced'
  \/ Phase(row'[i]) = Phase(row[i]) /\ i \notin raced \cup raced'

BillingGoes == BillingInv' /\ \A i \in Settlement : i \in Watched => SettlementGoes(i)

\* The rows stay, and the history of those that are there.
LEMMA RowsRest ==
  ASSUME BillingInv, row' = row, BillingTodo',
         \A i \in Settlement \cup Invoice : row[i] # None => (i \in raced' <=> i \in raced)
  PROVE  BillingGoes
  <1>1. BillingInv'
    BY DEF BillingInv, BillingRows
  <1>2. ASSUME NEW i \in Settlement PROVE SettlementGoes(i)
    BY <1>2 DEF SettlementGoes
  <1>3. QED
    BY <1>1, <1>2 DEF BillingGoes

LEMMA BillingDecides ==
  ASSUME BillingInv, NEW c \in Call, NEW queries, BillingQueries(queries), Decide(c, queries)
  PROVE  BillingGoes
  <1>1. /\ row' = row /\ todo' = [todo EXCEPT ![c] = queries]
        /\ \A i : row[i] # None => (i \in raced' <=> i \in raced)
    BY DEF Decide, Afresh
  <1>2. BillingTodo'
    BY <1>1, BillingTodoOf DEF BillingInv
  <1>3. QED
    BY <1>1, <1>2, RowsRest

LEMMA BillingContinues ==
  ASSUME BillingInv, NEW c \in Call, NEW name, NEW queries, BillingQueries(queries),
         Continue(c, name, queries)
  PROVE  BillingGoes
  <1>1. /\ row' = row /\ todo' = [todo EXCEPT ![c] = queries \o Tail(@)] /\ ~Free(c)
        /\ \A i : row[i] # None => (i \in raced' <=> i \in raced)
    BY DEF Continue, Afresh, At
  <1>2. todo' = [todo EXCEPT ![c] = queries \o Tail(todo[c])]
    <2>1. PICK Q : todo \in [Call -> Seq(Q)]
      BY DEF BillingInv, BillingTodo
    <2>2. QED
      BY <1>1, <2>1
  <1>3. BillingQueries(Tail(todo[c]))
    BY <1>1, QueriesOf DEF BillingInv
  <1>4. BillingTodo'
    BY <1>2, <1>3, QueriesJoin, BillingTodoOf DEF BillingInv
  <1>5. QED
    BY <1>1, <1>4, RowsRest

LEMMA BillingDoes ==
  ASSUME BillingInv, NEW c \in Call, NEW queries, BillingQueries(queries), Does(c, queries)
  PROVE  BillingGoes
  BY BillingDecides, BillingContinues DEF Does

\* A step that changes a record of a payment.
LEMMA BillingRests ==
  ASSUME BillingInv, BillingTodo', NEW i \in Payment \cup Tx \cup Pair \cup {Purse}, NEW r,
         row' = [row EXCEPT ![i] = r], \A j : row[j] # None => (j \in raced' <=> j \in raced)
  PROVE  BillingGoes
  <1>1. \A j \in Settlement \cup Invoice \cup Cdr : row'[j] = row[j]
    BY BillingAssumption DEF BillingInv
  <1>2. BillingInv'
    BY <1>1 DEF BillingInv, BillingRows
  <1>3. \A j \in Settlement : SettlementGoes(j)
    BY <1>1 DEF SettlementGoes
  <1>4. QED
    BY <1>2, <1>3 DEF BillingGoes

LEMMA DecidesOne ==
  ASSUME NEW c \in Call, NEW i \in Settlement \cup Invoice \cup Cdr, NEW old, NEW fields,
         BillingWrite(i, old, fields), Decide(c, <<Write(i, old, fields, NoField)>>)
  PROVE  BillingGo(c)
  <1>1. OwnQueries(<<Write(i, old, fields, NoField)>>)
    BY WriteIsOwn, QueriesOfOne
  <1>2. QED
    BY <1>1 DEF BillingGo, Does

\* A settlement that a call finds.
LEMMA FoundSettlement ==
  ASSUME BillingInv, NEW i \in Rows(Settlement)
  PROVE  /\ i \in Settlement /\ i \in Id /\ i \notin Invoice \cup Cdr
         /\ row[i] \in SettlementRow /\ Status(i) = row[i].status
  BY BillingAssumption DEF BillingInv, BillingRows, Rows, Status

LEMMA SettlementWriteIs ==
  ASSUME NEW i \in Settlement, NEW old, NEW fields, SettlementWrite(old, fields)
  PROVE  i \in Id /\ BillingWrite(i, old, fields)
  BY BillingAssumption DEF BillingWrite

LEMMA NewSettlementIs ==
  ASSUME NEW status \in SettlementStatus, NEW gross \in Nat
  PROVE  SettlementWrite(None, NewSettlement(status, Split(gross)))
  <1> DEFINE r == NewSettlement(status, Split(gross))
             s == Split(gross)
  <1>1. s \in [gross : Nat, fees : Nat, net : Nat] /\ Sound(s)
    BY SplitIsSound
  <1> HIDE DEF s
  <1>3. r = [status |-> status, gross |-> s.gross, fees |-> s.fees, net |-> s.net]
    BY <1>1 DEF NewSettlement, s
  <1>4. r \in SettlementRow
    BY <1>1, <1>3 DEF SettlementRow
  <1>5. Sound(r)
    BY <1>1, <1>3 DEF Sound
  <1>6. QED
    BY <1>4, <1>5 DEF SettlementWrite

LEMMA SettlementsStep ==
  ASSUME BillingInv, NEW c \in Call, SettlementsNext(c)
  PROVE  BillingGo(c)
  <1>1. CASE CreateSettlement(c)
    <2>1. PICK i \in Unused(Settlement), input \in SettlementInput : Decide(c, <<Insert(i, input)>>)
      BY <1>1 DEF CreateSettlement
    <2>2. PICK status \in SettlementStatus : input = NewSettlement(status, Split(0))
      BY DEF SettlementInput, Typed
    <2>3. i \in Settlement /\ SettlementWrite(None, input)
      BY <2>2, NewSettlementIs DEF Unused
    <2>4. QED
      BY <2>1, <2>3, SettlementWriteIs, DecidesOne DEF Insert
  <1>2. CASE GenerateSettlement(c)
    <2>1. PICK i \in Unused(Settlement), gross \in Gross :
            Decide(c, <<Insert(i, NewSettlement("PENDING", Split(gross)))>>)
      BY <1>2 DEF GenerateSettlement
    <2>2. gross \in Nat
      BY GrossIsNat DEF BillingInv
    <2>3. i \in Settlement /\ SettlementWrite(None, NewSettlement("PENDING", Split(gross)))
      BY <2>2, NewSettlementIs DEF Unused, SettlementStatus
    <2>4. QED
      BY <2>1, <2>3, SettlementWriteIs, DecidesOne DEF Insert
  <1>3. CASE UpdateSettlement(c)
    <2>1. PICK i \in Rows(Settlement), edit \in SettlementEdit : Decide(c, <<Overwrite(i, edit)>>)
      BY <1>3 DEF UpdateSettlement
    <2>2. SettlementWrite(Unseen, edit)
      BY DEF SettlementWrite
    <2>3. QED
      BY <2>1, <2>2, FoundSettlement, SettlementWriteIs, DecidesOne DEF Overwrite
  <1>4. CASE DeleteSettlement(c)
    <2>1. PICK i \in Rows(Settlement) : Status(i) # "COMPLETED" /\ Decide(c, <<Delete(i)>>)
      BY <1>4 DEF DeleteSettlement
    <2>2. SettlementWrite(row[i], None)
      BY <2>1, FoundSettlement DEF SettlementWrite
    <2>3. QED
      BY <2>1, <2>2, FoundSettlement, SettlementWriteIs, DecidesOne DEF Delete, Put
  <1>5. CASE ProcessSettlement(c)
    <2>1. PICK i \in Rows(Settlement) :
            /\ MayProcess(i)
            /\ Decide(c, <<Put(i, [status |-> "PROCESSING"]),
                           PutAfter(i, [row[i] EXCEPT !.status = "PROCESSING"],
                                    [status |-> "COMPLETED"])>>)
      BY <1>5 DEF ProcessSettlement
    <2> DEFINE between == [row[i] EXCEPT !.status = "PROCESSING"]
    <2>2. between \in SettlementRow /\ between.status = "PROCESSING"
      BY FoundSettlement DEF SettlementRow, SettlementStatus
    <2>3. SettlementWrite(row[i], [status |-> "PROCESSING"])
      BY <2>1, FoundSettlement DEF SettlementWrite, MayProcess
    <2>4. SettlementWrite(between, [status |-> "COMPLETED"])
      BY <2>2 DEF SettlementWrite
    <2>5. OwnQuery(Put(i, [status |-> "PROCESSING"]))
      BY <2>3, FoundSettlement, SettlementWriteIs, WriteIsOwn DEF Put
    <2>6. OwnQuery(PutAfter(i, between, [status |-> "COMPLETED"]))
      BY <2>4, FoundSettlement, SettlementWriteIs, WriteIsOwn DEF PutAfter
    <2>7. QED
      BY <2>1, <2>5, <2>6, QueriesOfTwo DEF BillingGo, Does
  <1>6. CASE DisputeSettlement(c)
    <2>1. PICK i \in Rows(Settlement) :
            Status(i) # "COMPLETED" /\ Decide(c, <<Put(i, [status |-> "DISPUTED"])>>)
      BY <1>6 DEF DisputeSettlement
    <2>2. SettlementWrite(row[i], [status |-> "DISPUTED"])
      BY <2>1, FoundSettlement DEF SettlementWrite
    <2>3. QED
      BY <2>1, <2>2, FoundSettlement, SettlementWriteIs, DecidesOne DEF Put
  <1>7. QED
    BY <1>1, <1>2, <1>3, <1>4, <1>5, <1>6 DEF SettlementsNext

LEMMA InvoiceWriteIs ==
  ASSUME NEW i \in Invoice, NEW old, NEW fields, InvoiceWrite(old, fields)
  PROVE  i \in Id /\ BillingWrite(i, old, fields)
  BY BillingAssumption DEF BillingWrite

LEMMA FoundInvoice ==
  ASSUME BillingInv, NEW i \in Rows(Invoice)
  PROVE  i \in Invoice /\ row[i] \in InvoiceRow /\ Status(i) = row[i].status
  BY DEF BillingInv, BillingRows, Rows, Status

LEMMA NewInvoiceIs ==
  ASSUME NEW status \in InvoiceStatus, NEW amount \in Nat
  PROVE  InvoiceWrite(None, NewInvoice(status, amount))
  BY DEF InvoiceWrite, NewInvoice, InvoiceRow

LEMMA InvoicesStep ==
  ASSUME BillingInv, NEW c \in Call, InvoicesNext(c)
  PROVE  BillingGo(c)
  <1>1. CASE CreateInvoice(c)
    <2>1. PICK i \in Unused(Invoice), input \in InvoiceInput : Decide(c, <<Insert(i, input)>>)
      BY <1>1 DEF CreateInvoice
    <2>2. i \in Invoice /\ InvoiceWrite(None, input)
      BY NewInvoiceIs DEF InvoiceInput, Unused
    <2>3. QED
      BY <2>1, <2>2, InvoiceWriteIs, DecidesOne DEF Insert
  <1>2. CASE GenerateInvoice(c)
    <2>1. PICK i \in Unused(Invoice), scope \in InvoiceScope :
            Decide(c, <<Insert(i, NewInvoice("PENDING", Total(scope.sessions) + scope.subscriptions))>>)
      BY <1>2 DEF GenerateInvoice
    <2> DEFINE amount == Total(scope.sessions) + scope.subscriptions
    <2>2. amount \in Nat
      <3>1. Total(Session) \in Nat /\ Total({}) \in Nat
        BY TotalIsNat, FS_EmptySet, AmountAssumption
      <3>2. scope.sessions \in {Session, {}} /\ scope.subscriptions \in Nat
        <4>1. scope.sessions \in {Session, {}} /\ scope.subscriptions \in Fee \cup {0}
          BY DEF InvoiceScope
        <4>2. Fee \subseteq Nat /\ 0 \in Nat
          BY AmountAssumption
        <4>3. QED
          BY <4>1, <4>2
      <3>3. Total(scope.sessions) \in Nat
        BY <3>1, <3>2
      <3>4. QED
        BY <3>2, <3>3
    <2>3. i \in Invoice /\ InvoiceWrite(None, NewInvoice("PENDING", amount))
      <3> HIDE DEF amount
      <3>1. QED
        BY <2>2, NewInvoiceIs DEF Unused, InvoiceStatus
    <2>4. QED
      BY <2>1, <2>3, InvoiceWriteIs, DecidesOne DEF Insert
  <1>3. CASE UpdateInvoice(c)
    <2>1. PICK i \in Rows(Invoice), edit \in InvoiceEdit : Decide(c, <<Overwrite(i, edit)>>)
      BY <1>3 DEF UpdateInvoice
    <2>2. InvoiceWrite(Unseen, edit)
      BY DEF InvoiceWrite
    <2>3. QED
      BY <2>1, <2>2, FoundInvoice, InvoiceWriteIs, DecidesOne DEF Overwrite
  <1>4. CASE DeleteInvoice(c)
    <2>1. PICK i \in Rows(Invoice) : Decide(c, <<Delete(i)>>)
      BY <1>4 DEF DeleteInvoice
    <2>2. InvoiceWrite(row[i], None)
      BY FoundInvoice DEF InvoiceWrite
    <2>3. QED
      BY <2>1, <2>2, FoundInvoice, InvoiceWriteIs, DecidesOne DEF Delete, Put
  <1>5. CASE MarkAsPaid(c)
    <2>1. PICK i \in Rows(Invoice) : Decide(c, <<Put(i, [status |-> "PAID", paid |-> TRUE])>>)
      BY <1>5 DEF MarkAsPaid
    <2>2. InvoiceWrite(row[i], [status |-> "PAID", paid |-> TRUE])
      BY FoundInvoice DEF InvoiceWrite
    <2>3. QED
      BY <2>1, <2>2, FoundInvoice, InvoiceWriteIs, DecidesOne DEF Put
  <1>6. CASE MarkAsOverdue(c)
    <2>1. PICK i \in Rows(Invoice) :
            Status(i) # "PAID" /\ Decide(c, <<Put(i, [status |-> "OVERDUE"])>>)
      BY <1>6 DEF MarkAsOverdue, MayBeOverdue
    <2>2. InvoiceWrite(row[i], [status |-> "OVERDUE"])
      BY <2>1, FoundInvoice DEF InvoiceWrite
    <2>3. QED
      BY <2>1, <2>2, FoundInvoice, InvoiceWriteIs, DecidesOne DEF Put
  <1>7. CASE CheckOverdueInvoices(c)
    <2>1. PICK late \in SUBSET {i \in Rows(Invoice) : Status(i) = "PENDING"} :
            LET s == SetToSeq(late)
            IN Decide(c, [k \in 1..Len(s) |-> Put(s[k], [status |-> "OVERDUE"])])
      BY <1>7 DEF CheckOverdueInvoices
    <2> DEFINE s == SetToSeq(late)
               queries == [k \in 1..Len(s) |-> Put(s[k], [status |-> "OVERDUE"])]
               Q == {Put(i, [status |-> "OVERDUE"]) : i \in late}
    <2>2. s \in Seq(late)
      <3>1. late \subseteq Invoice
        BY DEF Rows
      <3>2. QED
        BY <3>1, SetToSeqIs, FS_Subset, BillingAssumption
    <2>3. queries \in Seq(Q)
      <3> HIDE DEF s
      <3>1. \A k \in 1..Len(s) : s[k] \in late => queries[k] \in Q
        OBVIOUS
      <3>2. DOMAIN queries = 1..Len(s) /\ queries = [k \in 1..Len(s) |-> queries[k]]
        OBVIOUS
      <3> HIDE DEF queries, Q
      <3>3. QED
        BY <2>2, <3>1, <3>2, SeqOfEach
    <2>4. ASSUME NEW i \in late PROVE OwnQuery(Put(i, [status |-> "OVERDUE"]))
      <3>1. i \in Rows(Invoice) /\ Status(i) = "PENDING"
        OBVIOUS
      <3>2. InvoiceWrite(row[i], [status |-> "OVERDUE"])
        BY <3>1, FoundInvoice DEF InvoiceWrite
      <3>3. QED
        BY <3>1, <3>2, FoundInvoice, InvoiceWriteIs, WriteIsOwn DEF Put
    <2>5. OwnQueries(queries)
      <3>1. \A q \in Q : OwnQuery(q)
        BY <2>4
      <3> HIDE DEF queries, Q
      <3>2. QED
        BY <2>3, <3>1 DEF OwnQueries
    <2>6. Decide(c, queries)
      BY <2>1
    <2>7. QED
      <3> HIDE DEF queries
      <3>1. QED
        BY <2>5, <2>6 DEF BillingGo, Does
  <1>8. QED
    BY <1>1, <1>2, <1>3, <1>4, <1>5, <1>6, <1>7 DEF InvoicesNext

LEMMA ReconciliationStep ==
  ASSUME PaymentIInv, BillingInv, NEW c \in Call, ReconciliationNext(c)
  PROVE  BillingGo(c)
  <1>1. CASE AutoReconcile(c)
    <2> DEFINE unpaid == SetToSeq({x \in Session : LinkedTo(x) = {}})
               matches == [k \in 1..Len(unpaid) |-> Then("match", unpaid[k])]
               Q == {Then("match", x) : x \in Session}
    <2>1. unpaid \in Seq(Session)
      <3> DEFINE S == {x \in Session : LinkedTo(x) = {}}
      <3>1. S \in SUBSET Session
        OBVIOUS
      <3> HIDE DEF S
      <3>2. SetToSeq(S) \in Seq(S)
        BY <3>1, SetToSeqIs, FS_Subset, AmountAssumption
      <3>3. SetToSeq(S) \in Seq(Session)
        BY <3>1, <3>2
      <3>4. QED
        BY <3>3 DEF S
    <2>2. matches \in Seq(Q)
      <3> HIDE DEF unpaid
      <3>1. \A k \in 1..Len(unpaid) : unpaid[k] \in Session => matches[k] \in Q
        OBVIOUS
      <3>2. DOMAIN matches = 1..Len(unpaid) /\ matches = [k \in 1..Len(unpaid) |-> matches[k]]
        OBVIOUS
      <3> HIDE DEF matches, Q
      <3>3. QED
        BY <2>1, <3>1, <3>2, SeqOfEach
    <2>3. OwnQueries(matches)
      <3>1. \A q \in Q : OwnQuery(q)
        BY ReadIsOwn
      <3> HIDE DEF matches, Q
      <3>2. QED
        BY <2>2, <3>1 DEF OwnQueries
    <2>4. OwnQueries(<<Then("cdrs", None)>>)
      BY ReadIsOwn, QueriesOfOne
    <2>5. Decide(c, matches \o <<Then("cdrs", None)>>)
      BY <1>1 DEF AutoReconcile
    <2> HIDE DEF matches
    <2>6. QED
      BY <2>3, <2>4, <2>5, OwnQueriesJoin DEF BillingGo, Does
  <1>2. CASE MatchSession(c)
    <2>1. PICK x : x = Subject(c)
      OBVIOUS
    <2>2. \/ Continue(c, "match", <<>>)
          \/ \E p \in Rows(Payment) : Continue(c, "match", <<Put(p, [session |-> x])>>)
      BY <1>2, <2>1 DEF MatchSession
    <2>3. CASE Continue(c, "match", <<>>)
      BY <2>3, QueriesOfNone DEF BillingGo, Does
    <2>4. CASE \E p \in Rows(Payment) : Continue(c, "match", <<Put(p, [session |-> x])>>)
      <3>1. PICK p \in Rows(Payment) : Continue(c, "match", <<Put(p, [session |-> x])>>)
        BY <2>4
      <3>2. x \in Session
        BY <1>2, <2>1, NextByName DEF MatchSession
      <3>3. p \in Payment /\ row[p] \in PaymentRow
        BY DEF PaymentIInv, PaymentRowsInv, PaymentsRows, Rows
      <3>4. OwnQuery(Put(p, [session |-> x]))
        BY <3>2, <3>3, LinkIsOwn DEF Put
      <3>5. QED
        BY <3>1, <3>4, QueriesOfOne DEF BillingGo, Does
    <2>5. QED
      BY <2>2, <2>3, <2>4
  <1>3. CASE AcknowledgeCdrs(c)
    <2> DEFINE T == {i \in Rows(Cdr) : Status(i) = "SENT"}
               sent == SetToSeq(T)
               queries == [k \in 1..Len(sent) |-> Put(sent[k], [status |-> "ACKNOWLEDGED"])]
               Q == {Put(i, [status |-> "ACKNOWLEDGED"]) : i \in Cdr}
    <2>1. sent \in Seq(Cdr)
      <3>1. T \in SUBSET Cdr
        BY DEF Rows
      <3> HIDE DEF T
      <3>2. SetToSeq(T) \in Seq(T)
        BY <3>1, SetToSeqIs, FS_Subset, AmountAssumption
      <3>3. QED
        BY <3>1, <3>2
    <2>2. queries \in Seq(Q)
      <3> HIDE DEF sent
      <3>1. \A k \in 1..Len(sent) : sent[k] \in Cdr => queries[k] \in Q
        OBVIOUS
      <3>2. DOMAIN queries = 1..Len(sent) /\ queries = [k \in 1..Len(sent) |-> queries[k]]
        OBVIOUS
      <3> HIDE DEF queries, Q
      <3>3. QED
        BY <2>1, <3>1, <3>2, SeqOfEach
    <2>3. ASSUME NEW i \in Cdr PROVE OwnQuery(Put(i, [status |-> "ACKNOWLEDGED"]))
      <3>1. i \in Id /\ BillingWrite(i, row[i], [status |-> "ACKNOWLEDGED"])
        BY BillingAssumption DEF BillingWrite, BillingInv, BillingRows
      <3>2. QED
        BY <3>1, WriteIsOwn DEF Put
    <2>4. OwnQueries(queries)
      <3>1. \A q \in Q : OwnQuery(q)
        BY <2>3
      <3> HIDE DEF queries, Q
      <3>2. QED
        BY <2>2, <3>1 DEF OwnQueries
    <2>5. Continue(c, "cdrs", queries)
      BY <1>3 DEF AcknowledgeCdrs
    <2> HIDE DEF queries
    <2>6. QED
      BY <2>4, <2>5 DEF BillingGo, Does
  <1>4. QED
    BY <1>1, <1>2, <1>3 DEF ReconciliationNext

\* What a write makes of a settlement.
LEMMA EditedSettlement ==
  ASSUME NEW r \in SettlementRow, NEW fields, fields # None, NEW old,
         fields \in SettlementEdit \/ \E status \in SettlementStatus : fields = [status |-> status]
  PROVE  LET s == Applied([saw |-> old, put |-> fields, inc |-> NoField], r)
         IN /\ s \in SettlementRow /\ (Sound(r) => Sound(s))
            /\ s.status = IF "status" \in DOMAIN fields THEN fields.status ELSE r.status
            /\ fields = NoField => s = r
  <1> DEFINE s == Applied([saw |-> old, put |-> fields, inc |-> NoField], r)
  <1>1. DOMAIN r = {"status", "gross", "fees", "net"} /\ r # None
    BY BillingAssumption DEF SettlementRow
  <1>2. s = [f \in DOMAIN r |-> IF f \in DOMAIN fields THEN fields[f] ELSE r[f]]
    BY <1>1, AppliedIs
  <1>3. s = [status |-> s.status, gross |-> s.gross, fees |-> s.fees, net |-> s.net]
    BY <1>1, <1>2
  <1>4. /\ s.status = IF "status" \in DOMAIN fields THEN fields.status ELSE r.status
        /\ s.gross = IF "gross" \in DOMAIN fields THEN fields.gross ELSE r.gross
        /\ s.fees = IF "fees" \in DOMAIN fields THEN fields.fees ELSE r.fees
        /\ s.net = IF "net" \in DOMAIN fields THEN fields.net ELSE r.net
    BY <1>1, <1>2
  <1>5. /\ "status" \in DOMAIN fields => fields.status \in SettlementStatus
        /\ \/ {"gross", "fees", "net"} \cap DOMAIN fields = {}
           \/ /\ {"gross", "fees", "net"} \subseteq DOMAIN fields
              /\ fields.gross = Typed.gross /\ fields.fees = Typed.fees /\ fields.net = Typed.net
    <2>1. CASE \E status \in SettlementStatus : fields = [status |-> status]
      <3>1. PICK status \in SettlementStatus : fields = [status |-> status]
        BY <2>1
      <3>2. DOMAIN fields = {"status"} /\ fields.status = status
        BY <3>1
      <3>3. QED
        BY <3>2
    <2>2. CASE \E status \in SettlementStatus \cup {None} : fields = Given([status |-> status])
      <3>1. PICK status \in SettlementStatus \cup {None} : fields = Given([status |-> status])
        BY <2>2
      <3> DEFINE d == [status |-> status]
      <3>2. DOMAIN d = {"status"} /\ d.status = status
        OBVIOUS
      <3> HIDE DEF d
      <3>3. /\ DOMAIN fields = {g \in DOMAIN d : d[g] # None}
            /\ \A g \in DOMAIN fields : fields[g] = d[g] /\ d[g] # None
        BY <3>1, GivenIs DEF d
      <3>4. QED
        BY <3>2, <3>3
    <2>3. CASE \E status \in SettlementStatus \cup {None} : fields = Given(NewSettlement(status, Typed))
      <3>1. PICK status \in SettlementStatus \cup {None} : fields = Given(NewSettlement(status, Typed))
        BY <2>3
      <3> DEFINE d == NewSettlement(status, Typed)
      <3>2. /\ DOMAIN d = {"status", "gross", "fees", "net"}
            /\ d.status = status /\ d.gross = Typed.gross /\ d.fees = Typed.fees /\ d.net = Typed.net
        BY DEF NewSettlement
      <3> HIDE DEF d
      <3>3. /\ DOMAIN fields = {g \in DOMAIN d : d[g] # None}
            /\ \A g \in DOMAIN fields : fields[g] = d[g] /\ d[g] # None
        BY <3>1, GivenIs DEF d
      <3>4. Typed.gross # None /\ Typed.fees # None /\ Typed.net # None
        <4>1. Typed \in [gross : Nat, fees : Nat, net : Nat]
          BY SplitIsSound DEF Typed
        <4>2. None \notin Nat
          BY BillingAssumption
        <4>3. QED
          BY <4>1, <4>2
      <3>5. QED
        BY <3>2, <3>3, <3>4
    <2>4. QED
      BY <2>1, <2>2, <2>3 DEF SettlementEdit
  <1>6. Typed \in [gross : Nat, fees : Nat, net : Nat] /\ Sound(Typed)
    BY SplitIsSound DEF Typed
  <1>7. s.status \in SettlementStatus /\ s.gross \in Nat /\ s.fees \in Nat /\ s.net \in Nat
    BY <1>4, <1>5, <1>6 DEF SettlementRow
  <1>8. s \in SettlementRow
    BY <1>3, <1>7 DEF SettlementRow
  <1>9. Sound(r) => Sound(s)
    BY <1>4, <1>5, <1>6 DEF Sound
  <1>10. fields = NoField => s = r
    <2>1. SUFFICES ASSUME fields = NoField PROVE s = r
      OBVIOUS
    <2>2. DOMAIN fields = {}
      BY <2>1 DEF NoField
    <2>3. r = [f \in DOMAIN r |-> r[f]]
      BY DEF SettlementRow
    <2>4. QED
      BY <1>2, <2>2, <2>3
  <1>11. QED
    BY <1>4, <1>8, <1>9, <1>10

\* What a write makes of an invoice.
LEMMA EditedInvoice ==
  ASSUME NEW r \in InvoiceRow, NEW old, NEW fields,
         \/ fields \in InvoiceEdit
         \/ fields = [status |-> "PAID", paid |-> TRUE]
         \/ fields = [status |-> "OVERDUE"]
  PROVE  LET s == Applied([saw |-> old, put |-> fields, inc |-> NoField], r)
         IN /\ s \in InvoiceRow
            /\ s.status = IF "status" \in DOMAIN fields THEN fields.status ELSE r.status
            /\ s.paid = IF "paid" \in DOMAIN fields THEN fields.paid ELSE r.paid
            /\ fields = NoField => s = r
  <1> DEFINE s == Applied([saw |-> old, put |-> fields, inc |-> NoField], r)
  <1>1. DOMAIN r = {"status", "paid", "amount"} /\ r # None
    BY BillingAssumption DEF InvoiceRow
  <1>2. /\ fields # None /\ DOMAIN fields \subseteq {"status", "paid"}
        /\ "status" \in DOMAIN fields => fields.status \in InvoiceStatus
        /\ "paid" \in DOMAIN fields => fields.paid \in BOOLEAN
    <2>1. CASE fields \in InvoiceEdit
      <3>1. PICK status \in InvoiceStatus \cup {None}, paid \in {TRUE, None} :
              fields = Given([status |-> status, paid |-> paid])
        BY <2>1 DEF InvoiceEdit
      <3> DEFINE d == [status |-> status, paid |-> paid]
      <3>2. DOMAIN d = {"status", "paid"} /\ d.status = status /\ d.paid = paid
        OBVIOUS
      <3> HIDE DEF d
      <3>3. /\ DOMAIN fields = {g \in DOMAIN d : d[g] # None}
            /\ \A g \in DOMAIN fields : fields[g] = d[g] /\ d[g] # None
        BY <3>1, GivenIs DEF d
      <3>4. fields # None
        BY <2>1, BillingEditAssumption
      <3>5. QED
        BY <3>2, <3>3, <3>4
    <2>2. CASE fields = [status |-> "PAID", paid |-> TRUE]
      <3>1. fields # None
        BY <2>2, BillingEditAssumption
      <3>2. QED
        BY <2>2, <3>1 DEF InvoiceStatus
    <2>3. CASE fields = [status |-> "OVERDUE"]
      <3>1. fields # None
        BY <2>3, BillingEditAssumption DEF InvoiceStatus
      <3>2. QED
        BY <2>3, <3>1 DEF InvoiceStatus
    <2>4. QED
      BY <2>1, <2>2, <2>3
  <1>3. s = [f \in DOMAIN r |-> IF f \in DOMAIN fields THEN fields[f] ELSE r[f]]
    BY <1>1, <1>2, AppliedIs
  <1>4. s = [status |-> s.status, paid |-> s.paid, amount |-> s.amount]
    BY <1>1, <1>3
  <1>5. /\ s.status = IF "status" \in DOMAIN fields THEN fields.status ELSE r.status
        /\ s.paid = IF "paid" \in DOMAIN fields THEN fields.paid ELSE r.paid
        /\ s.amount = r.amount
    BY <1>1, <1>2, <1>3
  <1>6. s.status \in InvoiceStatus /\ s.amount \in Nat
    BY <1>2, <1>5 DEF InvoiceRow
  <1>7. s.paid \in BOOLEAN
    BY <1>2, <1>5 DEF InvoiceRow
  <1>8. s \in InvoiceRow
    BY <1>4, <1>6, <1>7 DEF InvoiceRow
  <1>9. fields = NoField => s = r
    <2>1. SUFFICES ASSUME fields = NoField PROVE s = r
      OBVIOUS
    <2>2. DOMAIN fields = {}
      BY <2>1 DEF NoField
    <2>3. r = [f \in DOMAIN r |-> r[f]]
      BY DEF InvoiceRow
    <2>4. QED
      BY <1>3, <2>2, <2>3
  <1>10. QED
    BY <1>5, <1>8, <1>9

\* The record i is written, as its table has it, and nothing else.
LEMMA OneRowWritten ==
  ASSUME BillingInv, BillingTodo', NEW i \in Id, NEW r,
         row' = [j \in Id |-> IF j = i THEN r ELSE row[j]],
         \A j \in Settlement \cup Invoice : j # i => (j \in raced' <=> j \in raced),
         i \in Settlement => /\ r \in SettlementRow \cup {None}
                             /\ r # None => Sound(r)
                             /\ i \in Watched \ raced' =>
                                  /\ i \notin raced
                                  /\ Phase(r) = Phase(row[i]) \/ <<Phase(row[i]), Phase(r)>> \in SettlementMove,
         i \in Invoice => /\ r \in InvoiceRow \cup {None}
                          /\ r # None /\ i \in Watched \ raced' /\ r.paid => r.status = "PAID",
         i \in Cdr => r \in CdrRow
  PROVE  BillingGoes
  <1>1. /\ Settlement \subseteq Id /\ Invoice \subseteq Id /\ Cdr \subseteq Id
        /\ DOMAIN row' = Id /\ row'[i] = r /\ \A j \in Id : j # i => row'[j] = row[j]
    BY BillingAssumption
  <1>2. BillingRows(row')
    BY <1>1 DEF BillingInv, BillingRows
  <1>3. ASSUME NEW j \in Settlement, row'[j] # None PROVE Sound(row'[j])
    BY <1>1, <1>3 DEF BillingInv
  <1>4. ASSUME NEW j \in Invoice, j \in Watched, row'[j] # None, j \notin raced', row'[j].paid
        PROVE  row'[j].status = "PAID"
    <2>1. CASE j = i
      BY <1>1, <1>4, <2>1
    <2>2. CASE j # i
      <3>1. j \notin raced /\ row'[j] = row[j]
        BY <1>1, <1>4, <2>2
      <3>2. QED
        BY <1>4, <3>1 DEF BillingInv
    <2>3. QED
      BY <2>1, <2>2
  <1>5. ASSUME NEW j \in Settlement, j \in Watched PROVE SettlementGoes(j)
    <2>1. CASE j = i
      BY <1>1, <1>5, <2>1 DEF SettlementGoes
    <2>2. CASE j # i
      BY <1>1, <2>2 DEF SettlementGoes
    <2>3. QED
      BY <2>1, <2>2
  <1>6. QED
    BY <1>1, <1>2, <1>3, <1>4, <1>5 DEF BillingInv, BillingGoes

LEMMA CommitSettlement ==
  ASSUME BillingInv, BillingTodo', NEW i \in Settlement, NEW old, NEW fields,
         SettlementWrite(old, fields),
         NEW s, s = Applied([saw |-> old, put |-> fields, inc |-> NoField], row[i]),
         (old = None) = (row[i] = None),
         row' = [j \in Id |-> IF j = i THEN s ELSE row[j]],
         raced' = raced \cup (Watched \cap {j \in {i} : old # row[i] /\ (old = Unseen => fields # NoField)})
  PROVE  BillingGoes
  <1> DEFINE r == row[i]
  <1>1. i \in Id /\ i \notin Invoice \cup Cdr /\ r \in SettlementRow \cup {None} /\ (r # None => Sound(r))
    BY BillingAssumption DEF BillingInv, BillingRows
  <1>2. \A j \in Settlement \cup Invoice : j # i => (j \in raced' <=> j \in raced)
    OBVIOUS
  <1>3. SUFFICES /\ s \in SettlementRow \cup {None}
                 /\ s # None => Sound(s)
                 /\ i \in Watched \ raced' => Phase(s) = Phase(r) \/ <<Phase(r), Phase(s)>> \in SettlementMove
    BY <1>1, <1>2, OneRowWritten
  <1>4. i \in Watched \ raced' => old = r \/ (old = Unseen /\ fields = NoField)
    OBVIOUS
  <1>5. None \notin SettlementRow /\ Unseen \notin SettlementRow /\ Unseen # None
    BY BillingAssumption, UnseenAssumption
  <1>6. CASE old = None
    <2>1. fields \in SettlementRow /\ Sound(fields)
      BY <1>5, <1>6 DEF SettlementWrite
    <2>2. r = None /\ fields # None
      BY <1>5, <1>6, <2>1
    <2>3. s = fields
      BY <2>2 DEF Applied
    <2>4. s.status \in SettlementStatus /\ Phase(s) = s.status /\ Phase(r) = "absent"
      BY <1>5, <2>1, <2>2, <2>3 DEF Phase, SettlementRow
    <2>5. QED
      BY <2>1, <2>3, <2>4 DEF SettlementMove
  <1>7. CASE old # None /\ fields = None
    <2>1. old \in SettlementRow /\ old.status # "COMPLETED"
      <3>1. fields \notin SettlementEdit
        BY <1>7, BillingEditAssumption
      <3>2. \A status : fields = [status |-> status] => status \notin SettlementStatus
        BY <1>7, BillingEditAssumption
      <3>3. QED
        BY <1>7, <3>1, <3>2 DEF SettlementWrite, SettlementStatus
    <2>2. s = None
      BY <1>7 DEF Applied
    <2>3. i \in Watched \ raced' => old = r
      BY <1>4, <1>5, <2>1
    <2>4. i \in Watched \ raced' => Phase(r) \in SettlementStatus \ {"COMPLETED"} /\ Phase(s) = "absent"
      BY <1>5, <2>1, <2>2, <2>3 DEF Phase, SettlementRow
    <2>5. QED
      BY <2>2, <2>4 DEF SettlementMove
  <1>8. CASE old # None /\ fields # None
    <2>1. r \in SettlementRow /\ Sound(r) /\ r # None
      BY <1>1, <1>8
    <2>2. \/ old = Unseen /\ fields \in SettlementEdit
          \/ /\ old \in SettlementRow
             /\ \/ old.status # "COMPLETED" /\ fields = [status |-> "DISPUTED"]
                \/ old.status \notin {"COMPLETED", "FAILED"} /\ fields = [status |-> "PROCESSING"]
                \/ old.status = "PROCESSING" /\ fields = [status |-> "COMPLETED"]
      BY <1>8 DEF SettlementWrite
    <2>3. \/ fields \in SettlementEdit
          \/ \E status \in SettlementStatus : fields = [status |-> status]
      BY <2>2 DEF SettlementStatus
    <2>4. /\ s \in SettlementRow /\ Sound(s)
          /\ s.status = IF "status" \in DOMAIN fields THEN fields.status ELSE r.status
          /\ fields = NoField => s = r
      BY <1>8, <2>1, <2>3, EditedSettlement
    <2>5. Phase(s) = s.status /\ Phase(r) = r.status /\ s.status \in SettlementStatus /\ r.status \in SettlementStatus
      BY <1>5, <2>1, <2>4 DEF Phase, SettlementRow
    <2>6. ASSUME i \in Watched \ raced'
          PROVE  Phase(s) = Phase(r) \/ <<Phase(r), Phase(s)>> \in SettlementMove
      <3>1. CASE old = Unseen
        BY <1>4, <1>5, <2>1, <2>4, <2>6, <3>1
      <3>2. CASE old # Unseen
        <4>1. old = r
          BY <1>4, <2>6, <3>2
        <4>2. ASSUME NEW status, fields = [status |-> status] PROVE s.status = status
          BY <2>4, <4>2
        <4>3. \/ r.status # "COMPLETED" /\ s.status = "DISPUTED"
              \/ r.status \notin {"COMPLETED", "FAILED"} /\ s.status = "PROCESSING"
              \/ r.status = "PROCESSING" /\ s.status = "COMPLETED"
          BY <2>2, <3>2, <4>1, <4>2
        <4>4. <<r.status, s.status>> \in SettlementMove
          BY <2>5, <4>3 DEF SettlementMove, SettlementStatus
        <4>5. QED
          BY <2>5, <4>4
      <3>3. QED
        BY <3>1, <3>2
    <2>7. QED
      BY <2>4, <2>6
  <1>9. QED
    BY <1>6, <1>7, <1>8

LEMMA CommitInvoice ==
  ASSUME BillingInv, BillingTodo', NEW i \in Invoice, NEW old, NEW fields,
         InvoiceWrite(old, fields),
         NEW s, s = Applied([saw |-> old, put |-> fields, inc |-> NoField], row[i]),
         (old = None) = (row[i] = None),
         row' = [j \in Id |-> IF j = i THEN s ELSE row[j]],
         raced' = raced \cup (Watched \cap {j \in {i} : old # row[i] /\ (old = Unseen => fields # NoField)})
  PROVE  BillingGoes
  <1> DEFINE r == row[i]
  <1>1. /\ i \in Id /\ i \notin Settlement \cup Cdr /\ r \in InvoiceRow \cup {None}
        /\ r # None /\ i \in Watched \ raced /\ r.paid => r.status = "PAID"
    BY BillingAssumption DEF BillingInv, BillingRows
  <1>2. \A j \in Settlement \cup Invoice : j # i => (j \in raced' <=> j \in raced)
    OBVIOUS
  <1>3. SUFFICES /\ s \in InvoiceRow \cup {None}
                 /\ s # None /\ i \in Watched \ raced' /\ s.paid => s.status = "PAID"
    <2>1. i \in Id /\ i \notin Settlement \cup Cdr
      BY <1>1
    <2>2. QED
      BY <2>1, <1>2, OneRowWritten
  <1>4. i \in Watched \ raced' => i \notin raced /\ (old = r \/ (old = Unseen /\ fields = NoField))
    OBVIOUS
  <1>5. None \notin InvoiceRow /\ Unseen \notin InvoiceRow /\ Unseen # None
    BY BillingAssumption, UnseenAssumption
  <1>6. CASE old = None
    <2>1. fields \in InvoiceRow /\ ~fields.paid
      BY <1>5, <1>6 DEF InvoiceWrite
    <2>2. r = None /\ fields # None
      BY <1>5, <1>6, <2>1
    <2>3. s = fields
      BY <2>2 DEF Applied
    <2>4. QED
      BY <2>1, <2>3
  <1>7. CASE old # None /\ fields = None
    BY <1>7 DEF Applied
  <1>8. CASE old # None /\ fields # None
    <2>1. r \in InvoiceRow /\ r # None
      BY <1>1, <1>8
    <2>2. \/ old = Unseen /\ fields \in InvoiceEdit
          \/ old \in InvoiceRow /\ fields = [status |-> "PAID", paid |-> TRUE]
          \/ old \in InvoiceRow /\ old.status # "PAID" /\ fields = [status |-> "OVERDUE"]
      BY <1>8 DEF InvoiceWrite
    <2>3. /\ s \in InvoiceRow
          /\ s.status = IF "status" \in DOMAIN fields THEN fields.status ELSE r.status
          /\ s.paid = IF "paid" \in DOMAIN fields THEN fields.paid ELSE r.paid
          /\ fields = NoField => s = r
      BY <2>1, <2>2, EditedInvoice
    <2>4. ASSUME i \in Watched \ raced', s.paid
          PROVE  s.status = "PAID"
      <3>1. CASE old = Unseen
        <4>1. s = r
          BY <1>4, <1>5, <2>1, <2>3, <2>4, <3>1
        <4>2. QED
          BY <1>1, <1>4, <2>1, <2>4, <4>1
      <3>2. CASE old # Unseen /\ fields = [status |-> "PAID", paid |-> TRUE]
        <4>1. DOMAIN fields = {"status", "paid"} /\ fields.status = "PAID"
          BY <3>2
        <4>2. QED
          BY <2>3, <4>1
      <3>3. CASE old # Unseen /\ old.status # "PAID" /\ fields = [status |-> "OVERDUE"]
        <4>1. old = r
          BY <1>4, <2>4, <3>3
        <4>2. DOMAIN fields = {"status"}
          BY <3>3
        <4>3. s.paid = r.paid
          BY <2>3, <4>2
        <4>4. QED
          BY <1>1, <1>4, <2>1, <2>4, <3>3, <4>1, <4>3
      <3>4. QED
        BY <2>2, <3>1, <3>2, <3>3
    <2>5. QED
      BY <2>3, <2>4
  <1>9. QED
    BY <1>6, <1>7, <1>8

LEMMA CommitCdr ==
  ASSUME BillingInv, BillingTodo', NEW i \in Cdr, NEW old \in CdrRow,
         NEW s, s = Applied([saw |-> old, put |-> [status |-> "ACKNOWLEDGED"], inc |-> NoField], row[i]),
         row' = [j \in Id |-> IF j = i THEN s ELSE row[j]],
         raced' = raced \cup (Watched \cap {j \in {i} : old # row[i]})
  PROVE  BillingGoes
  <1>1. /\ i \in Id /\ i \notin Settlement \cup Invoice /\ row[i] \in CdrRow /\ row[i] # None
    BY BillingAssumption DEF BillingInv, BillingRows
  <1>2. \A j \in Settlement \cup Invoice : j # i => (j \in raced' <=> j \in raced)
    OBVIOUS
  <1>3. s \in CdrRow
    <2> DEFINE fields == [status |-> "ACKNOWLEDGED"]
    <2>1. fields # None /\ DOMAIN row[i] = {"status"}
      BY <1>1, BillingEditAssumption DEF CdrStatus, CdrRow
    <2>2. /\ DOMAIN fields = {"status"} /\ fields.status = "ACKNOWLEDGED"
          /\ s = Applied([saw |-> old, put |-> fields, inc |-> NoField], row[i])
      OBVIOUS
    <2> HIDE DEF fields
    <2>3. s = [f \in DOMAIN row[i] |-> IF f \in DOMAIN fields THEN fields[f] ELSE row[i][f]]
      <3>1. PICK r : r = row[i]
        OBVIOUS
      <3>2. fields # None /\ r # None /\ s = Applied([saw |-> old, put |-> fields, inc |-> NoField], r)
        BY <1>1, <2>1, <2>2, <3>1
      <3>3. s = [f \in DOMAIN r |-> IF f \in DOMAIN fields THEN fields[f] ELSE r[f]]
        BY <3>2, AppliedIs
      <3>4. QED
        BY <3>1, <3>3
    <2>4. s = [status |-> "ACKNOWLEDGED"]
      BY <2>1, <2>2, <2>3
    <2>5. QED
      BY <2>4 DEF CdrRow, CdrStatus
  <1>4. QED
    BY <1>1, <1>2, <1>3, OneRowWritten

LEMMA BillingCommits ==
  ASSUME BillingInv, NEW c \in Call, Commit(c)
  PROVE  BillingGoes
  <1>1. PICK i, old, fields :
          /\ i \in Id /\ Head(todo[c]) = Write(i, old, fields, NoField)
          /\ BillingWrite(i, old, fields)
    <2>1. ~Free(c) /\ Head(todo[c]).do = "write"
      BY DEF Commit, At
    <2>2. BillingQuery(Head(todo[c]))
      BY <2>1, QueriesOf DEF BillingInv
    <2>3. QED
      BY <2>1, <2>2 DEF BillingQuery
  <1>2. PICK s : s = Applied([saw |-> old, put |-> fields, inc |-> NoField], row[i])
    OBVIOUS
  <1>3. \/ /\ row' = [j \in Id |-> IF j = i THEN s ELSE row[j]]
           /\ (old = None) = (row[i] = None)
           /\ todo' = [todo EXCEPT ![c] = Tail(@)]
           /\ raced' = raced \cup (Watched \cap {j \in {i} : old # row[i] /\ (old = Unseen => fields # NoField)})
        \/ row' = row /\ raced' = raced /\ todo' = [todo EXCEPT ![c] = <<>>]
    BY <1>1, <1>2, CommitOne
  <1>4. ASSUME NEW queries, BillingQueries(queries), todo' = [todo EXCEPT ![c] = queries]
        PROVE  BillingTodo'
    BY <1>4, BillingTodoOf DEF BillingInv
  <1>5. CASE row' = row /\ raced' = raced /\ todo' = [todo EXCEPT ![c] = <<>>]
    <2>1. BillingQueries(<<>>)
      BY NothingIsQuery
    <2>2. QED
      BY <1>4, <1>5, <2>1, RowsRest
  <1>6. CASE /\ row' = [j \in Id |-> IF j = i THEN s ELSE row[j]]
             /\ (old = None) = (row[i] = None)
             /\ todo' = [todo EXCEPT ![c] = Tail(@)]
             /\ raced' = raced \cup (Watched \cap {j \in {i} : old # row[i] /\ (old = Unseen => fields # NoField)})
    <2>1. BillingTodo'
      <3>1. BillingQueries(Tail(todo[c]))
        BY QueriesOf DEF BillingInv, Commit, At
      <3>2. todo' = [todo EXCEPT ![c] = Tail(todo[c])]
        BY <1>6
      <3>3. QED
        BY <1>4, <3>1, <3>2
    <2>2. CASE i \in Settlement
      BY <1>1, <1>2, <1>6, <2>1, <2>2, CommitSettlement DEF BillingWrite
    <2>3. CASE i \in Invoice
      BY <1>1, <1>2, <1>6, <2>1, <2>3, CommitInvoice DEF BillingWrite
    <2>4. CASE i \in Cdr
      <3>1. old \in CdrRow /\ fields = [status |-> "ACKNOWLEDGED"]
        BY <1>1, <2>4 DEF BillingWrite
      <3>2. old # Unseen
        BY <3>1, BillingAssumption
      <3>3. raced' = raced \cup (Watched \cap {j \in {i} : old # row[i]})
        BY <1>6, <3>2
      <3>4. QED
        BY <1>2, <1>6, <2>1, <2>4, <3>1, <3>3, CommitCdr
    <2>5. CASE i \notin Settlement \cup Invoice \cup Cdr
      <3>1. \A j \in Settlement \cup Invoice : j # i => (j \in raced' <=> j \in raced)
        BY <1>6
      <3>2. QED
        BY <1>1, <1>6, <2>1, <2>5, <3>1, OneRowWritten
    <2>6. QED
      BY <2>2, <2>3, <2>4, <2>5
  <1>7. QED
    BY <1>3, <1>5, <1>6

-------------------------------------------------------------------------------
(***************************************************************************)
(* Payments and billing together.  Each of the two invariants is about     *)
(* what calls of its own services do; reconciliation concerns both.        *)
(***************************************************************************)

MoneyInv == PaymentIInv /\ BillingInv

LEMMA BillingStart ==
  ASSUME CallsInit(NoBilling)
  PROVE  BillingInv /\ raced = {} /\ \A i \in Settlement : row[i] = None
  <1>1. /\ row = [i \in Id |-> IF i \in DOMAIN NoBilling THEN NoBilling[i] ELSE None]
        /\ todo = [c \in Call |-> <<>>] /\ raced = {}
    BY DEF CallsInit
  <1>2. DOMAIN NoBilling = {Purse} \cup Pair \cup Cdr /\ \A i \in Cdr : NoBilling[i] = [status |-> "SENT"]
    BY DEF NoBilling, NoPayments
  <1>3. /\ \A i \in Settlement \cup Invoice : i \in Id /\ i \notin DOMAIN NoBilling
        /\ Cdr \subseteq Id
    BY <1>2, BillingAssumption
  <1>4. /\ \A i \in Settlement \cup Invoice : row[i] = None
        /\ \A i \in Cdr : row[i] = [status |-> "SENT"]
    BY <1>1, <1>2, <1>3
  <1>5. BillingRows(row)
    BY <1>4 DEF BillingRows, CdrRow, CdrStatus
  <1>6. BillingTodo
    <2> DEFINE Q == {}
    <2>1. todo \in [Call -> Seq(Q)] /\ \A q \in Q : BillingQuery(q)
      BY <1>1, EmptySeq
    <2> HIDE DEF Q
    <2>2. QED
      BY <2>1 DEF BillingTodo
  <1>7. QED
    BY <1>1, <1>4, <1>5, <1>6 DEF BillingInv

LEMMA PaymentStart == CallsInit(NoBilling) => PaymentIInv
  <1> SUFFICES ASSUME CallsInit(NoBilling) PROVE PaymentIInv
    OBVIOUS
  <1>1. /\ row = [i \in Id |-> IF i \in DOMAIN NoBilling THEN NoBilling[i] ELSE None]
        /\ todo = [c \in Call |-> <<>>]
    BY DEF CallsInit
  <1>2. /\ DOMAIN NoBilling = {Purse} \cup Pair \cup Cdr
        /\ \A i \in DOMAIN NoBilling \ Cdr : NoBilling[i] = NoPayments[i]
        /\ NoPayments[Purse] = [p \in Payment |-> 0]
        /\ \A k \in Pair : NoPayments[k] = [rate |-> None]
    BY PaymentsIdAssumption DEF NoBilling, NoPayments
  <1>3. /\ \A i \in Payment \cup Tx : i \in Id /\ i \notin DOMAIN NoBilling
        /\ \A k \in Pair : k \in Id /\ k \in DOMAIN NoBilling \ Cdr
        /\ Purse \in Id /\ Purse \in DOMAIN NoBilling \ Cdr
    BY <1>2, PaymentsIdAssumption, BillingAssumption
  <1>4. DOMAIN row = Id /\ row[Purse] = [p \in Payment |-> 0]
        /\ (\A i \in Payment \cup Tx : row[i] = None) /\ (\A k \in Pair : row[k] = [rate |-> None])
    BY <1>1, <1>2, <1>3
  <1>5. PaymentRowsInv
    BY <1>4, MaxCreditsAssumption DEF PaymentRowsInv, PaymentsRows, RateRow
  <1>6. PaymentInv /\ CreditInv /\ RefundInv
    BY <1>4 DEF PaymentInv, CreditInv, RefundInv, Rows
  <1>7. Within(PaymentQueries, todo)
    <2> DEFINE Q == {}
    <2>1. todo \in [Call -> Seq(PaymentQueries \cup Q)] /\ \A q \in Q : Elsewhere(q)
      BY <1>1, EmptySeq
    <2> HIDE DEF Q
    <2>2. QED
      BY <2>1 DEF Within
  <1>8. QED
    BY <1>5, <1>6, <1>7 DEF PaymentIInv

\* A call decides or goes on.
LEMMA MoneyGoes ==
  ASSUME MoneyInv, NEW c \in Call, PaymentsGo(c) \/ BillingGo(c)
  PROVE  PaymentIInv' /\ BillingGoes
  <1>1. PICK queries : /\ BillingQueries(queries) /\ Queue(PaymentQueries, queries)
                       /\ Does(c, queries)
    BY PaymentQueriesAre, QueueIs, OwnAreQueries DEF PaymentsGo, BillingGo
  <1>2. QED
    BY <1>1, PaymentDoes, BillingDoes DEF MoneyInv

\* A call has another service work for it, on a record of a payment.
LEMMA MoneyPerforms ==
  ASSUME MoneyInv, PaymentIInv', NEW c \in Call, NEW name, NEW i \in Payment \cup Tx \cup Pair \cup {Purse},
         NEW r, NEW queries, BillingQueries(queries), Perform(c, name, i, r, queries)
  PROVE  BillingGoes
  <1>1. /\ row' = [row EXCEPT ![i] = r] /\ ~Free(c)
        /\ todo' = [todo EXCEPT ![c] = queries \o Tail(todo[c])]
        /\ \A j : row[j] # None => (j \in raced' <=> j \in raced)
    BY DEF Perform, Afresh, At
  <1>2. BillingQueries(queries \o Tail(todo[c]))
    BY <1>1, QueriesOf, QueriesJoin DEF MoneyInv, BillingInv
  <1>3. BillingTodo'
    BY <1>1, <1>2, BillingTodoOf DEF MoneyInv, BillingInv
  <1>4. QED
    BY <1>1, <1>3, BillingRests DEF MoneyInv

LEMMA MoneyStep ==
  ASSUME MoneyInv,
         [(\E c \in Call : MoneyNext(c) \/ Step(c)) \/ CustomersPay \/ RatesExpire \/ Restart]_vars
  PROVE  PaymentIInv' /\ BillingGoes
  <1>1. ASSUME NEW c \in Call, MoneyNext(c) PROVE PaymentIInv' /\ BillingGoes
    <2>1. CASE Credit(c)
      <3>1. PaymentIInv'
        BY <2>1, CreditStep DEF MoneyInv
      <3>2. \E r : Perform(c, "credit", Purse, r, <<>>)
        BY <2>1 DEF Credit
      <3>3. QED
        BY <3>1, <3>2, NothingIsQuery, MoneyPerforms
    <2>2. CASE RefundAtGateway(c)
      <3>1. PaymentIInv'
        BY <2>2, RefundStep DEF MoneyInv
      <3>2. PICK v \in Refunding : Subject(c) = v
        BY <2>2, NextByName, ThenParts DEF RefundAtGateway, Subject, MoneyInv
      <3> DEFINE q == PutAfter(v.payment, v.was, [status |-> "REFUNDED"])
      <3>3. v.payment \in Payment /\ v.was.tx \in Tx
        BY <3>2 DEF Refunding, Known, PaymentRow
      <3>4. BillingQuery(q)
        BY <3>3, PaymentsIdAssumption, BillingAssumption DEF BillingQuery, BillingWrite, PutAfter
      <3>5. \E r : Perform(c, "refund", v.was.tx, r, <<q>>)
        BY <2>2, <3>2 DEF RefundAtGateway
      <3> HIDE DEF q
      <3>6. BillingQueries(<<q>>)
        <4> DEFINE Q == {q}
        <4>1. <<q>> \in Seq(Q) /\ \A x \in Q : BillingQuery(x)
          BY <3>4, SeqOfOne
        <4> HIDE DEF Q
        <4>2. QED
          BY <4>1 DEF BillingQueries
      <3>7. QED
        BY <3>1, <3>3, <3>5, <3>6, MoneyPerforms
    <2>3. CASE PaymentsNext(c) /\ ~Credit(c) /\ ~RefundAtGateway(c)
      <3>1. PaymentsGo(c)
        BY <2>3, NewPayments, Asking, VerifyStep DEF PaymentsNext, MoneyInv
      <3>2. QED
        BY <3>1, MoneyGoes
    <2>4. CASE GetExchangeRate(c)
      BY <2>4, Asking, MoneyGoes DEF MoneyInv
    <2>5. CASE SettlementsNext(c) \/ ReconciliationNext(c) \/ InvoicesNext(c)
      <3>1. BillingGo(c)
        BY <2>5, SettlementsStep, ReconciliationStep, InvoicesStep DEF MoneyInv
      <3>2. QED
        BY <3>1, MoneyGoes
    <2>6. QED
      BY <1>1, <2>1, <2>2, <2>3, <2>4, <2>5 DEF MoneyNext
  <1>2. ASSUME NEW c \in Call, Commit(c) PROVE PaymentIInv' /\ BillingGoes
    BY <1>2, CommitStep, BillingCommits DEF MoneyInv
  <1>3. ASSUME NEW c \in Call, Fail(c) PROVE PaymentIInv' /\ BillingGoes
    <2>1. row' = row /\ raced' = raced /\ todo' = [todo EXCEPT ![c] = <<>>]
      BY <1>3 DEF Fail, End, history
    <2>2. BillingTodo'
      BY <2>1, NothingIsQuery, BillingTodoOf DEF MoneyInv, BillingInv
    <2>3. QED
      BY <2>1, <2>2, EndStep, RowsRest DEF MoneyInv
  <1>4. CASE CustomersPay \/ RatesExpire
    <2>1. PaymentIInv'
      BY <1>4, OutsideStep DEF MoneyInv
    <2>2. \E i \in Tx \cup Pair : \E r : Outside(i, r)
      BY <1>4 DEF CustomersPay, CustomerPays, RatesExpire, RateExpires
    <2>3. PICK i \in Tx \cup Pair :
              /\ \E r : row' = [row EXCEPT ![i] = r]
              /\ todo' = todo /\ raced' = raced
      BY <2>2 DEF Outside, history
    <2>4. BillingTodo'
      BY <2>3 DEF MoneyInv, BillingInv, BillingTodo
    <2>5. QED
      BY <2>1, <2>3, <2>4, BillingRests DEF MoneyInv
  <1>5. CASE Restart
    <2>1. row' = row /\ raced' = raced /\ todo' = [c \in Call |-> <<>>]
      BY <1>5 DEF Restart, history
    <2>2. RecordsInv'
      BY <2>1, SameRecords DEF MoneyInv, PaymentIInv, RecordsInv, StaysRaced
    <2>3. Within(PaymentQueries, todo)'
      <3> DEFINE Q == {}
      <3>1. todo' \in [Call -> Seq(PaymentQueries' \cup Q)] /\ \A q \in Q : Elsewhere(q)
        BY <2>1, EmptySeq
      <3> HIDE DEF Q
      <3>2. QED
        BY <3>1 DEF Within, Elsewhere
    <2>4. BillingGoes
      BY <2>1, BillingTodoOver, RowsRest DEF MoneyInv
    <2>5. QED
      BY <2>2, <2>3, <2>4 DEF PaymentIInv, RecordsInv
  <1>6. CASE UNCHANGED vars
    <2>1. row' = row /\ raced' = raced /\ todo' = todo
      BY <1>6 DEF vars
    <2>2. RecordsInv' /\ PaymentQueries' = PaymentQueries
      BY <2>1, SameRecords DEF MoneyInv, PaymentIInv, RecordsInv, StaysRaced
    <2>3. BillingTodo'
      BY <2>1 DEF MoneyInv, BillingInv, BillingTodo
    <2>4. BillingGoes
      BY <2>1, <2>3, RowsRest DEF MoneyInv
    <2>5. QED
      BY <2>1, <2>2, <2>4 DEF MoneyInv, PaymentIInv, RecordsInv
  <1>7. QED
    BY <1>1, <1>2, <1>3, <1>4, <1>5, <1>6 DEF Step

LEMMA MoneyInvariance == MoneySpec => []MoneyInv
  <1>1. CallsInit(NoBilling) => MoneyInv
    BY PaymentStart, BillingStart DEF MoneyInv
  <1>2. /\ MoneyInv
        /\ [(\E c \in Call : MoneyNext(c) \/ Step(c)) \/ CustomersPay \/ RatesExpire \/ Restart]_vars
        => MoneyInv'
    BY MoneyStep DEF MoneyInv, BillingGoes
  <1>3. QED
    BY <1>1, <1>2, PTL DEF MoneySpec

\* The rows of payments, the transactions, the credits and the rates keep their types, and a
\* payment is not credited more often than its confirmations were let to.
THEOREM PaymentsTypeCorrect == MoneySpec => []PaymentsRows(row)
  <1>1. MoneyInv => PaymentsRows(row)
    BY DEF MoneyInv, PaymentIInv, PaymentRowsInv
  <1>2. QED
    BY <1>1, MoneyInvariance, PTL

\* Whatever transactions clients name, and however confirmations, refunds and reconciliations
\* interleave, fail or are cut off, nobody is credited for a payment whose own transaction was not
\* collected.
THEOREM CreditedIsCollected == MoneySpec => []CreditIsCollected
  <1>1. MoneyInv => CreditIsCollected
    BY DEF MoneyInv, PaymentIInv, CreditInv, CreditIsCollected, Paid, Rows
  <1>2. QED
    BY <1>1, MoneyInvariance, PTL

\* No payment is shown as refunded whose transaction the gateway still keeps, unless a call that did
\* not know the payment as it was wrote over it: whatever the gateway refuses, wherever a refund
\* is cut off, and whatever sessions the payment is linked to meanwhile.
THEOREM RefundedAtGateway ==
  ASSUME Payment \subseteq Watched
  PROVE  MoneySpec => []RefundReachedGateway
  <1>1. MoneyInv => RefundReachedGateway
    BY DEF MoneyInv, PaymentIInv, RefundInv, RefundReachedGateway, Returned, Rows
  <1>2. QED
    BY <1>1, MoneyInvariance, PTL

\* Whatever is summed up, decided and written, settlements, invoices and CDRs are rows of their
\* tables, with amounts that are natural numbers of cents.
THEOREM BillingTypeCorrect == MoneySpec => []BillingRows(row)
  <1>1. MoneyInv => BillingRows(row)
    BY DEF MoneyInv, BillingInv
  <1>2. QED
    BY <1>1, MoneyInvariance, PTL

\* The fees and the net amount of every settlement on record miss its gross amount by a cent at
\* most, whatever the sessions, the CDRs and the subscriptions come to.
THEOREM SplitMissesLittle == MoneySpec => []SplitMissesByACent
  <1>1. MoneyInv => SplitMissesByACent
    <2> SUFFICES ASSUME BillingInv, NEW i \in Rows(Settlement)
                 PROVE  /\ row[i].gross <= row[i].fees + row[i].net + 1
                        /\ row[i].fees + row[i].net <= row[i].gross + 1
      BY DEF MoneyInv, SplitMissesByACent
    <2>1. QED
      BY DEF BillingInv, Rows, Sound
  <1>2. QED
    BY <1>1, MoneyInvariance, PTL

\* An invoice with a date of payment stays PAID, however payments, deletions and sweeps for
\* overdue invoices interleave, unless a call wrote to it that had not seen it as it was.
THEOREM PaidStaysPaid ==
  ASSUME Invoice \subseteq Watched
  PROVE  MoneySpec => []PaidInvoiceStaysPaid
  <1>1. MoneyInv => PaidInvoiceStaysPaid
    BY DEF MoneyInv, BillingInv, PaidInvoiceStaysPaid, Rows, Status
  <1>2. QED
    BY <1>1, MoneyInvariance, PTL

\* A settlement that no call changed unseen goes through its statuses as the checks of the
\* service allow: it is final when completed, and only what is being processed gets completed.
THEOREM SettlementLives ==
  ASSUME Settlement \subseteq Watched
  PROVE  MoneySpec => SettlementFollowsItsLife
  <1> DEFINE stage == [i \in Settlement |-> IF row[i] = None THEN "absent" ELSE Status(i)]
  <1>1. CallsInit(NoBilling) => SettlementLife!Init
    BY BillingStart DEF SettlementLife!Init
  <1>2. /\ MoneyInv
        /\ [(\E c \in Call : MoneyNext(c) \/ Step(c)) \/ CustomersPay \/ RatesExpire \/ Restart]_vars
        => BillingGoes
    BY MoneyStep
  <1>3. BillingGoes => SettlementLife!Next
    <2> SUFFICES ASSUME BillingGoes PROVE SettlementLife!Next
      OBVIOUS
    <2>1. \A i \in Settlement : stage[i] = Phase(row[i]) /\ stage'[i] = Phase(row'[i])
      BY DEF Phase, Status
    <2>2. \A i \in Settlement : stage'[i] \in SettlementStatus \cup {"absent"}
      BY <2>1 DEF BillingGoes, BillingInv, BillingRows, SettlementRow, Phase
    <2>3. stage' \in [Settlement -> SettlementStatus \cup {"absent"}]
      BY <2>2
    <2> HIDE DEF stage
    <2>4. ASSUME NEW i \in Settlement
          PROVE  \/ SettlementLife!Proceeds(i) \/ SettlementLife!Doubted(i)
                 \/ SettlementLife!Renewed(i) \/ SettlementLife!Rests(i)
      <3>1. SettlementGoes(i) /\ stage[i] = Phase(row[i]) /\ stage'[i] = Phase(row'[i])
        BY <2>1 DEF BillingGoes
      <3>2. CASE <<Phase(row[i]), Phase(row'[i])>> \in SettlementMove /\ i \notin raced \cup raced'
        <4>1. SettlementLife!Proceeds(i)
          BY <3>1, <3>2 DEF SettlementLife!Proceeds, stage
        <4>2. QED
          BY <4>1
      <3>3. CASE i \in raced'
        <4>1. SettlementLife!Doubted(i)
          BY <3>3 DEF SettlementLife!Doubted
        <4>2. QED
          BY <4>1
      <3>4. CASE row[i] = None /\ row'[i] = None /\ i \notin raced'
        <4>1. SettlementLife!Renewed(i)
          BY <3>1, <3>4 DEF SettlementLife!Renewed, stage, Phase
        <4>2. QED
          BY <4>1
      <3>5. CASE Phase(row'[i]) = Phase(row[i]) /\ i \notin raced \cup raced'
        <4>1. SettlementLife!Rests(i)
          BY <3>1, <3>5 DEF SettlementLife!Rests, stage
        <4>2. QED
          BY <4>1
      <3>6. QED
        BY <3>1, <3>2, <3>3, <3>4, <3>5 DEF SettlementGoes
    <2>5. QED
      BY <2>3, <2>4 DEF SettlementLife!Next, stage
  <1>4. QED
    BY <1>1, <1>2, <1>3, MoneyInvariance, PTL
    DEF MoneySpec, SettlementFollowsItsLife, SettlementLife!Spec
-------------------------------------------------------------------------------
(***************************************************************************)
(* Group wallets. A method does one query. A pending credit or debit       *)
(* carries the balance it was computed from; whoever owns the group is out *)
(* of the reach of every pending change of a member; and while a wallet is *)
(* being created nothing else is going to be written.                      *)
(***************************************************************************)

NewLedger == [credited |-> 0, debited |-> 0]
NewOwner == [role |-> "OWNER", limit |-> 0]

\* The queries of the methods, each with what made the call decide.
Creation(m, input) == Both(Both(Insert(Group, input), Insert(Ledger, NewLedger)), Insert(m, NewOwner))

Creating == {Creation(m, input) : m \in Member, input \in GroupInput}

Adding == {Both(Insert(m, input), Exists(Group)) : m \in Member, input \in MemberInput}

Removing == {Write(m, old, None, NoField) : m \in Member, old \in MemberRow \cup {None}}

Editing == {Write(m, old, edit, NoField) : m \in Member, old \in MemberRow, edit \in MemberEdit}

\* A payment of an amount into or out of the wallet as it was.
Movement == {v \in [was : GroupRow, balance : Nat, amount : Nat, field : {"credited", "debited"}] :
              v.balance = IF v.field = "credited" THEN v.was.balance + v.amount
                          ELSE v.was.balance - v.amount}

Entry(v) == [f \in {v.field} |-> v.amount]

Paying ==
  {Both(Write(Group, v.was, [balance |-> v.balance], NoField), Add(Ledger, Entry(v))) : v \in Movement}

Dropping == {Then("drop", r) : r \in GroupRow}

GroupQueries == Creating \cup Adding \cup Removing \cup Editing \cup Paying \cup Dropping

\* Calls that are going to create the group, or to write to it or its members.
Creates(c) == todo[c] # <<>> /\ todo[c][1] \in Creating

Writing(c) == todo[c] # <<>> /\ todo[c][1] \notin Dropping

\* The query leaves the owner m what he is.
Keeps(q, m) ==
  q.do = "write" /\ m \in DOMAIN q.on =>
    /\ q.on[m].put # None /\ q.on[m].inc = NoField
    /\ "role" \in DOMAIN q.on[m].put => q.on[m].put.role = "OWNER"

Owns(m) == row[m] # None /\ row[m].role = "OWNER"

OutOfReach(m) == \A c \in Call : todo[c] # <<>> => Keeps(todo[c][1], m)

GroupRowsInv ==
  /\ DOMAIN row = Id /\ GroupWalletsRows(row)
  /\ (row[Group] = None) = (row[Ledger] = None)

TodoInv == todo \in OneQuery(GroupQueries)

CreateInv ==
  \A c \in Call : Creates(c) =>
    row[Group] = None /\ \A d \in Call \ {c} : ~Writing(d)

OwnerInv == row[Group] # None => \E m \in Member : Owns(m) /\ OutOfReach(m)

GroupIInv ==
  /\ GroupRowsInv
  /\ TodoInv
  /\ CreateInv
  /\ OwnerInv
  /\ GroupBalanceIsSound

-------------------------------------------------------------------------------
(* What the queries write *)

LEMMA CreatingParts ==
  ASSUME NEW q \in Creating
  PROVE  \E m \in Member, input \in GroupInput :
           /\ q.do = "write" /\ DOMAIN q.on = {Group, Ledger, m}
           /\ q.on[Group] = [saw |-> None, put |-> input, inc |-> NoField]
           /\ q.on[Ledger] = [saw |-> None, put |-> NewLedger, inc |-> NoField]
           /\ q.on[m] = [saw |-> None, put |-> NewOwner, inc |-> NoField]
  <1>1. PICK m \in Member, input \in GroupInput : q = Creation(m, input)
    BY DEF Creating
  <1> DEFINE first == Insert(Group, input)
             second == Both(first, Insert(Ledger, NewLedger))
  <1>2. DOMAIN first.on = {Group} /\ first.on[Group] = [saw |-> None, put |-> input, inc |-> NoField]
    BY DEF Insert, Write
  <1>3. /\ DOMAIN second.on = {Group, Ledger}
        /\ second.on[Ledger] = [saw |-> None, put |-> NewLedger, inc |-> NoField]
        /\ second.on[Group] = first.on[Group]
    <2>1. Ledger \notin DOMAIN first.on /\ second = Both(first, Write(Ledger, None, NewLedger, NoField))
      BY <1>2, GroupWalletsAssumption DEF Insert
    <2>2. QED
      BY <1>2, <2>1, BothParts
  <1>4. q = Both(second, Write(m, None, NewOwner, NoField)) /\ m \notin DOMAIN second.on
    BY <1>1, <1>3, GroupWalletsAssumption DEF Creation, Insert
  <1>5. QED
    BY <1>2, <1>3, <1>4, BothParts

LEMMA AddingParts ==
  ASSUME NEW q \in Adding
  PROVE  \E m \in Member, input \in MemberInput :
           /\ q.do = "write" /\ DOMAIN q.on = {Group, m}
           /\ q.on[Group] = [saw |-> Unseen, put |-> NoField, inc |-> NoField]
           /\ q.on[m] = [saw |-> None, put |-> input, inc |-> NoField]
  <1>1. PICK m \in Member, input \in MemberInput : q = Both(Insert(m, input), Exists(Group))
    BY DEF Adding
  <1> DEFINE first == Insert(m, input)
  <1>2. DOMAIN first.on = {m} /\ first.on[m] = [saw |-> None, put |-> input, inc |-> NoField]
    BY DEF Insert, Write
  <1>3. q = Both(first, Write(Group, Unseen, NoField, NoField)) /\ Group \notin DOMAIN first.on
    BY <1>1, <1>2, GroupWalletsAssumption DEF Exists, Add
  <1>4. QED
    BY <1>2, <1>3, BothParts

LEMMA PayingParts ==
  ASSUME NEW q \in Paying
  PROVE  \E v \in Movement :
           /\ q.do = "write" /\ DOMAIN q.on = {Group, Ledger}
           /\ q.on[Group] = [saw |-> v.was, put |-> [balance |-> v.balance], inc |-> NoField]
           /\ q.on[Ledger] = [saw |-> Unseen, put |-> NoField, inc |-> Entry(v)]
  <1>1. PICK v \in Movement :
          q = Both(Write(Group, v.was, [balance |-> v.balance], NoField), Add(Ledger, Entry(v)))
    BY DEF Paying
  <1> DEFINE first == Write(Group, v.was, [balance |-> v.balance], NoField)
  <1>2. DOMAIN first.on = {Group}
        /\ first.on[Group] = [saw |-> v.was, put |-> [balance |-> v.balance], inc |-> NoField]
    BY DEF Write
  <1>3. q = Both(first, Write(Ledger, Unseen, NoField, Entry(v))) /\ Ledger \notin DOMAIN first.on
    BY <1>1, <1>2, GroupWalletsAssumption DEF Add
  <1>4. /\ q.do = "write" /\ DOMAIN q.on = DOMAIN first.on \cup {Ledger}
        /\ q.on[Ledger] = [saw |-> Unseen, put |-> NoField, inc |-> Entry(v)]
        /\ \A j \in DOMAIN first.on : q.on[j] = first.on[j]
    BY <1>3, BothParts
  <1>5. /\ DOMAIN q.on = {Group, Ledger}
        /\ q.on[Group] = [saw |-> v.was, put |-> [balance |-> v.balance], inc |-> NoField]
    BY <1>2, <1>4
  <1>6. QED
    BY <1>4, <1>5

LEMMA ChangingParts ==
  ASSUME NEW q \in Removing \cup Editing
  PROVE  \E m \in Member, old \in MemberRow \cup {None}, fields \in MemberEdit \cup {None} :
           /\ q.do = "write" /\ DOMAIN q.on = {m}
           /\ q.on[m] = [saw |-> old, put |-> fields, inc |-> NoField]
           /\ q \in Editing => old # None /\ fields # None
           /\ fields # None => q \in Editing
  <1>1. CASE q \in Removing
    <2>1. PICK m \in Member, old \in MemberRow \cup {None} : q = Write(m, old, None, NoField)
      BY <1>1 DEF Removing
    <2>2. q.do = "write" /\ DOMAIN q.on = {m} /\ q.on[m] = [saw |-> old, put |-> None, inc |-> NoField]
      BY <2>1 DEF Write
    <2>3. q \notin Editing
      <3>1. SUFFICES ASSUME NEW n \in Member, NEW was \in MemberRow, NEW edit \in MemberEdit,
                            q = Write(n, was, edit, NoField)
                     PROVE  FALSE
        BY DEF Editing
      <3>2. DOMAIN q.on = {n} /\ q.on[n].put = edit
        BY <3>1, WriteParts
      <3>3. QED
        BY <2>2, <3>2, NoGroupAssumption
    <2>4. QED
      BY <2>2, <2>3
  <1>2. CASE q \in Editing
    <2>1. PICK m \in Member, old \in MemberRow, edit \in MemberEdit : q = Write(m, old, edit, NoField)
      BY <1>2 DEF Editing
    <2>2. q.do = "write" /\ DOMAIN q.on = {m} /\ q.on[m] = [saw |-> old, put |-> edit, inc |-> NoField]
      BY <2>1 DEF Write
    <2>3. QED
      BY <1>2, <2>2, NoGroupAssumption
  <1>3. QED
    BY <1>1, <1>2

LEMMA DroppingParts ==
  ASSUME NEW q \in Dropping
  PROVE  q.do = "drop" /\ q.on \in GroupRow
  BY ThenParts DEF Dropping

\* Only a creation inserts the group.
LEMMA InsertsGroup ==
  ASSUME NEW q \in GroupQueries, q.do = "write"
  PROVE  /\ q \in Creating => Group \in DOMAIN q.on /\ q.on[Group].saw = None
         /\ q \notin Creating => Group \notin DOMAIN q.on \/ q.on[Group].saw # None
         /\ q \notin Dropping
  <1>1. q \notin Dropping
    BY DroppingParts
  <1>2. q \in Creating => Group \in DOMAIN q.on /\ q.on[Group].saw = None
    <2>1. SUFFICES ASSUME q \in Creating PROVE Group \in DOMAIN q.on /\ q.on[Group].saw = None
      OBVIOUS
    <2>2. PICK m \in Member, input \in GroupInput :
            DOMAIN q.on = {Group, Ledger, m}
            /\ q.on[Group] = [saw |-> None, put |-> input, inc |-> NoField]
      BY <2>1, CreatingParts
    <2>3. QED
      BY <2>2
  <1>3. q \in Adding => q.on[Group].saw # None
    <2>1. SUFFICES ASSUME q \in Adding PROVE q.on[Group].saw # None
      OBVIOUS
    <2>2. q.on[Group] = [saw |-> Unseen, put |-> NoField, inc |-> NoField]
      BY <2>1, AddingParts
    <2>3. QED
      BY <2>2, UnseenAssumption
  <1>4. q \in Removing \cup Editing => Group \notin DOMAIN q.on
    BY ChangingParts, GroupWalletsAssumption
  <1>5. q \in Paying => q.on[Group].saw # None
    <2>1. SUFFICES ASSUME q \in Paying PROVE q.on[Group].saw # None
      OBVIOUS
    <2>2. PICK v \in Movement : q.on[Group] = [saw |-> v.was, put |-> [balance |-> v.balance], inc |-> NoField]
      BY <2>1, PayingParts
    <2>3. QED
      BY <2>2, NoGroupAssumption DEF Movement
  <1>6. QED
    BY <1>1, <1>2, <1>3, <1>4, <1>5 DEF GroupQueries

\* Every write is to the group, its ledger or its members.
LEMMA WritesOfGroup ==
  ASSUME NEW q \in GroupQueries \ Dropping
  PROVE  q.do = "write" /\ \E i \in {Group, Ledger} \cup Member : i \in DOMAIN q.on
  <1>1. CASE q \in Creating
    BY <1>1, CreatingParts
  <1>2. CASE q \in Adding
    BY <1>2, AddingParts
  <1>3. CASE q \in Removing \cup Editing
    BY <1>3, ChangingParts
  <1>4. CASE q \in Paying
    BY <1>4, PayingParts
  <1>5. QED
    BY <1>1, <1>2, <1>3, <1>4 DEF GroupQueries

LEMMA CreatesIsWriting ==
  ASSUME NEW c \in Call, Creates(c)
  PROVE  Writing(c)
  <1>1. todo[c][1] \in GroupQueries /\ todo[c][1].do = "write"
    BY CreatingParts DEF Creates, GroupQueries
  <1>2. QED
    BY <1>1, InsertsGroup DEF Creates, Writing

-------------------------------------------------------------------------------
(* Steps that change no record *)

\* Some calls end.
LEMMA CallsEnd ==
  ASSUME GroupIInv, Quiet, TodoInv'
  PROVE  GroupIInv'
  <1>1. GroupRowsInv' /\ GroupBalanceIsSound'
    BY DEF Quiet, GroupIInv, GroupRowsInv, GroupWalletsRows, GroupBalanceIsSound
  <1>2. \A d \in Call : (Writing(d)' => Writing(d)) /\ (Creates(d)' => Creates(d))
    BY DEF Quiet, Writing, Creates
  <1>3. CreateInv'
    BY <1>2 DEF Quiet, GroupIInv, CreateInv
  <1>4. \A m \in Member : Owns(m) /\ OutOfReach(m) => Owns(m)' /\ OutOfReach(m)'
    BY DEF Quiet, Owns, OutOfReach
  <1>5. OwnerInv'
    BY <1>4 DEF Quiet, GroupIInv, OwnerInv
  <1>6. QED
    BY <1>1, <1>3, <1>5 DEF GroupIInv

\* A call starts in a group that is there.
LEMMA GroupDecideStep ==
  ASSUME GroupIInv, NEW c \in Call, NEW q \in GroupQueries \ Creating, row[Group] # None,
         \A m \in Member : Owns(m) => Keeps(q, m),
         Decide(c, <<q>>)
  PROVE  GroupIInv'
  <1>1. row' = row /\ todo' = [todo EXCEPT ![c] = <<q>>]
    BY DecideParts
  <1>2. Group \in raced' <=> Group \in raced
    BY DecideParts
  <1>3. GroupRowsInv' /\ GroupBalanceIsSound'
    BY <1>1, <1>2 DEF GroupIInv, GroupRowsInv, GroupWalletsRows, GroupBalanceIsSound
  <1>4. TodoInv'
    BY <1>1 DEF GroupIInv, TodoInv, OneQuery
  <1>5. todo'[c] = <<q>> /\ todo'[c][1] = q /\ \A d \in Call \ {c} : todo'[d] = todo[d]
    BY <1>1 DEF GroupIInv, TodoInv, OneQuery
  <1>6. \A d \in Call : ~Creates(d)'
    BY <1>5 DEF GroupIInv, CreateInv, Creates
  <1>7. CreateInv'
    BY <1>6 DEF CreateInv
  <1>8. \A m \in Member : Owns(m) /\ OutOfReach(m) => Owns(m)' /\ OutOfReach(m)'
    BY <1>1, <1>5 DEF Owns, OutOfReach
  <1>9. OwnerInv'
    BY <1>1, <1>8 DEF GroupIInv, OwnerInv
  <1>10. QED
    BY <1>3, <1>4, <1>7, <1>9 DEF GroupIInv

\* A call starts that creates the group, where there is none and nothing to be written.
LEMMA DecideCreation ==
  ASSUME GroupIInv, NEW c \in Call, CreateGroupWallet(c)
  PROVE  GroupIInv'
  <1>1. PICK m \in Member, input \in GroupInput :
          /\ {Group, Ledger} \cup Member \subseteq Unused({Group, Ledger} \cup Member)
          /\ Decide(c, <<Creation(m, input)>>)
    BY DEF CreateGroupWallet, Creation, NewLedger, NewOwner
  <1> DEFINE q == Creation(m, input)
  <1>2. q \in Creating /\ q \in GroupQueries
    BY DEF Creating, GroupQueries
  <1>3. row' = row /\ todo' = [todo EXCEPT ![c] = <<q>>]
    BY <1>1 DEF Decide
  <1>4. row[Group] = None /\ \A i \in {Group, Ledger} \cup Member : i \notin Pending
    BY <1>1 DEF Unused
  <1>5. ASSUME NEW d \in Call, Writing(d) PROVE FALSE
    <2>1. PICK p \in GroupQueries : todo[d] = <<p>> /\ todo[d][1] = p
      BY <1>5, QueryOf DEF GroupIInv, TodoInv, Writing, Free
    <2>2. p.do = "write" /\ \E i \in {Group, Ledger} \cup Member : i \in DOMAIN p.on
      BY <1>5, <2>1, WritesOfGroup DEF Writing
    <2>3. DOMAIN todo[d] = {1}
      BY <2>1
    <2>4. p.on \in Writes(todo[d])
      BY <2>1, <2>2, <2>3 DEF Writes
    <2>5. DOMAIN p.on \subseteq Pending
      BY <2>4 DEF Pending
    <2>6. QED
      BY <1>4, <2>2, <2>5
  <1>6. GroupRowsInv' /\ GroupBalanceIsSound' /\ OwnerInv'
    BY <1>3, <1>4 DEF GroupIInv, GroupRowsInv, GroupWalletsRows, GroupBalanceIsSound, OwnerInv
  <1> HIDE DEF q
  <1>7. TodoInv'
    BY <1>2, <1>3 DEF GroupIInv, TodoInv, OneQuery
  <1>8. \A d \in Call \ {c} : todo'[d] = todo[d]
    BY <1>3 DEF GroupIInv, TodoInv, OneQuery
  <1>9. \A d \in Call \ {c} : ~Writing(d)' /\ ~Creates(d)'
    BY <1>5, <1>8, CreatesIsWriting DEF Writing, Creates
  <1>10. CreateInv'
    BY <1>3, <1>4, <1>9 DEF CreateInv
  <1>11. QED
    BY <1>6, <1>7, <1>10 DEF GroupIInv

\* The methods for members and payments.
LEMMA MethodStep ==
  ASSUME GroupIInv, NEW c \in Call
  PROVE  /\ AddMember(c) \/ RemoveMember(c) \/ UpdateMember(c) => GroupIInv'
         /\ CreditGroupWallet(c) \/ DebitGroupWallet(c) \/ DeleteGroupWallet(c) => GroupIInv'
  <1>1. ASSUME AddMember(c) PROVE GroupIInv'
    <2>1. PICK requester \in Member, m \in Member, input \in MemberInput :
            /\ MayManage(requester) /\ ~IsMember(m)
            /\ Decide(c, <<Both(Insert(m, input), Exists(Group))>>)
      BY <1>1 DEF AddMember
    <2> DEFINE q == Both(Insert(m, input), Exists(Group))
    <2>2. row[Group] # None /\ row[m] = None
      BY <2>1 DEF MayManage, IsMember
    <2>3. q \in Adding /\ q \in GroupQueries
      BY DEF Adding, GroupQueries
    <2> HIDE DEF q
    <2>4. DOMAIN q.on = {Group, m}
      <3>1. m \notin DOMAIN Exists(Group).on /\ DOMAIN Insert(m, input).on = {m} /\ DOMAIN Exists(Group).on = {Group}
        BY GroupWalletsAssumption DEF Exists, Add, Insert, Write
      <3>2. QED
        BY <3>1 DEF q, Both
    <2>5. \A n \in Member : Owns(n) => Keeps(q, n)
      BY <2>2, <2>4, GroupWalletsAssumption DEF Owns, Keeps
    <2>6. q \notin Creating
      <3>1. SUFFICES ASSUME q \in Creating PROVE FALSE
        OBVIOUS
      <3>2. Ledger \in DOMAIN q.on
        BY <3>1, CreatingParts
      <3>3. QED
        BY <2>4, <3>2, GroupWalletsAssumption
    <2>7. Decide(c, <<q>>)
      BY <2>1 DEF q
    <2>8. QED
      BY <2>2, <2>3, <2>5, <2>6, <2>7, GroupDecideStep
  <1>2. ASSUME NEW m \in Member, NEW fields, row[Group] # None,
               Write(m, row[m], fields, NoField) \in Removing \cup Editing,
               Owns(m) => fields # None /\ ("role" \in DOMAIN fields => fields.role = "OWNER"),
               Decide(c, <<Write(m, row[m], fields, NoField)>>)
        PROVE  GroupIInv'
    <2> DEFINE q == Write(m, row[m], fields, NoField)
    <2>1. /\ q.do = "write" /\ DOMAIN q.on = {m}
          /\ q.on[m].put = fields /\ q.on[m].inc = NoField
      BY WriteParts
    <2> HIDE DEF q
    <2>2. \A n \in Member : Owns(n) => Keeps(q, n)
      BY <1>2, <2>1 DEF Keeps
    <2>3. q \notin Creating
      <3>1. SUFFICES ASSUME q \in Creating PROVE FALSE
        OBVIOUS
      <3>2. Group \in DOMAIN q.on
        BY <3>1, CreatingParts
      <3>3. QED
        BY <2>1, <3>2, GroupWalletsAssumption
    <2>4. Decide(c, <<q>>) /\ q \in GroupQueries
      BY <1>2 DEF q, GroupQueries
    <2>5. QED
      BY <1>2, <2>2, <2>3, <2>4, GroupDecideStep
  <1>3. ASSUME RemoveMember(c) PROVE GroupIInv'
    <2>1. PICK requester \in Member, m \in Member : MayRemove(requester, m) /\ Decide(c, <<Delete(m)>>)
      BY <1>3 DEF RemoveMember
    <2>2. row[Group] # None /\ ~Owns(m)
      BY <2>1 DEF MayRemove, MayManage, IsMember, Owns
    <2>3. row[m] \in MemberRow \cup {None}
      BY DEF GroupIInv, GroupRowsInv, GroupWalletsRows
    <2>4. Delete(m) = Write(m, row[m], None, NoField)
      BY DEF Delete, Put
    <2>5. Write(m, row[m], None, NoField) \in Removing
      BY <2>3 DEF Removing
    <2>6. QED
      BY <1>2, <2>1, <2>2, <2>4, <2>5
  <1>4. ASSUME UpdateMember(c) PROVE GroupIInv'
    <2>1. PICK requester \in Member, m \in Member, edit \in MemberEdit :
            /\ MayManage(requester) /\ IsMember(m)
            /\ row[m].role = "OWNER" /\ "role" \in DOMAIN edit => edit.role = "OWNER"
            /\ Decide(c, <<Put(m, edit)>>)
      BY <1>4 DEF UpdateMember
    <2>2. row[Group] # None /\ row[m] \in MemberRow
      BY <2>1 DEF IsMember, GroupIInv, GroupRowsInv, GroupWalletsRows
    <2>3. Write(m, row[m], edit, NoField) \in Editing
      BY <2>2 DEF Editing
    <2>4. Owns(m) => edit # None /\ ("role" \in DOMAIN edit => edit.role = "OWNER")
      BY <2>1, NoGroupAssumption DEF Owns
    <2>5. Decide(c, <<Write(m, row[m], edit, NoField)>>)
      BY <2>1 DEF Put
    <2>6. QED
      BY <1>2, <2>2, <2>3, <2>4, <2>5
  <1>5. ASSUME NEW v \in Movement, v.was = row[Group], row[Group] # None,
               Decide(c, <<Both(Put(Group, [balance |-> v.balance]), Add(Ledger, Entry(v)))>>)
        PROVE  GroupIInv'
    <2> DEFINE q == Both(Put(Group, [balance |-> v.balance]), Add(Ledger, Entry(v)))
    <2>1. q = Both(Write(Group, v.was, [balance |-> v.balance], NoField), Add(Ledger, Entry(v)))
      BY <1>5 DEF Put
    <2>2. q \in Paying /\ q \in GroupQueries
      BY <2>1 DEF Paying, GroupQueries
    <2> HIDE DEF q
    <2>3. DOMAIN q.on = {Group, Ledger}
      BY <2>2, PayingParts
    <2>4. \A n \in Member : Owns(n) => Keeps(q, n)
      BY <2>3, GroupWalletsAssumption DEF Keeps
    <2>5. q \notin Creating
      <3>1. SUFFICES ASSUME q \in Creating PROVE FALSE
        OBVIOUS
      <3>2. PICK m \in Member : m \in DOMAIN q.on
        BY <3>1, CreatingParts
      <3>3. QED
        BY <2>3, <3>2, GroupWalletsAssumption
    <2>6. Decide(c, <<q>>)
      BY <1>5 DEF q
    <2>7. QED
      BY <1>5, <2>2, <2>4, <2>5, <2>6, GroupDecideStep
  <1>6. row[Group] # None => row[Group] \in GroupRow
    BY DEF GroupIInv, GroupRowsInv, GroupWalletsRows
  <1>7. ASSUME CreditGroupWallet(c) PROVE GroupIInv'
    <2>1. PICK m \in Member, amount \in Sum :
            /\ IsMember(m)
            /\ Decide(c, <<Both(Put(Group, [balance |-> row[Group].balance + amount]),
                                Add(Ledger, [credited |-> amount]))>>)
      BY <1>7 DEF CreditGroupWallet
    <2> DEFINE v == [was |-> row[Group], balance |-> row[Group].balance + amount, amount |-> amount,
                     field |-> "credited"]
    <2>2. row[Group] # None /\ row[Group].balance \in Nat /\ amount \in Nat
      BY <1>6, <2>1 DEF IsMember, GroupRow, Sum
    <2>3. v \in Movement
      BY <1>6, <2>2 DEF Movement
    <2>4. Entry(v) = [credited |-> amount] /\ v.balance = row[Group].balance + amount /\ v.was = row[Group]
      BY DEF Entry
    <2>5. QED
      BY <1>5, <2>1, <2>2, <2>3, <2>4
  <1>8. ASSUME DebitGroupWallet(c) PROVE GroupIInv'
    <2>1. PICK m \in Member, amount \in Sum :
            /\ MayDebit(m, amount)
            /\ Decide(c, <<Both(Put(Group, [balance |-> row[Group].balance - amount]),
                                Add(Ledger, [debited |-> amount]))>>)
      BY <1>8 DEF DebitGroupWallet
    <2> DEFINE v == [was |-> row[Group], balance |-> row[Group].balance - amount, amount |-> amount,
                     field |-> "debited"]
    <2>2. row[Group] # None /\ row[Group].balance \in Nat /\ amount \in Nat /\ row[Group].balance >= amount
      BY <1>6, <2>1 DEF MayDebit, IsMember, GroupRow, Sum
    <2>3. v \in Movement
      BY <1>6, <2>2 DEF Movement
    <2>4. Entry(v) = [debited |-> amount] /\ v.balance = row[Group].balance - amount /\ v.was = row[Group]
      BY DEF Entry
    <2>5. QED
      BY <1>5, <2>1, <2>2, <2>3, <2>4
  <1>9. ASSUME DeleteGroupWallet(c) PROVE GroupIInv'
    <2>1. row[Group] # None /\ Decide(c, <<Then("drop", row[Group])>>)
      BY <1>9 DEF DeleteGroupWallet, MayDelete, IsMember
    <2> DEFINE q == Then("drop", row[Group])
    <2>2. q \in Dropping /\ q \in GroupQueries
      BY <1>6, <2>1 DEF Dropping, GroupQueries
    <2> HIDE DEF q
    <2>3. q.do = "drop"
      BY <2>2, DroppingParts
    <2>4. q \notin Creating
      BY <2>3, CreatingParts
    <2>5. \A n \in Member : Keeps(q, n)
      BY <2>3 DEF Keeps
    <2>6. Decide(c, <<q>>)
      BY <2>1 DEF q
    <2>7. QED
      BY <2>1, <2>2, <2>4, <2>5, <2>6, GroupDecideStep
  <1>10. QED
    BY <1>1, <1>3, <1>4, <1>7, <1>8, <1>9

-------------------------------------------------------------------------------
(* Steps that write *)

\* After a write that creates no group it is enough to look at the rows and at who owns.
LEMMA DoneInGroup ==
  ASSUME GroupIInv, NEW c \in Call, NEW q \in GroupQueries \ Creating, Done(c, q),
         GroupRowsInv', GroupBalanceIsSound',
         row'[Group] # None => row[Group] # None,
         row[Group] = None => row'[Group] = None,
         \A m \in Member : Owns(m) /\ Keeps(q, m) => Owns(m)'
  PROVE  GroupIInv'
  <1>1. TodoInv' /\ \A d \in Call : todo'[d] = <<>> \/ (d # c /\ todo'[d] = todo[d])
    BY OneQueryEnds DEF GroupIInv, TodoInv, Done
  <1>2. \A d \in Call : (Writing(d)' => Writing(d)) /\ (Creates(d)' => Creates(d))
    BY <1>1 DEF Writing, Creates
  <1>3. CreateInv'
    BY <1>2 DEF GroupIInv, CreateInv
  <1>4. todo[c] # <<>> /\ todo[c][1] = q
    BY DEF Done
  <1>5. \A m \in Member : Owns(m) /\ OutOfReach(m) => Owns(m)' /\ OutOfReach(m)'
    BY <1>1, <1>4 DEF OutOfReach
  <1>6. OwnerInv'
    BY <1>5 DEF GroupIInv, OwnerInv
  <1>7. QED
    BY <1>1, <1>3, <1>6 DEF GroupIInv

\* A wallet is created with its owner, and nothing that was decided before is left to be written.
LEMMA CreationDone ==
  ASSUME GroupIInv, NEW c \in Call, NEW q \in Creating, Done(c, q)
  PROVE  GroupIInv'
  <1>1. PICK m \in Member, input \in GroupInput :
          /\ q.do = "write" /\ DOMAIN q.on = {Group, Ledger, m}
          /\ q.on[Group] = [saw |-> None, put |-> input, inc |-> NoField]
          /\ q.on[Ledger] = [saw |-> None, put |-> NewLedger, inc |-> NoField]
          /\ q.on[m] = [saw |-> None, put |-> NewOwner, inc |-> NoField]
    BY CreatingParts
  <1>2. row[Group] = None /\ row[Ledger] = None /\ row[m] = None
    BY <1>1 DEF Done
  <1>3. input \in GroupRow /\ NewLedger \in LedgerRow /\ NewOwner \in MemberRow
    BY DEF GroupInput, GroupRow, NewLedger, LedgerRow, NewOwner, MemberRow, Role
  <1>4. row' = [i \in Id |-> IF i \in DOMAIN q.on THEN Applied(q.on[i], row[i]) ELSE row[i]]
    BY DEF Done
  <1>5. row'[Group] = input
    BY <1>1, <1>2, <1>3, <1>4, GroupWalletsAssumption, NoGroupAssumption DEF Applied
  <1>6. row'[Ledger] = NewLedger
    BY <1>1, <1>2, <1>3, <1>4, GroupWalletsAssumption, NoGroupAssumption DEF Applied
  <1>7. row'[m] = NewOwner
    BY <1>1, <1>2, <1>3, <1>4, GroupWalletsAssumption, NoGroupAssumption DEF Applied
  <1>8. \A n \in Member \ {m} : row'[n] = row[n]
    BY <1>1, <1>4, GroupWalletsAssumption
  <1>9. GroupRowsInv'
    <2>1. DOMAIN row' = Id
      BY <1>4
    <2>2. GroupWalletsRows(row')
      BY <1>3, <1>5, <1>6, <1>7, <1>8 DEF GroupIInv, GroupRowsInv, GroupWalletsRows
    <2>3. row'[Group] # None /\ row'[Ledger] # None
      BY <1>3, <1>5, <1>6, NoGroupAssumption
    <2>4. QED
      BY <2>1, <2>2, <2>3 DEF GroupRowsInv
  <1>10. GroupBalanceIsSound'
    <2>1. row'[Group].balance = 0 /\ row'[Ledger].credited = 0 /\ row'[Ledger].debited = 0
      BY <1>5, <1>6 DEF GroupInput, NewLedger
    <2>2. QED
      BY <2>1 DEF GroupBalanceIsSound
  <1>11. TodoInv' /\ \A d \in Call : todo'[d] = <<>> \/ (d # c /\ todo'[d] = todo[d])
    BY OneQueryEnds DEF GroupIInv, TodoInv, Done
  <1>12. Creates(c)
    BY DEF Creates, Done
  <1>13. \A d \in Call \ {c} : ~Writing(d)
    BY <1>12 DEF GroupIInv, CreateInv
  <1>14. \A d \in Call : ~Writing(d)' /\ ~Creates(d)'
    BY <1>11, <1>13, CreatesIsWriting DEF Writing, Creates
  <1>15. CreateInv'
    BY <1>14 DEF CreateInv
  <1>16. OutOfReach(m)'
    <2>1. SUFFICES ASSUME NEW d \in Call, todo'[d] # <<>> PROVE Keeps(todo'[d][1], m)
      BY DEF OutOfReach
    <2>2. todo'[d][1] \in Dropping
      BY <1>14, <2>1 DEF Writing
    <2>3. QED
      BY <2>2, DroppingParts DEF Keeps
  <1>17. Owns(m)'
    BY <1>3, <1>7, NoGroupAssumption DEF Owns, NewOwner
  <1>18. OwnerInv'
    BY <1>16, <1>17 DEF OwnerInv
  <1>19. QED
    BY <1>9, <1>10, <1>11, <1>15, <1>18 DEF GroupIInv

\* A write that leaves the wallet and its ledger what they are.
LEMMA SameWallet ==
  ASSUME GroupIInv, NEW c \in Call, NEW q \in GroupQueries \ Creating, Done(c, q),
         row'[Group] = row[Group], row'[Ledger] = row[Ledger],
         \A m \in Member : /\ row'[m] \in MemberRow \cup {None}
                           /\ Owns(m) /\ Keeps(q, m) => Owns(m)'
  PROVE  GroupIInv'
  <1>1. DOMAIN row' = Id /\ raced \subseteq raced'
    BY DEF Done
  <1>2. GroupRowsInv'
    BY <1>1 DEF GroupIInv, GroupRowsInv, GroupWalletsRows
  <1>3. GroupBalanceIsSound'
    BY <1>1 DEF GroupIInv, GroupBalanceIsSound
  <1>4. QED
    BY <1>2, <1>3, DoneInGroup

LEMMA AddingDone ==
  ASSUME GroupIInv, NEW c \in Call, NEW q \in Adding \ Creating, Done(c, q)
  PROVE  GroupIInv'
  <1>1. PICK m \in Member, input \in MemberInput :
          /\ q.do = "write" /\ DOMAIN q.on = {Group, m}
          /\ q.on[Group] = [saw |-> Unseen, put |-> NoField, inc |-> NoField]
          /\ q.on[m] = [saw |-> None, put |-> input, inc |-> NoField]
    BY AddingParts
  <1>2. row[m] = None /\ row[Group] # None
    BY <1>1, UnseenAssumption DEF Done
  <1>3. row' = [i \in Id |-> IF i \in DOMAIN q.on THEN Applied(q.on[i], row[i]) ELSE row[i]]
    BY DEF Done
  <1>4. row[Group] \in GroupRow
    BY <1>2 DEF GroupIInv, GroupRowsInv, GroupWalletsRows
  <1>5. input \in MemberRow
    BY DEF MemberInput, MemberRow
  <1>6. row'[Group] = row[Group]
    <2>1. row'[Group] = Applied(q.on[Group], row[Group])
      BY <1>1, <1>3, GroupWalletsAssumption
    <2>2. NoField # None
      BY NoGroupAssumption
    <2>3. row'[Group] = [f \in DOMAIN row[Group] |-> IF f \in DOMAIN NoField THEN NoField[f] ELSE row[Group][f]]
      BY <1>1, <1>2, <2>1, <2>2, AppliedIs
    <2>4. DOMAIN NoField = {}
      BY DEF NoField
    <2>5. QED
      BY <1>4, <2>3, <2>4 DEF GroupRow
  <1>7. row'[m] = input
    BY <1>1, <1>2, <1>3, <1>5, GroupWalletsAssumption, NoGroupAssumption DEF Applied
  <1>8. \A i \in Id \ {Group, m} : row'[i] = row[i]
    BY <1>1, <1>3
  <1>9. row'[Ledger] = row[Ledger]
    BY <1>8, GroupWalletsAssumption
  <1>10. ASSUME NEW n \in Member
         PROVE  row'[n] \in MemberRow \cup {None} /\ (Owns(n) => Owns(n)')
    <2>1. CASE n = m
      BY <1>2, <1>5, <1>7, <2>1 DEF Owns
    <2>2. CASE n # m
      <3>1. row'[n] = row[n]
        BY <1>8, <2>2, GroupWalletsAssumption
      <3>2. QED
        BY <3>1 DEF Owns, GroupIInv, GroupRowsInv, GroupWalletsRows
    <2>3. QED
      BY <2>1, <2>2
  <1>11. q \in GroupQueries \ Creating
    BY DEF GroupQueries
  <1>12. QED
    BY <1>6, <1>9, <1>10, <1>11, SameWallet

\* What an update makes of a member.
LEMMA EditedMember ==
  ASSUME NEW r \in MemberRow, NEW edit \in MemberEdit, NEW old
  PROVE  LET s == Applied([saw |-> old, put |-> edit, inc |-> NoField], r)
         IN /\ s \in MemberRow
            /\ s.role = IF "role" \in DOMAIN edit THEN edit.role ELSE r.role
  <1> DEFINE s == Applied([saw |-> old, put |-> edit, inc |-> NoField], r)
  <1>1. PICK fields \in [role : Role \cup {None}, limit : Limit \cup {None}] : edit = Given(fields)
    BY DEF MemberEdit
  <1>2. /\ "role" \in DOMAIN edit => edit.role \in Role
        /\ "limit" \in DOMAIN edit => edit.limit \in Limit
    <2>1. \A g \in DOMAIN edit : edit[g] = fields[g] /\ fields[g] # None
      BY <1>1, GivenIs
    <2>2. QED
      BY <2>1
  <1>3. DOMAIN r = {"role", "limit"} /\ r.role \in Role /\ r.limit \in Limit \cup {0}
    BY DEF MemberRow
  <1>4. edit # None /\ r # None
    BY NoGroupAssumption
  <1>5. s = [f \in DOMAIN r |-> IF f \in DOMAIN edit THEN edit[f] ELSE r[f]]
    BY <1>4, AppliedIs
  <1>6. s = [role |-> s.role, limit |-> s.limit]
    BY <1>3, <1>5
  <1>7. s.role = IF "role" \in DOMAIN edit THEN edit.role ELSE r.role
    BY <1>3, <1>5
  <1>8. s.limit = IF "limit" \in DOMAIN edit THEN edit.limit ELSE r.limit
    BY <1>3, <1>5
  <1>9. s.role \in Role /\ s.limit \in Limit \cup {0}
    BY <1>2, <1>3, <1>7, <1>8
  <1>10. s \in MemberRow
    BY <1>6, <1>9 DEF MemberRow
  <1>11. QED
    BY <1>7, <1>10

LEMMA ChangingDone ==
  ASSUME GroupIInv, NEW c \in Call, NEW q \in (Removing \cup Editing) \ Creating, Done(c, q)
  PROVE  GroupIInv'
  <1>1. PICK m \in Member, old \in MemberRow \cup {None}, fields \in MemberEdit \cup {None} :
          /\ q.do = "write" /\ DOMAIN q.on = {m}
          /\ q.on[m] = [saw |-> old, put |-> fields, inc |-> NoField]
          /\ q \in Editing => old # None /\ fields # None
          /\ fields # None => q \in Editing
    BY ChangingParts
  <1>2. row' = [i \in Id |-> IF i \in DOMAIN q.on THEN Applied(q.on[i], row[i]) ELSE row[i]]
    BY DEF Done
  <1>3. (old = None) = (row[m] = None)
    BY <1>1 DEF Done
  <1>4. row'[m] = Applied([saw |-> old, put |-> fields, inc |-> NoField], row[m])
    BY <1>1, <1>2, GroupWalletsAssumption
  <1>5. \A i \in Id \ {m} : row'[i] = row[i]
    BY <1>1, <1>2
  <1>6. row'[Group] = row[Group] /\ row'[Ledger] = row[Ledger]
    BY <1>5, GroupWalletsAssumption
  <1>7. row'[m] \in MemberRow \cup {None} /\ (Owns(m) /\ Keeps(q, m) => Owns(m)')
    <2>1. CASE fields = None
      <3>1. row'[m] = None
        BY <1>4, <2>1 DEF Applied
      <3>2. ~Keeps(q, m)
        BY <1>1, <2>1 DEF Keeps
      <3>3. QED
        BY <3>1, <3>2
    <2>2. CASE fields # None
      <3>1. row[m] \in MemberRow
        BY <1>1, <1>3, <2>2 DEF GroupIInv, GroupRowsInv, GroupWalletsRows
      <3>2. /\ row'[m] \in MemberRow
            /\ row'[m].role = IF "role" \in DOMAIN fields THEN fields.role ELSE row[m].role
        BY <1>4, <2>2, <3>1, EditedMember
      <3>3. Keeps(q, m) /\ "role" \in DOMAIN fields => fields.role = "OWNER"
        BY <1>1 DEF Keeps
      <3>4. row'[m] # None
        BY <3>2, NoGroupAssumption
      <3>5. QED
        BY <3>2, <3>3, <3>4 DEF Owns
    <2>3. QED
      BY <2>1, <2>2
  <1>8. ASSUME NEW n \in Member \ {m}
        PROVE  row'[n] \in MemberRow \cup {None} /\ (Owns(n) => Owns(n)')
    <2>1. row'[n] = row[n]
      BY <1>5, GroupWalletsAssumption
    <2>2. QED
      BY <2>1 DEF Owns, GroupIInv, GroupRowsInv, GroupWalletsRows
  <1>9. q \in GroupQueries \ Creating
    BY DEF GroupQueries
  <1>10. QED
    BY <1>6, <1>7, <1>8, <1>9, SameWallet

\* A credit or a debit: if the wallet is still what the payment was computed from, the ledger goes
\* with the balance.
LEMMA PayingDone ==
  ASSUME Group \in Watched, GroupIInv, NEW c \in Call, NEW q \in Paying \ Creating, Done(c, q)
  PROVE  GroupIInv'
  <1>1. PICK v \in Movement :
          /\ q.do = "write" /\ DOMAIN q.on = {Group, Ledger}
          /\ q.on[Group] = [saw |-> v.was, put |-> [balance |-> v.balance], inc |-> NoField]
          /\ q.on[Ledger] = [saw |-> Unseen, put |-> NoField, inc |-> Entry(v)]
    BY PayingParts
  <1>2. v.was \in GroupRow /\ v.balance \in Nat /\ v.amount \in Nat /\ v.field \in {"credited", "debited"}
    BY DEF Movement
  <1>3. row' = [i \in Id |-> IF i \in DOMAIN q.on THEN Applied(q.on[i], row[i]) ELSE row[i]]
    BY DEF Done
  <1>4. row[Group] # None /\ row[Ledger] # None
    BY <1>1, <1>2, UnseenAssumption, NoGroupAssumption DEF Done
  <1>5. row[Group] \in GroupRow /\ row[Ledger] \in LedgerRow
    BY <1>4 DEF GroupIInv, GroupRowsInv, GroupWalletsRows
  <1>6. /\ row'[Group] \in GroupRow /\ row'[Group].balance = v.balance
    <2> DEFINE fields == [balance |-> v.balance]
               s == row'[Group]
    <2>1. s = Applied([saw |-> v.was, put |-> fields, inc |-> NoField], row[Group])
      BY <1>1, <1>3, GroupWalletsAssumption
    <2>2. fields \in [balance : Nat]
      BY <1>2
    <2>3. fields # None
      BY <2>2, NoGroupAssumption
    <2>4. DOMAIN fields = {"balance"} /\ fields["balance"] = v.balance
      OBVIOUS
    <2> HIDE DEF fields, s
    <2>5. s = [f \in DOMAIN row[Group] |-> IF f \in DOMAIN fields THEN fields[f] ELSE row[Group][f]]
      BY <1>4, <2>1, <2>3, AppliedIs
    <2>6. DOMAIN row[Group] = {"balance", "limit"} /\ row[Group].limit \in Limit
      BY <1>5 DEF GroupRow
    <2>7. s = [balance |-> s.balance, limit |-> s.limit] /\ s.balance = v.balance /\ s.limit = row[Group].limit
      BY <2>4, <2>5, <2>6
    <2>8. s \in GroupRow /\ s.balance = v.balance
      BY <1>2, <2>6, <2>7 DEF GroupRow
    <2>9. QED
      BY <2>8 DEF s
  <1>7. /\ row'[Ledger] \in LedgerRow
        /\ row'[Ledger].credited = row[Ledger].credited + (IF v.field = "credited" THEN v.amount ELSE 0)
        /\ row'[Ledger].debited = row[Ledger].debited + (IF v.field = "debited" THEN v.amount ELSE 0)
    <2> DEFINE e == Entry(v)
               r == row[Ledger]
               s == row'[Ledger]
    <2>1. s = Applied([saw |-> Unseen, put |-> NoField, inc |-> e], r)
      BY <1>1, <1>3, GroupWalletsAssumption
    <2>2. DOMAIN e = {v.field} /\ e[v.field] = v.amount
      BY DEF Entry
    <2>3. DOMAIN r = {"credited", "debited"} /\ r.credited \in Nat /\ r.debited \in Nat
      BY <1>5 DEF LedgerRow
    <2>4. DOMAIN NoField = {} /\ NoField # None /\ r # None
      BY <1>4, NoGroupAssumption DEF NoField
    <2> HIDE DEF e, r, s
    <2>5. s = [f \in DOMAIN r |-> IF f \in DOMAIN e THEN r[f] + e[f] ELSE r[f]]
      BY <2>1, <2>4 DEF Applied
    <2>6. s.credited = r.credited + (IF v.field = "credited" THEN v.amount ELSE 0)
      BY <1>2, <2>2, <2>3, <2>5
    <2>7. s.debited = r.debited + (IF v.field = "debited" THEN v.amount ELSE 0)
      BY <1>2, <2>2, <2>3, <2>5
    <2>8. s = [credited |-> s.credited, debited |-> s.debited]
      BY <2>3, <2>5
    <2>9. s.credited \in Nat /\ s.debited \in Nat
      BY <1>2, <2>3, <2>6, <2>7
    <2>10. s \in LedgerRow
      BY <2>8, <2>9 DEF LedgerRow
    <2>11. QED
      BY <2>6, <2>7, <2>10 DEF r, s
  <1>8. \A m \in Member : row'[m] = row[m]
    BY <1>1, <1>3, GroupWalletsAssumption
  <1>9. GroupRowsInv'
    <2>1. DOMAIN row' = Id
      BY <1>3
    <2>2. GroupWalletsRows(row')
      BY <1>6, <1>7, <1>8 DEF GroupIInv, GroupRowsInv, GroupWalletsRows
    <2>3. row'[Group] # None /\ row'[Ledger] # None
      BY <1>6, <1>7, NoGroupAssumption
    <2>4. QED
      BY <2>1, <2>2, <2>3 DEF GroupRowsInv
  <1>10. GroupBalanceIsSound'
    <2>1. row'[Group].balance >= 0
      BY <1>2, <1>6
    <2>2. ASSUME Group \notin raced'
          PROVE  row'[Group].balance + row'[Ledger].debited = row'[Ledger].credited
      <3>1. raced' = raced \cup
              (Watched \cap {i \in DOMAIN q.on : q.on[i].saw # row[i] /\ (q.on[i].saw = Unseen => q.on[i].put # NoField)})
        BY DEF Done
      <3>2. v.was # Unseen
        BY <1>2, NoGroupAssumption
      <3>3. v.was = row[Group] /\ Group \notin raced
        BY <1>1, <2>2, <3>1, <3>2
      <3>4. row[Group].balance + row[Ledger].debited = row[Ledger].credited
        BY <1>4, <3>3 DEF GroupIInv, GroupBalanceIsSound
      <3>5. row[Group].balance \in Nat /\ row[Ledger].debited \in Nat /\ row[Ledger].credited \in Nat
        BY <1>5 DEF GroupRow, LedgerRow
      <3>6. v.balance = IF v.field = "credited" THEN row[Group].balance + v.amount
                        ELSE row[Group].balance - v.amount
        BY <3>3 DEF Movement
      <3>7. CASE v.field = "credited"
        BY <1>2, <1>6, <1>7, <3>4, <3>5, <3>6, <3>7
      <3>8. CASE v.field = "debited"
        BY <1>2, <1>6, <1>7, <3>4, <3>5, <3>6, <3>8
      <3>9. QED
        BY <1>2, <3>7, <3>8
    <2>3. QED
      BY <2>1, <2>2 DEF GroupBalanceIsSound
  <1>11. \A m \in Member : Owns(m) => Owns(m)'
    BY <1>8 DEF Owns
  <1>12. q \in GroupQueries \ Creating
    BY DEF GroupQueries
  <1>13. QED
    BY <1>4, <1>9, <1>10, <1>11, <1>12, DoneInGroup

LEMMA WriteStep ==
  ASSUME Group \in Watched, GroupIInv, NEW c \in Call, NEW q \in GroupQueries, q.do = "write", Done(c, q)
  PROVE  GroupIInv'
  <1>1. q \notin Dropping
    BY InsertsGroup
  <1>2. CASE q \in Creating
    BY <1>2, CreationDone
  <1>3. CASE q \in Adding \ Creating
    BY <1>3, AddingDone
  <1>4. CASE q \in (Removing \cup Editing) \ Creating
    BY <1>4, ChangingDone
  <1>5. CASE q \in Paying \ Creating
    BY <1>5, PayingDone
  <1>6. QED
    BY <1>1, <1>2, <1>3, <1>4, <1>5 DEF GroupQueries

\* Everything of the group goes; calls that decided before it find nothing to write to.
LEMMA DropStep ==
  ASSUME GroupIInv, NEW c \in Call, DropGroupWallet(c)
  PROVE  GroupIInv'
  <1>1. /\ row[Group] # None
        /\ row' = [i \in Id |-> IF i \in {Group, Ledger} \cup Member THEN None ELSE row[i]]
        /\ todo' = [todo EXCEPT ![c] = <<>>]
    BY DEF DropGroupWallet
  <1>2. DOMAIN row' = Id
    BY <1>1
  <1>3. row'[Group] = None /\ row'[Ledger] = None /\ \A m \in Member : row'[m] = None
    BY <1>1, GroupWalletsAssumption
  <1>4. GroupRowsInv' /\ GroupBalanceIsSound' /\ OwnerInv'
    BY <1>2, <1>3 DEF GroupRowsInv, GroupWalletsRows, GroupBalanceIsSound, OwnerInv
  <1>5. TodoInv' /\ \A d \in Call : todo'[d] = <<>> \/ (d # c /\ todo'[d] = todo[d])
    BY <1>1, OneQueryEnds DEF GroupIInv, TodoInv
  <1>6. \A d \in Call : ~Creates(d)
    BY <1>1 DEF GroupIInv, CreateInv
  <1>7. \A d \in Call : ~Creates(d)'
    BY <1>5, <1>6 DEF Creates
  <1>8. CreateInv'
    BY <1>7 DEF CreateInv
  <1>9. QED
    BY <1>4, <1>5, <1>8 DEF GroupIInv

LEMMA GroupInvariance ==
  ASSUME Group \in Watched
  PROVE  GroupWalletsSpec => []GroupIInv
  <1>1. CallsInit(NoField) => GroupIInv
    <2> SUFFICES ASSUME CallsInit(NoField) PROVE GroupIInv
      OBVIOUS
    <2>1. row = [i \in Id |-> None] /\ todo = [c \in Call |-> <<>>]
      BY DEF CallsInit, NoField
    <2>2. row[Group] = None /\ row[Ledger] = None /\ \A m \in Member : row[m] = None
      BY <2>1, GroupWalletsAssumption
    <2>3. GroupRowsInv /\ GroupBalanceIsSound /\ OwnerInv
      BY <2>1, <2>2 DEF GroupRowsInv, GroupWalletsRows, GroupBalanceIsSound, OwnerInv
    <2>4. TodoInv
      BY <2>1 DEF TodoInv, OneQuery
    <2>5. CreateInv
      BY <2>1 DEF CreateInv, Creates
    <2>6. QED
      BY <2>3, <2>4, <2>5 DEF GroupIInv
  <1>2. GroupIInv /\ [(\E c \in Call : GroupWalletsNext(c) \/ Step(c)) \/ Restart]_vars => GroupIInv'
    <2> SUFFICES ASSUME GroupIInv, [(\E c \in Call : GroupWalletsNext(c) \/ Step(c)) \/ Restart]_vars
                 PROVE  GroupIInv'
      OBVIOUS
    <2>1. ASSUME NEW c \in Call, GroupWalletsNext(c) PROVE GroupIInv'
      BY <2>1, DecideCreation, MethodStep, DropStep DEF GroupWalletsNext
    <2>2. CASE [(\E c \in Call : Step(c)) \/ Restart]_vars
      <3>1. /\ TodoInv'
            /\ Quiet \/ \E c \in Call, q \in GroupQueries : q.do = "write" /\ Done(c, q)
        BY <2>2, OneQueryDone DEF GroupIInv, TodoInv, OneQuery
      <3>2. QED
        BY <3>1, CallsEnd, WriteStep
    <2>3. QED
      BY <2>1, <2>2
  <1>3. QED
    BY <1>1, <1>2, PTL DEF GroupWalletsSpec

-------------------------------------------------------------------------------
\* The rows of the wallet, its ledger and its members have their types.
THEOREM GroupWalletsTypeCorrect ==
  ASSUME Group \in Watched
  PROVE  GroupWalletsSpec => []GroupWalletsRows(row)
  <1>1. GroupIInv => GroupWalletsRows(row)
    BY DEF GroupIInv, GroupRowsInv
  <1>2. QED
    BY <1>1, GroupInvariance, PTL

\* Credits and debits that write what they computed from an earlier read never overdraw the wallet,
\* and as long as none of them was lost the ledger explains the balance.
THEOREM GroupBalanceSound ==
  ASSUME Group \in Watched
  PROVE  GroupWalletsSpec => []GroupBalanceIsSound
  <1>1. GroupIInv => GroupBalanceIsSound
    BY DEF GroupIInv
  <1>2. QED
    BY <1>1, GroupInvariance, PTL

\* However changes of the members interleave, fail or are cut off, a wallet keeps an owner.
THEOREM GroupKeepsAnOwner ==
  ASSUME Group \in Watched
  PROVE  GroupWalletsSpec => []GroupHasOwner
  <1>1. GroupIInv => GroupHasOwner
    BY DEF GroupIInv, OwnerInv, Owns, GroupHasOwner
  <1>2. QED
    BY <1>1, GroupInvariance, PTL
===============================================================================
