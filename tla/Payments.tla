------------------------------- MODULE Payments -------------------------------
(***************************************************************************)
(* PaymentsService: payment intents at Stripe or Adyen, their confirmation *)
(* with the credit of the wallet, refunds, cash and mobile payments; and   *)
(* the exchange rates CurrencyConverterService keeps in Redis.             *)
(*                                                                         *)
(* A confirmation reads the payment, asks the gateway about the            *)
(* transaction it read, updates the payment and credits the wallet: four   *)
(* steps, and whatever other calls do between them.                        *)
(***************************************************************************)
EXTENDS Calls

CONSTANTS
  Payment,     \* rows of Payment
  Tx,          \* transactions at a gateway
  Purse,       \* the wallet: how often its ledger credits each payment
  Session,     \* rows of ChargingSession
  Pair,        \* keys exchange_rate:<from>:<to> of Redis
  MaxCredits   \* bound: credits of one payment

ASSUME MaxCreditsAssumption == MaxCredits \in Nat

ASSUME PaymentsIdAssumption ==
  /\ Payment \cup Tx \cup Pair \cup {Purse} \subseteq Id
  /\ Payment \cap Tx = {} /\ Payment \cap Pair = {} /\ Tx \cap Pair = {}
  /\ Purse \notin Payment \cup Tx \cup Pair

PaymentStatus == {"PENDING", "SUCCEEDED", "REFUNDED"}
Gateway == {"stripe", "adyen"}

PaymentRow ==
  [status : PaymentStatus, provider : Gateway \cup {"manual", "mpesa"},
   tx : Tx \cup {None}, intent : Tx \cup {None}, session : Session \cup {None}]

TxRow == [state : {"open", "captured", "refunded"}]

RateRow == [rate : {None, "fetched", "fallback"}]

\* None is no record, nor the data of an update; Unseen is no payment.
ASSUME NoPaymentAssumption ==
  /\ None \notin PaymentRow \cup TxRow \cup RateRow
                   \cup [status : PaymentStatus] \cup [status : PaymentStatus, tx : Tx]
  /\ Unseen \notin PaymentRow

PaymentsRows(records) ==
  /\ \A p \in Payment : records[p] \in PaymentRow \cup {None}
  /\ \A t \in Tx : records[t] \in TxRow \cup {None}
  /\ records[Purse] \in [Payment -> 0..MaxCredits]
  /\ \A k \in Pair : records[k] \in RateRow

NoPayments ==
  [i \in {Purse} \cup Pair |-> IF i = Purse THEN [p \in Payment |-> 0] ELSE [rate |-> None]]

-------------------------------------------------------------------------------
(* New payments *)

\* A preference decides; else the currency; else Stripe if there is a key for it.
SelectGateway(africanOrEuropean, preferred, stripe) ==
  IF preferred # "auto" THEN preferred
  ELSE IF africanOrEuropean THEN "adyen"
  ELSE IF stripe THEN "stripe" ELSE "adyen"

\* providerData keeps the intent the payment was made with; providerTxId changes.
NewPayment(status, provider, t, s) ==
  [status |-> status, provider |-> provider, tx |-> t, intent |-> t, session |-> s]

\* Of what a client asks for, what makes a difference: a gateway, a currency and a session.
IntentInput ==
  [gateway : Gateway \cup {"auto"}, africanOrEuropean : BOOLEAN, session : Session \cup {None}]

\* In what state an intent can be made: Adyen may authorise it at once.
IntentState(g) == {"open"} \cup (IF g = "adyen" THEN {"captured"} ELSE {})

\* The intent at the gateway, then the row.
CreateIntent(c) ==
  \E p \in Unused(Payment), t \in Unused(Tx), input \in IntentInput, stripe \in BOOLEAN :
    LET g == SelectGateway(input.africanOrEuropean, input.gateway, stripe)
    IN /\ g = "stripe" => stripe
       /\ \E state \in IntentState(g) :
            Decide(c, <<Insert(t, [state |-> state]),
                        Insert(p, NewPayment("PENDING", g, t, input.session))>>)

\* Paid as it is recorded; there is no transaction to verify or refund.
ProcessCashPayment(c) ==
  \E p \in Unused(Payment) : Decide(c, <<Insert(p, NewPayment("SUCCEEDED", "manual", None, None))>>)

ProcessMobilePayment(c) ==
  \E p \in Unused(Payment) : Decide(c, <<Insert(p, NewPayment("PENDING", "mpesa", None, None))>>)

\* The customer pays at the gateway.
CustomerPays(t) ==
  /\ row[t] = [state |-> "open"]
  /\ Outside(t, [state |-> "captured"])

-------------------------------------------------------------------------------
(* Confirmation and refund *)

ByGateway(p) == row[p].provider \in Gateway /\ row[p].tx # None

\* The status of the payment is not looked at.  The client names a transaction, too.
ConfirmPayment(c) ==
  \E p \in Rows(Payment), t \in Rows(Tx) :
    /\ ByGateway(p)
    /\ row[Purse][p] < MaxCredits
    /\ Decide(c, <<Then("verify", [payment |-> p, was |-> row[p], named |-> t])>>)

\* A payment the gateway only knows of is taken for paid.
Mutant_Verified(t) == row[t] # None

\* What the gateway says of the transaction.
Verified(t) == row[t] # None /\ row[t].state = "captured"

\* The gateway knows the transaction that was read as captured: the payment succeeds, with
\* the transaction the client named, and the wallet is credited.
Verify(c) ==
  LET v == Subject(c)
  IN Continue(c, "verify",
       IF Verified(v.was.tx)
       THEN <<PutAfter(v.payment, v.was, [status |-> "SUCCEEDED", tx |-> v.named]),
              Then("credit", v.payment)>>
       ELSE <<>>)

\* creditWallet; Wallet has its queries.
Credit(c) ==
  LET p == Subject(c)
      credits == row[Purse]
  IN /\ At(c, "credit") /\ credits[p] < MaxCredits
     /\ Perform(c, "credit", Purse, [credits EXCEPT ![p] = @ + 1], <<>>)

\* No look at the status here either.
Refund(c) ==
  \E p \in Rows(Payment) :
    /\ ByGateway(p)
    /\ Decide(c, <<Then("refund", [payment |-> p, was |-> row[p]])>>)

\* The answer of the gateway is not looked at.
Mutant_RefundAtGateway(c) ==
  LET v == Subject(c)
  IN /\ At(c, "refund")
     /\ Perform(c, "refund", v.was.tx,
                IF Verified(v.was.tx) THEN [state |-> "refunded"] ELSE row[v.was.tx],
                <<PutAfter(v.payment, v.was, [status |-> "REFUNDED"])>>)

\* The gateway refunds what was captured, and refuses anything else.  The wallet keeps the
\* credit.
RefundAtGateway(c) ==
  LET v == Subject(c)
  IN /\ At(c, "refund") /\ Verified(v.was.tx)
     /\ Perform(c, "refund", v.was.tx, [state |-> "refunded"],
                <<PutAfter(v.payment, v.was, [status |-> "REFUNDED"])>>)

-------------------------------------------------------------------------------
(* Exchange rates *)

\* From the provider, or from a table when it fails or there is no key for it.
FetchExchangeRate == {"fetched", "fallback"}

\* A miss of the cache: the rate is fetched and cached for an hour, wherever it is from.
GetExchangeRate(c) ==
  \E k \in Pair, rate \in FetchExchangeRate :
    row[k].rate = None /\ Decide(c, <<Overwrite(k, [rate |-> rate])>>)

\* An hour later, or clearCache.
RateExpires(k) == row[k].rate # None /\ Outside(k, [rate |-> None])

-------------------------------------------------------------------------------
PaymentsNext(c) ==
  \/ CreateIntent(c) \/ ProcessCashPayment(c) \/ ProcessMobilePayment(c)
  \/ ConfirmPayment(c) \/ Verify(c) \/ Credit(c)
  \/ Refund(c) \/ RefundAtGateway(c)

CustomersPay == \E t \in Tx : CustomerPays(t)

RatesExpire == \E k \in Pair : RateExpires(k)

-------------------------------------------------------------------------------
(* Properties *)

Collected(t) == row[t] # None /\ row[t].state \in {"captured", "refunded"}

\* The wallet is credited for a payment only if the customer paid the transaction the payment
\* was made with, whatever transactions its confirmations named, and in whatever order
\* confirmations, refunds and reconciliations of the payment ran.
CreditIsCollected ==
  \A p \in Rows(Payment) : row[Purse][p] > 0 => Collected(row[p].intent)

\* A payment shown as refunded was refunded by the gateway, in the transaction it names,
\* unless a confirmation or another refund ran at the same time.
RefundReachedGateway ==
  \A p \in Rows(Payment) \ raced :
    row[p].status = "REFUNDED" => row[row[p].tx].state = "refunded"
===============================================================================
