------------------------------ MODULE MCServices ------------------------------
EXTENDS Billing, GroupWallets
CONSTANTS Topics
VARIABLE topic
MCId == Payment \cup Tx \cup {Purse} \cup Pair \cup Settlement \cup Invoice \cup Cdr
        \cup Member \cup {Group, Ledger}
MCAmount == [i \in Payment \cup Session \cup Cdr |-> IF i \in Cdr THEN 50 ELSE 25]
Init == topic \in Topics /\ CallsInit(NoBilling)
On(t, A) == topic = t /\ A
Next ==
  /\ UNCHANGED topic
  /\ \/ \E c \in Call :
          \/ On("payments", PaymentsNext(c)) \/ On("settlements", SettlementsNext(c))
          \/ On("reconciliation", ReconciliationNext(c) \/ ProcessCashPayment(c) \/ Refund(c))
          \/ On("invoices", InvoicesNext(c))
          \/ On("groups", GroupWalletsNext(c)) \/ On("rates", GetExchangeRate(c))
          \/ Step(c)
     \/ On("payments", CustomersPay) \/ On("rates", RatesExpire)
     \/ Restart
Spec == Init /\ [][Next]_<<vars, topic>>
TypeOK == PaymentsRows(row) /\ BillingRows(row) /\ GroupWalletsRows(row)
===============================================================================
