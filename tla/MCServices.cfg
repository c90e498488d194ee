SPECIFICATION Spec
CONSTANTS Call = {c1, c2}
 None = None
 Unseen = Unseen
 Id <- MCId
 Rival = {}
 Watched = {p1, s1, i1, g1}
 Payment = {p1}
 Tx = {t1, t2}
 Purse = purse
 Session = {x1, x2}
 Pair = {k1}
 MaxCredits = 2
 Fee = {0, 1999}
 Settlement = {s1}
 Invoice = {i1}
 Cdr = {d1}
 Amount <- MCAmount
 Group = g1
 Ledger = ledger
 Member = {a, b}
 MaxTurnover = 1
 Limit = {0}
 Topics = {"payments","settlements","reconciliation","invoices", "groups", "rates"}
INVARIANTS TypeOK CreditIsCollected RefundReachedGateway  PaidInvoiceStaysPaid GroupBalanceIsSound GroupHasOwner
PROPERTIES SettlementFollowsItsLife
