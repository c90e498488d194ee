-------------------------------- MODULE Billing --------------------------------
(***************************************************************************)
(* What organisations are owed and owe: SettlementsService,                *)
(* ReconciliationService and InvoicesService.  All three read the charging *)
(* sessions; reconciliation links payments to sessions as well.            *)
(*                                                                         *)
(* Amounts are in cents.  What an administrator types in is not told       *)
(* apart, and stands as 0.  The sessions are completed, of one period,     *)
(* organisation and user.                                                  *)
(***************************************************************************)
EXTENDS Payments, FiniteSetsExt, SequencesExt

CONSTANTS
  Fee,                        \* cents that subscriptions of an organisation come to
  Settlement, Invoice, Cdr,   \* rows of Settlement, Invoice and OCPICDR
  Amount                      \* cents of each payment, session and CDR; they never change

ASSUME AmountAssumption ==
  /\ Amount \in [Payment \cup Session \cup Cdr -> Nat] /\ Fee \subseteq Nat
  /\ IsFiniteSet(Session) /\ IsFiniteSet(Cdr)

SettlementStatus == {"PENDING", "PROCESSING", "COMPLETED", "FAILED", "DISPUTED"}
InvoiceStatus == {"PENDING", "PAID", "OVERDUE", "REFUNDED"}
CdrStatus == {"CREATED", "SENT", "ACKNOWLEDGED"}

SettlementRow == [status : SettlementStatus, gross : Nat, fees : Nat, net : Nat]
InvoiceRow == [status : InvoiceStatus, paid : BOOLEAN, amount : Nat]
CdrRow == [status : CdrStatus]

ASSUME BillingAssumption ==
  /\ Settlement \cup Invoice \cup Cdr \subseteq Id /\ IsFiniteSet(Invoice)
  /\ Settlement \cap Invoice = {} /\ Settlement \cap Cdr = {} /\ Invoice \cap Cdr = {}
  /\ (Payment \cup Tx \cup Pair \cup {Purse}) \cap (Settlement \cup Invoice \cup Cdr) = {}
  /\ \A x \in {None, Unseen} : x \notin SettlementRow \cup InvoiceRow \cup CdrRow
  /\ None \notin SettlementStatus \cup InvoiceStatus /\ None \notin BOOLEAN /\ None \notin Nat

BillingRows(records) ==
  /\ \A i \in Settlement : records[i] \in SettlementRow \cup {None}
  /\ \A i \in Invoice : records[i] \in InvoiceRow \cup {None}
  /\ \A i \in Cdr : records[i] \in CdrRow

\* The CDRs came from the partners.
NoBilling ==
  [i \in DOMAIN NoPayments \cup Cdr |-> IF i \in Cdr THEN [status |-> "SENT"] ELSE NoPayments[i]]

Status(i) == row[i].status

-------------------------------------------------------------------------------
(* Amounts *)

Total(T) == SumFunctionOnSet(Amount, T)

\* Completed sessions, and what the subscriptions of the period come to.
CalculateCPOPayout(subscriptions) == Total(Session) + subscriptions

\* Completed sessions of the vehicles of the fleet.
CalculateFleetBilling(sessions) == Total(sessions)

CalculateRoamingSettlement == Total(Rows(Cdr))

\* 50 for a shift, and 25 for five ratings or more of 4.5 on average.
CalculateDriverPayout(shifts, ratings, stars) ==
  5000 * shifts + (IF ratings >= 5 /\ 2 * stars >= 9 * ratings THEN 2500 ELSE 0)

\* Rounded to cents, as the column is.
Percent(p, amount) == (p * amount + 50) \div 100

\* The fees are not taken off.
Mutant_Split(gross) == [gross |-> gross, fees |-> Percent(3, gross), net |-> gross]

Split(gross) == [gross |-> gross, fees |-> Percent(3, gross), net |-> Percent(97, gross)]

-------------------------------------------------------------------------------
(* Settlements *)

NewSettlement(status, amounts) ==
  [status |-> status, gross |-> amounts.gross, fees |-> amounts.fees, net |-> amounts.net]

Typed == Split(0)

SettlementInput == {NewSettlement(status, Typed) : status \in SettlementStatus}

SettlementEdit ==
  {Given([status |-> status]) : status \in SettlementStatus \cup {None}}
    \cup {Given(NewSettlement(status, Typed)) : status \in SettlementStatus \cup {None}}

CreateSettlement(c) ==
  \E i \in Unused(Settlement), input \in SettlementInput : Decide(c, <<Insert(i, input)>>)

\* What one of the four kinds of settlement can come to.
Gross ==
  {CalculateCPOPayout(fee) : fee \in Fee}
    \cup {CalculateFleetBilling(Session), CalculateRoamingSettlement}
    \cup {CalculateDriverPayout(1, 5, stars) : stars \in {22, 25}}

\* Nothing looks for another settlement of the period.
GenerateSettlement(c) ==
  \E i \in Unused(Settlement), gross \in Gross :
    Decide(c, <<Insert(i, NewSettlement("PENDING", Split(gross)))>>)

UpdateSettlement(c) ==
  \E i \in Rows(Settlement), edit \in SettlementEdit : Decide(c, <<Overwrite(i, edit)>>)

DeleteSettlement(c) ==
  \E i \in Rows(Settlement) : Status(i) # "COMPLETED" /\ Decide(c, <<Delete(i)>>)

\* A settlement that was paid can be processed.
Mutant_MayProcess(i) == Status(i) # "FAILED"

MayProcess(i) == Status(i) \notin {"COMPLETED", "FAILED"}

\* PROCESSING, the payment, COMPLETED.  The promise of the last update is returned, not
\* awaited, so when that fails the catch clause does not run.
ProcessSettlement(c) ==
  \E i \in Rows(Settlement) :
    /\ MayProcess(i)
    /\ Decide(c, <<Put(i, [status |-> "PROCESSING"]),
                   PutAfter(i, [row[i] EXCEPT !.status = "PROCESSING"],
                            [status |-> "COMPLETED"])>>)

DisputeSettlement(c) ==
  \E i \in Rows(Settlement) :
    Status(i) # "COMPLETED" /\ Decide(c, <<Put(i, [status |-> "DISPUTED"])>>)

-------------------------------------------------------------------------------
(* Reconciliation *)

LinkedTo(s) == {p \in Rows(Payment) : row[p].session = s}

\* Payments of the user, of the amount, within the hours of the session.  That the payment is
\* linked to another session is no obstacle.
Matches(p, s) == Status(p) = "SUCCEEDED" /\ Amount[p] = Amount[s]

\* Every session without a payment is looked up, in turn; then the CDRs.
AutoReconcile(c) ==
  LET unpaid == SetToSeq({s \in Session : LinkedTo(s) = {}})
  IN Decide(c, [k \in 1..Len(unpaid) |-> Then("match", unpaid[k])] \o <<Then("cdrs", None)>>)

MatchSession(c) ==
  /\ At(c, "match")
  /\ LET s == Subject(c)
         found == {p \in Rows(Payment) : Matches(p, s)}
     IN IF found = {} THEN Continue(c, "match", <<>>)
        ELSE \E p \in found : Continue(c, "match", <<Put(p, [session |-> s])>>)

AcknowledgeCdrs(c) ==
  LET sent == SetToSeq({i \in Rows(Cdr) : Status(i) = "SENT"})
  IN Continue(c, "cdrs", [k \in 1..Len(sent) |-> Put(sent[k], [status |-> "ACKNOWLEDGED"])])

-------------------------------------------------------------------------------
(* Invoices *)

NewInvoice(status, amount) == [status |-> status, paid |-> FALSE, amount |-> amount]

InvoiceInput == {NewInvoice(status, 0) : status \in InvoiceStatus}

InvoiceEdit ==
  {Given([status |-> status, paid |-> paid]) :
     status \in InvoiceStatus \cup {None}, paid \in {TRUE, None}}

\* The data of an update are not None.
ASSUME BillingEditAssumption ==
  /\ None \notin SettlementEdit \cup InvoiceEdit
  /\ None \notin [status : SettlementStatus \cup InvoiceStatus \cup CdrStatus]
  /\ None # [status |-> "PAID", paid |-> TRUE]
  /\ None \notin [session : Session]

\* Sessions and subscriptions of the period, either of which can be left out.
InvoiceScope == [sessions : {Session, {}}, subscriptions : Fee \cup {0}]

CreateInvoice(c) ==
  \E i \in Unused(Invoice), input \in InvoiceInput : Decide(c, <<Insert(i, input)>>)

GenerateInvoice(c) ==
  \E i \in Unused(Invoice), scope \in InvoiceScope :
    Decide(c, <<Insert(i, NewInvoice("PENDING", Total(scope.sessions) + scope.subscriptions))>>)

UpdateInvoice(c) ==
  \E i \in Rows(Invoice), edit \in InvoiceEdit : Decide(c, <<Overwrite(i, edit)>>)

DeleteInvoice(c) ==
  \E i \in Rows(Invoice) : Status(i) # "PAID" /\ Decide(c, <<Delete(i)>>)

MarkAsPaid(c) ==
  \E i \in Rows(Invoice) :
    Status(i) # "PAID" /\ Decide(c, <<Put(i, [status |-> "PAID", paid |-> TRUE])>>)

\* A paid invoice can be made overdue.
Mutant_MayBeOverdue(i) == TRUE

MayBeOverdue(i) == Status(i) # "PAID"

MarkAsOverdue(c) ==
  \E i \in Rows(Invoice) :
    MayBeOverdue(i) /\ Decide(c, <<Put(i, [status |-> "OVERDUE"])>>)

\* The sweep reads the pending invoices past their date and updates them one by one.
CheckOverdueInvoices(c) ==
  \E late \in SUBSET {i \in Rows(Invoice) : Status(i) = "PENDING"} :
    LET s == SetToSeq(late)
    IN Decide(c, [k \in 1..Len(s) |-> Put(s[k], [status |-> "OVERDUE"])])

-------------------------------------------------------------------------------
SettlementsNext(c) ==
  \/ CreateSettlement(c) \/ GenerateSettlement(c) \/ UpdateSettlement(c) \/ DeleteSettlement(c)
  \/ ProcessSettlement(c) \/ DisputeSettlement(c)

ReconciliationNext(c) == AutoReconcile(c) \/ MatchSession(c) \/ AcknowledgeCdrs(c)

InvoicesNext(c) ==
  \/ CreateInvoice(c) \/ GenerateInvoice(c) \/ UpdateInvoice(c) \/ DeleteInvoice(c)
  \/ MarkAsPaid(c) \/ MarkAsOverdue(c) \/ CheckOverdueInvoices(c)

\* The payments, and the three services that work on them or beside them.
MoneyNext(c) ==
  \/ PaymentsNext(c) \/ GetExchangeRate(c)
  \/ SettlementsNext(c) \/ ReconciliationNext(c) \/ InvoicesNext(c)

MoneySpec ==
  /\ CallsInit(NoBilling)
  /\ [][(\E c \in Call : MoneyNext(c) \/ Step(c)) \/ CustomersPay \/ RatesExpire \/ Restart]_vars

-------------------------------------------------------------------------------
(* Properties *)

\* Fees and net amount are rounded apart and may miss the gross amount, never by more than
\* a cent.
SplitMissesByACent ==
  \A i \in Rows(Settlement) :
    LET paid == row[i].fees + row[i].net
    IN row[i].gross <= paid + 1 /\ paid <= row[i].gross + 1

\* An invoice with a date of payment that nobody edited is PAID, unless a call that had read
\* it before came late (as the sweep for overdue invoices does).
PaidInvoiceStaysPaid ==
  \A i \in Rows(Invoice) \ raced : row[i].paid => Status(i) = "PAID"

\* What the checks of SettlementsService allow: a settlement can be recorded in any status; it
\* is final when completed, and a failed one is not paid; only what is being processed gets
\* completed.
SettlementMove ==
  ({"absent"} \X SettlementStatus) \cup {<<"PROCESSING", "COMPLETED">>}
    \cup ((SettlementStatus \ {"COMPLETED"}) \X {"absent", "DISPUTED"})
    \cup ({"PENDING", "PROCESSING", "DISPUTED"} \X {"PROCESSING"})

SettlementLife ==
  INSTANCE Lifecycle WITH
    Item <- Settlement, Stage <- SettlementStatus \cup {"absent"}, Absent <- "absent",
    Move <- SettlementMove,
    stage <- [i \in Settlement |-> IF row[i] = None THEN "absent" ELSE Status(i)],
    doubtful <- raced \cap Settlement

\* Settlements go through these statuses, though each method checks in one query and writes in
\* later ones, unless an administrator's edit or a method that came late wrote over what it did
\* not know (settlements.service.ts:201).
SettlementFollowsItsLife == SettlementLife!Spec
===============================================================================
