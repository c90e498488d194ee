-------------------------------- MODULE Pricing --------------------------------
(***************************************************************************)
(* PricingService and DynamicPricingService: the tariff of one station,    *)
(* its rules, and the prices they come to.                                 *)
(*                                                                         *)
(* Money is in units small enough for every product below to be whole;     *)
(* factors are in percent.  What a client writes in a rule is one of a few *)
(* records.                                                                *)
(***************************************************************************)
EXTENDS Subscriptions, Integers, SequencesExt

CONSTANTS
  Tariff, Rule,  \* rows of Pricing and PricingRule
  Rate,          \* [flat, kwh, minute]: what a tariff asks
  Terms,         \* [type, priority, from, to, plan, least, kind, on, value, cap]: what a rule says
  Hour,          \* hours at which prices are asked for
  Energy,        \* amounts of energy in kWh
  Benefit        \* [free, percent]: kWh that are free, and a discount, of a plan

RateRow == [flat : Nat, kwh : Nat, minute : Nat]

\* None is no hour and no plan; 0 is no least energy and no cap.
TermsRow ==
  [type : {"TIME_OF_USE", "PROMOTIONAL"}, priority : Nat,
   from : 0..23 \cup {None}, to : 0..23 \cup {None}, plan : Plan \cup {None}, least : Nat,
   kind : {"multiplier", "fixed", "discount", "override"},
   on : {"energy", "time", "total"}, value : Nat, cap : Nat]

TariffRow == [rate : Rate]

\* A rule is valid from a date, now, or until a date that is over.
RuleRow == [tariff : Tariff, terms : Terms, active : BOOLEAN, time : {"early", "now", "late"}]

\* What a client can write in a rule later.
RuleFields == [terms : Terms, active : BOOLEAN \cup {None}]

ASSUME PricingAssumption ==
  /\ Rate \subseteq RateRow /\ Terms \subseteq TermsRow
  /\ Energy \subseteq Nat /\ Benefit \subseteq [free : Nat, percent : 0..100]
  /\ Tariff \cup Rule \subseteq Id /\ Tariff \cap Rule = {} /\ IsFiniteSet(Rule)
  /\ None # NoField /\ None \notin Terms /\ None \notin TariffRow \cup RuleRow
  /\ None \notin [active : BOOLEAN] \cup {Given(fields) : fields \in RuleFields}

HundredTo[n \in Nat] == IF n = 0 THEN 1 ELSE 100 * HundredTo[n - 1]

\* Units so small that a rate stays whole when every rule is a factor of it.
ASSUME UnitAssumption ==
  \A rate \in Rate : \A part \in {"kwh", "minute"} : rate[part] % HundredTo[Cardinality(Rule)] = 0

PricingRows(records) ==
  /\ \A t \in Tariff : records[t] \in TariffRow \cup {None}
  /\ \A r \in Rule : records[r] \in RuleRow \cup {None}

-------------------------------------------------------------------------------
(* The tables *)

CreatePricing(c) ==
  \E rate \in Rate : Rows(Tariff) = {} /\ Decide(c, <<Then("price", [rate |-> rate])>>)

\* A station has one tariff: the database refuses another one.
InsertPricing(c) ==
  /\ At(c, "price") /\ Rows(Tariff) = {}
  /\ \E t \in Unused(Tariff) : Perform(c, "price", t, Subject(c), <<>>)

UpdatePricing(c) ==
  \E t \in Rows(Tariff), rate \in Rate : Decide(c, <<Overwrite(t, [rate |-> rate])>>)

DeletePricing(c) == \E t \in Rows(Tariff) : Decide(c, <<Then("drop tariff", t)>>)

\* The rules go with the tariff, those made in the meantime as well.
DropPricing(c) ==
  LET t == Subject(c)
  IN /\ At(c, "drop tariff") /\ row[t] # None
     /\ row' = [i \in Id |-> IF i = t \/ (i \in Rows(Rule) /\ row[i].tariff = t)
                             THEN None ELSE row[i]]
     /\ todo' = [todo EXCEPT ![c] = <<>>]
     /\ UNCHANGED history

RuleInput(t) == [tariff : {t}, terms : Terms, active : BOOLEAN, time : {"early", "now"}]

RuleEdit == {Given(fields) : fields \in RuleFields}

CreateRule(c) ==
  \E r \in Unused(Rule), t \in Rows(Tariff) : \E input \in RuleInput(t) :
    Decide(c, <<Both(Insert(r, input), Exists(t))>>)

UpdateRule(c) == \E r \in Rows(Rule), edit \in RuleEdit : Decide(c, <<Overwrite(r, edit)>>)

DeleteRule(c) == \E r \in Rows(Rule) : Decide(c, <<Delete(r)>>)

\* The opposite of what was read: two toggles at once are one.
ToggleRule(c) == \E r \in Rows(Rule) : Decide(c, <<Put(r, [active |-> ~row[r].active])>>)

RuleGoesOn(r) ==
  /\ row[r] # None
  /\ \/ row[r].time = "early" /\ Outside(r, [row[r] EXCEPT !.time = "now"])
     \/ row[r].time = "now" /\ Outside(r, [row[r] EXCEPT !.time = "late"])

PricingNext(c) ==
  \/ CreatePricing(c) \/ InsertPricing(c) \/ UpdatePricing(c) \/ DeletePricing(c) \/ DropPricing(c)
  \/ CreateRule(c) \/ UpdateRule(c) \/ DeleteRule(c) \/ ToggleRule(c)

TimePasses == \E r \in Rule : RuleGoesOn(r)

\* The service on its own.
PricingSpec ==
  CallsInit(NoField)
  /\ [][(\E c \in Call : PricingNext(c) \/ Step(c)) \/ TimePasses \/ Restart]_vars

-------------------------------------------------------------------------------
(* What a session costs *)

\* From an hour to another, which may be one of the next day; None stands for no hour.
EvaluateTimeConditions(terms, hour) ==
  None \notin {terms.from, terms.to} =>
    IF terms.from <= terms.to THEN hour \in terms.from..(terms.to - 1)
    ELSE hour >= terms.from \/ hour < terms.to

\* plan is the plan of the active subscription of the user, or None.
EvaluateConditions(terms, hour, kwh, plan) ==
  /\ EvaluateTimeConditions(terms, hour)
  /\ terms.plan \in {None, plan}
  /\ kwh >= terms.least

Times(p, cost) == (p * cost) \div 100

GoesTo(terms, part) == terms.on \in {part, "total"}

\* There is no cap.
Mutant_Capped(terms, cost, off) == off

\* A discount that is cut in proportion where it takes off more than its cap.
Capped(terms, cost, off) ==
  LET saved == cost.energy - off.energy + cost.time - off.time
  IN IF terms.cap # 0 /\ saved > terms.cap
     THEN [part \in {"energy", "time"} |->
             cost[part] - ((cost[part] - off[part]) * terms.cap) \div saved]
     ELSE off

\* The costs of energy and time after a rule.  A fixed amount goes to the energy, whatever it
\* is said to go to; an override of the time does nothing.
ApplyAdjustment(terms, cost) ==
  LET Scaled(p) == [part \in {"energy", "time"} |->
                      IF GoesTo(terms, part) THEN Times(p, cost[part]) ELSE cost[part]]
  IN CASE terms.kind = "multiplier" -> Scaled(terms.value)
       [] terms.kind = "fixed" -> [cost EXCEPT !.energy = @ + terms.value]
       [] terms.kind = "discount" -> Capped(terms, cost, Scaled(100 - terms.value))
       [] terms.kind = "override" ->
            IF GoesTo(terms, "energy") THEN [cost EXCEPT !.energy = terms.value] ELSE cost

Base(t, kwh, minutes) ==
  [energy |-> kwh * row[t].rate.kwh, time |-> minutes * row[t].rate.minute]

\* Orders in which the database may return rules by priority.
ByPriority(rules) ==
  {order \in SetToSeqs(rules) :
     \A i, j \in DOMAIN order : i < j => row[order[i]].terms.priority >= row[order[j]].terms.priority}

InForce(t) == {r \in Rows(Rule) : row[r].tariff = t /\ row[r].active /\ row[r].time = "now"}

CalculatePrice(t, order, hour, kwh, minutes, plan) ==
  FoldLeft(LAMBDA cost, r : IF EvaluateConditions(row[r].terms, hour, kwh, plan)
                            THEN ApplyAdjustment(row[r].terms, cost) ELSE cost,
           Base(t, kwh, minutes), order)

\* With the benefits of a plan: the energy is free if it is no more than that, and the discount
\* is of the whole costs even then.
PriceOf(t, cost, benefit, kwh) ==
  LET subtotal == row[t].rate.flat + cost.energy + cost.time
      discount == (IF benefit.free # 0 /\ kwh <= benefit.free THEN cost.energy ELSE 0)
                  + Times(benefit.percent, cost.energy + cost.time)
  IN IF subtotal < discount THEN 0 ELSE subtotal - discount

\* Rules that are switched off, and of any type.
Mutant_Shown(t) == {r \in Rows(Rule) : row[r].tariff = t /\ row[r].time # "early"}

\* Rules of the rate shown: those that are over still count.
Shown(t) ==
  {r \in Rows(Rule) : /\ row[r].tariff = t /\ row[r].active /\ row[r].time # "early"
                      /\ row[r].terms.type = "TIME_OF_USE"}

GetCurrentRate(t, order, hour) ==
  FoldLeft(LAMBDA rate, r :
             IF ~EvaluateTimeConditions(row[r].terms, hour) THEN rate
             ELSE CASE row[r].terms.kind = "multiplier" ->
                         [part \in {"energy", "time"} |-> Times(row[r].terms.value, rate[part])]
                    [] row[r].terms.kind = "override" -> [rate EXCEPT !.energy = row[r].terms.value]
                    [] OTHER -> rate,
           Base(t, 1, 1), order)

-------------------------------------------------------------------------------
(* Properties *)

\* Terms for which the two services are meant to agree: a factor of the whole price at certain
\* hours.
Plain(terms) ==
  /\ terms.type = "TIME_OF_USE" /\ terms.kind = "multiplier" /\ terms.on = "total"
  /\ terms.plan = None /\ terms.least = 0

\* The rate a station shows is what a session is charged by, at every hour, as long as its
\* rules are factors of the time of use and none of them is over; in whatever order the
\* database gives the rules to either.
ShownRateIsCharged ==
  \A t \in Rows(Tariff) :
    (\A r \in Rows(Rule) : row[r].active => Plain(row[r].terms) /\ row[r].time # "late") =>
      \A hour \in Hour, shown \in SetToSeqs(Shown(t)), charged \in ByPriority(InForce(t)) :
        GetCurrentRate(t, shown, hour) = CalculatePrice(t, charged, hour, 1, 1, None)

SumOfCaps(order) == FoldLeft(LAMBDA sum, r : sum + row[r].terms.cap, 0, order)

\* Whatever the order of the rules: if each in force takes off a part of the price, the price is
\* no less than nothing and no more than what the tariff asks, the benefits of a plan lower it
\* further, and discounts with caps do not take off more than these.  (A fixed amount can make
\* the energy cost less than nothing, and what is free then is dearer; so can a discount of
\* more than the price, which nothing refuses.)
DiscountsLowerThePrice ==
  \A t \in Rows(Tariff) :
    (\A r \in InForce(t) : row[r].terms.kind = "discount" /\ row[r].terms.value <= 100) =>
      \A order \in ByPriority(InForce(t)), hour \in Hour, kwh \in Energy, benefit \in Benefit :
        LET cost == CalculatePrice(t, order, hour, kwh, 10, None)
            asked == Base(t, kwh, 10)
            off == asked.energy + asked.time - cost.energy - cost.time
            none == [free |-> 0, percent |-> 0]
        IN /\ 0 <= cost.energy /\ 0 <= cost.time /\ 0 <= off
           /\ PriceOf(t, cost, benefit, kwh) <= PriceOf(t, cost, none, kwh)
           /\ (\A r \in InForce(t) : row[r].terms.cap # 0) =>
                off <= SumOfCaps(order)
===============================================================================
