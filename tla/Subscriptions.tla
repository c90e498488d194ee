----------------------------- MODULE Subscriptions -----------------------------
(***************************************************************************)
(* SubscriptionService: plans and the subscriptions of one user.  (Those   *)
(* of several users have nothing to do with one another.)                  *)
(***************************************************************************)
EXTENDS Calls

CONSTANTS
  Plan, Subscription,  \* rows of SubscriptionPlan and Subscription
  MaxPeriods           \* bound: periods a subscription is renewed to

ASSUME MaxPeriodsAssumption == MaxPeriods \in Nat \ {0}

\* No code sets PAST_DUE.
SubscriptionStatus == {"ACTIVE", "CANCELLED", "PAUSED"}

PlanRow == [active : BOOLEAN]
SubscriptionRow ==
  [plan : Plan, status : SubscriptionStatus, ends : 1..MaxPeriods, cancelled : BOOLEAN]

SubscriptionsRows(records) ==
  /\ \A p \in Plan : records[p] \in PlanRow \cup {None}
  /\ \A s \in Subscription : records[s] \in SubscriptionRow \cup {None}

Subscribed(p) == {s \in Rows(Subscription) : row[s].plan = p}

ActiveFor(p) == {s \in Subscribed(p) : row[s].status = "ACTIVE"}

-------------------------------------------------------------------------------
(* Plans *)

PlanInput == PlanRow
PlanEdit == {Given(fields) : fields \in [active : BOOLEAN \cup {None}]}

\* What methods write in a subscription that is there.
SubscriptionFields ==
  [status : SubscriptionStatus] \cup [status : SubscriptionStatus, cancelled : BOOLEAN]
  \cup [ends : 1..MaxPeriods]

ASSUME SubscriptionsAssumption ==
  /\ Plan \cup Subscription \subseteq Id /\ Plan \cap Subscription = {}
  /\ None # NoField /\ None \notin PlanRow \cup SubscriptionRow \cup PlanEdit \cup SubscriptionFields

CreatePlan(c) ==
  \E p \in Unused(Plan), input \in PlanInput : Decide(c, <<Insert(p, input)>>)

UpdatePlan(c) ==
  \E p \in Rows(Plan), edit \in PlanEdit : Decide(c, <<Overwrite(p, edit)>>)

\* A plan nobody is actively subscribed to goes.
DeletePlan(c) == \E p \in Rows(Plan) : ActiveFor(p) = {} /\ Decide(c, <<Then("drop plan", p)>>)

\* The database refuses as long as a subscription refers to the plan, of whatever status.
DropPlan(c) ==
  LET p == Subject(c)
  IN /\ At(c, "drop plan") /\ Subscribed(p) = {}
     /\ Perform(c, "drop plan", p, None, <<>>)

-------------------------------------------------------------------------------
(* Subscriptions *)

\* A subscription that was cancelled is not asked for either.
Mutant_MaySubscribe(p) == row[p].active

MaySubscribe(p) == row[p].active /\ ActiveFor(p) = {}

NewSubscription(p) == [plan |-> p, status |-> "ACTIVE", ends |-> 1, cancelled |-> FALSE]

Subscribe(c) ==
  \E s \in Unused(Subscription), p \in Rows(Plan) :
    MaySubscribe(p) /\ Decide(c, <<Both(Insert(s, NewSubscription(p)), Exists(p))>>)

\* A method for subscriptions of this status.
ChangeSubscription(c, status, fields) ==
  \E s \in Rows(Subscription) :
    row[s].status = status /\ Decide(c, <<Put(s, fields)>>)

CancelSubscription(c) == ChangeSubscription(c, "ACTIVE", [status |-> "CANCELLED", cancelled |-> TRUE])

\* From the end of the period that was read to the end of the next.
RenewSubscription(c) ==
  \E s \in Rows(Subscription) :
    /\ row[s].status = "ACTIVE" /\ row[s].ends < MaxPeriods
    /\ Decide(c, <<Put(s, [ends |-> row[s].ends + 1])>>)

PauseSubscription(c) == ChangeSubscription(c, "ACTIVE", [status |-> "PAUSED"])

\* Another subscription to the plan, made while this one was paused, is no obstacle.
ResumeSubscription(c) == ChangeSubscription(c, "PAUSED", [status |-> "ACTIVE"])

SubscriptionsNext(c) ==
  \/ CreatePlan(c) \/ UpdatePlan(c) \/ DeletePlan(c) \/ DropPlan(c)
  \/ Subscribe(c) \/ CancelSubscription(c) \/ RenewSubscription(c)
  \/ PauseSubscription(c) \/ ResumeSubscription(c)

\* The service on its own.
SubscriptionsSpec ==
  CallsInit(NoField) /\ [][(\E c \in Call : SubscriptionsNext(c) \/ Step(c)) \/ Restart]_vars

-------------------------------------------------------------------------------
(* Properties *)

\* A second active subscription to a plan comes about only when a paused one is resumed, when
\* a call that had read it before comes late, or when it was asked for while other calls wrote.
SecondIsResumedOrCrowded ==
  [][\A s \in Subscription, other \in Rows(Subscription) :
       /\ s # other /\ row[other].status = "ACTIVE"
       /\ row[s] = None /\ row'[s] # None /\ row'[s].plan = row[other].plan
       => s \in crowded']_vars
===============================================================================
