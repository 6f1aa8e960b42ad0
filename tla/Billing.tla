------------------------------ MODULE Billing ------------------------------
(***************************************************************************)
(* How a payment becomes a plan: the routes that open a Stripe checkout or *)
(* portal for the user's Stripe customer, and the webhooks in which Stripe *)
(* and RevenueCat report the subscription, which write the subscriptions   *)
(* row and then the device_entitlements row.                               *)
(*                                                                         *)
(* One user.  A provider may deliver an event several times, at once, and  *)
(* in any order.  A customer is its place in the order of creation; a      *)
(* RevenueCat event names the user and no customer (0).  An awaited call   *)
(* is a step boundary.  What a price or product means is part of the kind  *)
(* of the event.                                                           *)
(***************************************************************************)
EXTENDS Integers

CONSTANTS
  MaxEvents,     \* bound on the events of the providers
  MaxDeliveries, \* bound on the calls of the two webhook routes
  MaxCheckouts,  \* bound on the calls of the checkout and portal routes
  MaxFailures    \* bound on failed calls and restarts

VARIABLES
  customer,    \* billing_customers: the customer of the user, or 0
  customers,   \* customers created at Stripe so far
  checkout,    \* where each call of the checkout routes stands
  using,       \* the customer each of them uses, or 0
  kind,        \* what each event says, "none" before it exists
  of,          \* its customer; 0 for RevenueCat
  recorded,    \* billing_webhook_events
  delivery,    \* where each call of a webhook route stands
  carries,     \* the event it handles, or 0
  plan,        \* subscriptions: plan_code is not "free"; the status, which is only
               \*   reported, is left out
  raised,      \* device_entitlements: max_agents is the paid limit
  crossed,     \* an update of both rows began or ended inside another one
  halved,      \* an update of both rows failed between them
  doubled,     \* two checkout calls found no customer before either had stored one
  failures

stripeVars   == <<customers, kind, of>>
checkoutVars == <<customer, checkout, using, doubled>>
webhookVars  == <<recorded, delivery, carries>>
planVars     == <<plan, raised, crossed, halved>>
billingVars  == <<stripeVars, checkoutVars, webhookVars, planVars, failures>>

\* Events and calls are numbered in the order they come.
Events     == 1 .. MaxEvents
Deliveries == 1 .. MaxDeliveries
Checkouts  == 1 .. MaxCheckouts

\* "free": a subscription that has ended, or whose price or product is not a paid one.
\* An event that says nothing of a subscription is answered once it is recorded, and is
\* left out.
Kind == {"paying", "free"}
CheckoutStage == {"idle", "creating", "storing", "opening", "open", "portal", "failed"}
DeliveryStage == {"idle", "recorded", "mapped", "planned", "over"}

-----------------------------------------------------------------------------
(* Checkout and portal.                                                     *)

\* Mutant: the customer on file is not looked up.
CustomerOnFileIgnored == 0

CustomerOnFile == customer

\* ensureStripeCustomerForUser: the customer on file, or a new one.
LookUpCustomer(k) ==
  /\ checkout[k] = "idle" /\ \A j \in 1 .. k - 1 : checkout[j] # "idle"
  /\ using' = [using EXCEPT ![k] = CustomerOnFile]
  /\ checkout' = [checkout EXCEPT ![k] = IF CustomerOnFile = 0 THEN "creating" ELSE "opening"]
  /\ doubled' = (doubled \/ /\ CustomerOnFile = 0
                            /\ \E j \in Checkouts : checkout[j] \in {"creating", "storing"})
  /\ UNCHANGED <<stripeVars, customer, webhookVars, planVars, failures>>

CreateStripeCustomer(k) ==
  /\ checkout[k] = "creating"
  /\ customers' = customers + 1
  /\ using' = [using EXCEPT ![k] = customers']
  /\ checkout' = [checkout EXCEPT ![k] = "storing"]
  /\ UNCHANGED <<kind, of, customer, doubled, webhookVars, planVars, failures>>

UpsertStripeCustomer(k) ==
  /\ checkout[k] = "storing"
  /\ customer' = using[k]
  /\ checkout' = [checkout EXCEPT ![k] = "opening"]
  /\ UNCHANGED <<stripeVars, using, doubled, webhookVars, planVars, failures>>

\* The call of Stripe succeeds and the route answers with its address.
SessionOpened(k, as) ==
  /\ checkout[k] = "opening"
  /\ checkout' = [checkout EXCEPT ![k] = as]
  /\ UNCHANGED <<stripeVars, customer, using, doubled, webhookVars, planVars, failures>>

OpenCheckoutSession(k) == SessionOpened(k, "open")

\* The portal shows the customer what it subscribed to in a checkout.
OpenPortalSession(k) == SessionOpened(k, "portal")

\* A call of Stripe or of the database fails: the route answers 500.
CheckoutFails(k) ==
  /\ checkout[k] \in {"creating", "storing", "opening"}
  /\ failures < MaxFailures
  /\ failures' = failures + 1
  /\ checkout' = [checkout EXCEPT ![k] = "failed"]
  /\ using' = [using EXCEPT ![k] = 0]
  /\ UNCHANGED <<stripeVars, customer, doubled, webhookVars, planVars>>

\* The customer of an open checkout subscribes, or changes that subscription, or the
\* user subscribes in the mobile store.
ProviderReports(e) ==
  /\ kind[e] = "none" /\ \A f \in 1 .. e - 1 : kind[f] # "none"
  /\ \E c \in {0} \union {using[k] : k \in {j \in Checkouts : checkout[j] = "open"}},
       what \in Kind :
       /\ kind' = [kind EXCEPT ![e] = what]
       /\ of' = [of EXCEPT ![e] = c]
  /\ UNCHANGED <<customers, checkoutVars, webhookVars, planVars, failures>>

-----------------------------------------------------------------------------
(* The webhooks.                                                            *)

\* What an event says of the two columns.
Paid(what) == what = "paying"

\* Mutant: the limit is raised by any subscription.
RaisesAlways(what) == what \in Kind

RaisesLimit(what) == Paid(what)

\* The handler of a delivery answers, or is left.
End(d) ==
  /\ delivery' = [delivery EXCEPT ![d] = "over"]
  /\ carries' = [carries EXCEPT ![d] = 0]

\* tryRecordBillingWebhookEvent, before anything is done with the event.
RecordEvent(d, e) ==
  /\ delivery[d] = "idle" /\ \A b \in 1 .. d - 1 : delivery[b] # "idle"
  /\ kind[e] # "none"
  /\ recorded' = recorded \union {e}
  /\ IF e \in recorded
     THEN End(d)
     ELSE /\ delivery' = [delivery EXCEPT ![d] = "recorded"]
          /\ carries' = [carries EXCEPT ![d] = e]
  /\ UNCHANGED <<stripeVars, checkoutVars, planVars, failures>>

StripeWebhook(d, e)     == of[e] # 0 /\ RecordEvent(d, e)
RevenueCatWebhook(d, e) == of[e] = 0 /\ RecordEvent(d, e)

\* An event of an unknown customer is answered 200.
MapUser(d, known) ==
  /\ IF known
     THEN delivery' = [delivery EXCEPT ![d] = "mapped"] /\ UNCHANGED carries
     ELSE End(d)
  /\ UNCHANGED <<stripeVars, checkoutVars, recorded, planVars, failures>>

\* getUserByStripeCustomerId: the customer is the one on file.
MapStripeUser(d) ==
  /\ delivery[d] = "recorded" /\ of[carries[d]] # 0
  /\ MapUser(d, of[carries[d]] = customer)

\* One of the ids of a RevenueCat event is the user's.
MapRevenueCatUser(d) ==
  /\ delivery[d] = "recorded" /\ of[carries[d]] = 0
  /\ MapUser(d, TRUE)

\* applyBillingSubscriptionUpdate: first the subscription, ...
ApplyPlan(d) ==
  /\ delivery[d] = "mapped"
  /\ plan' = Paid(kind[carries[d]])
  /\ crossed' = (crossed \/ \E b \in Deliveries \ {d} : delivery[b] = "planned")
  /\ delivery' = [delivery EXCEPT ![d] = "planned"]
  /\ UNCHANGED <<stripeVars, checkoutVars, recorded, carries, raised, halved, failures>>

\* ... then the limit.
ApplyLimit(d) ==
  /\ delivery[d] = "planned"
  /\ raised' = RaisesLimit(kind[carries[d]])
  /\ End(d)
  /\ UNCHANGED <<stripeVars, checkoutVars, recorded, plan, crossed, halved, failures>>

\* A query of the Stripe webhook fails: it answers 500.
WebhookFails(d) ==
  /\ delivery[d] \in {"recorded", "mapped", "planned"} /\ of[carries[d]] # 0
  /\ failures < MaxFailures
  /\ failures' = failures + 1
  /\ End(d)
  /\ halved' = (halved \/ delivery[d] = "planned")
  /\ UNCHANGED <<stripeVars, checkoutVars, recorded, plan, raised, crossed>>

\* control-api restarts, because it was stopped or because a query of a handler
\* that catches nothing, as RevenueCat's, failed.
RestartBilling ==
  /\ failures < MaxFailures
  /\ failures' = failures + 1
  /\ delivery' = [d \in Deliveries |->
       IF delivery[d] = "idle" THEN "idle" ELSE "over"]
  /\ carries' = [d \in Deliveries |-> 0]
  /\ checkout' = [k \in Checkouts |->
       IF checkout[k] \in {"idle", "open", "portal"} THEN checkout[k] ELSE "failed"]
  /\ using' = [k \in Checkouts |-> IF checkout[k] \in {"open", "portal"} THEN using[k] ELSE 0]
  /\ halved' = (halved \/ \E d \in Deliveries : delivery[d] = "planned")
  /\ UNCHANGED <<stripeVars, customer, doubled, recorded, plan, raised, crossed>>

Init ==
  /\ customer = 0 /\ customers = 0
  /\ checkout = [k \in Checkouts |-> "idle"] /\ using = [k \in Checkouts |-> 0]
  /\ kind = [e \in Events |-> "none"] /\ of = [e \in Events |-> 0]
  /\ recorded = {}
  /\ delivery = [d \in Deliveries |-> "idle"]
  /\ carries = [d \in Deliveries |-> 0]
  /\ plan = FALSE /\ raised = FALSE
  /\ crossed = FALSE /\ halved = FALSE /\ doubled = FALSE /\ failures = 0

Next ==
  \/ \E k \in Checkouts :
       \/ LookUpCustomer(k) \/ CreateStripeCustomer(k) \/ UpsertStripeCustomer(k)
       \/ OpenCheckoutSession(k) \/ OpenPortalSession(k) \/ CheckoutFails(k)
  \/ \E e \in Events : ProviderReports(e)
  \/ \E d \in Deliveries :
       \/ \E e \in Events : StripeWebhook(d, e) \/ RevenueCatWebhook(d, e)
       \/ MapStripeUser(d) \/ MapRevenueCatUser(d) \/ ApplyPlan(d) \/ ApplyLimit(d) \/ WebhookFails(d)
  \/ RestartBilling

Spec == Init /\ [][Next]_billingVars

-----------------------------------------------------------------------------
TypeOK ==
  /\ {customer, customers} \subseteq 0 .. MaxCheckouts
  /\ checkout \in [Checkouts -> CheckoutStage]
  /\ using \in [Checkouts -> 0 .. MaxCheckouts]
  /\ kind \in [Events -> Kind \union {"none"}]
  /\ of \in [Events -> 0 .. MaxCheckouts]
  /\ recorded \subseteq Events
  /\ delivery \in [Deliveries -> DeliveryStage] /\ carries \in [Deliveries -> 0 .. MaxEvents]
  /\ {plan, raised, crossed, halved, doubled} \subseteq BOOLEAN
  /\ failures \in 0 .. MaxFailures

\* The limit on agents belongs to the plan on file, whatever the order and the number
\* of the events, once no webhook is between the two rows.  The exceptions: two
\* webhooks that wrote them at the same time, and one that failed between them, which
\* no redelivery repairs because the event is already recorded.
PlanMatchesLimit ==
  ((\A d \in Deliveries : delivery[d] # "planned") /\ ~crossed /\ ~halved) => plan = raised

\* Whoever pays in a session that a checkout route opened is the customer whose events
\* the webhook maps to the user, however the routes interleave and fail, unless two of
\* them found none on file at the same time: then the payments of one are ignored.
SessionIsMapped ==
  ~doubled => \A k \in Checkouts : checkout[k] \in {"open", "portal"} => using[k] = customer
=============================================================================
