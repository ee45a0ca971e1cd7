---------------------------- MODULE TenantBilling ----------------------------
(***************************************************************************)
(* The billing columns of one firm's row: the trial and its daily job, the *)
(* checkout that opens a Stripe session, the webhooks by which Stripe      *)
(* reports what became of the subscription, and the edits that save the    *)
(* whole row (billing-stripe.service.ts, billing-mail.scheduler.ts,        *)
(* tenants.service.ts, admin.service.ts).                                  *)
(*                                                                         *)
(* A request runs alone between two awaits, and each action is one such    *)
(* stretch.  A save writes back every column of the row as loaded.         *)
(*                                                                         *)
(* Stripe sends an event again until it is answered, and promises no       *)
(* order.                                                                  *)
(***************************************************************************)
EXTENDS Naturals, FiniteSets

CONSTANTS Requests,     \* request slots: how many run at once
          MaxSessions,  \* bound on the checkout sessions
          MaxCustomers, \* bound on the Stripe customers
          MaxNews,      \* bound on the changes Stripe reports
          OwnersLeave,  \* TRUE when the owner's account may be deleted
          Faults        \* TRUE when calls may fail, and events come again and
                        \* out of order

ASSUME BoundsAssumption == {MaxSessions, MaxCustomers, MaxNews} \subseteq Nat
ASSUME FaultsAssumption == Faults \in BOOLEAN
ASSUME OwnersAssumption == OwnersLeave \in BOOLEAN

VARIABLES tenant,    \* the firm's row
          customers, \* number of customers created at Stripe
          sessions,  \* checkout sessions, and the subscriptions they become
          news,      \* number of changes Stripe has reported
          due,       \* events Stripe has still to deliver
          left,      \* what is left of the trial
          told,      \* the mails on the trial the owner got
          owner,     \* the firm has an owner, whose account was not deleted
          req,       \* the requests in progress
          legacy     \* did the firm exist before billing?  never changes

stripe == <<customers, sessions, news>>
rest   == <<left, told, owner, legacy>>
vars   == <<tenant, stripe, due, rest, req>>

-----------------------------------------------------------------------------
(* Types.                                                                  *)

\* 0 is the NULL of an id.
Sessions  == 1..MaxSessions
Customers == 1..MaxCustomers

Row == [status       : {"trial", "active", "past_due", "cancelled", "expired"},
        customer     : 0..MaxCustomers,
        subscription : 0..MaxSessions,  \* named by the session it came from
        cancels      : BOOLEAN,         \* billing_cancels_at is set
        reminded     : BOOLEAN,         \* trial_ending_email_sent_at is set
        notified     : BOOLEAN]         \* trial_expired_email_sent_at is set

NewRow == [status |-> "trial", customer |-> 0, subscription |-> 0,
           cancels |-> FALSE, reminded |-> FALSE, notified |-> FALSE]

\* Subscriptions that exist at Stripe.  "past_due" stands also for unpaid,
\* incomplete and paused, "active" for trialing.
Ended == {"canceled", "incomplete_expired"}

SubscriptionStates == {"active", "past_due"} \cup Ended

Session == [state      : {"none", "open"} \cup SubscriptionStates,
            customer   : 0..MaxCustomers,
            cancelling : BOOLEAN,       \* to be cancelled at the period's end
            changed    : 0..MaxNews]    \* the last change reported of it

NoSession == [state |-> "none", customer |-> 0, cancelling |-> FALSE,
              changed |-> 0]

\* An event carries the subscription as it was.  "changed" is
\* customer.subscription.updated and deleted, "paid" and "failed" are
\* invoice.paid and invoice.payment_failed.
Event == [kind         : {"completed", "changed", "paid", "failed"},
          subscription : Sessions,
          state        : SubscriptionStates,
          cancelling   : BOOLEAN,
          nr           : 1..MaxNews]

NoEvent == [kind |-> "none"]

Request == [at    : {"idle", "createCustomer", "saveCustomer", "createSession",
                     "retrieve", "saveEvent", "mailEnding", "mailExpired",
                     "saveTrial", "saveEdit"},
            copy  : Row,                \* the row it loaded
            event : Event \cup {NoEvent}]

Idle == [at |-> "idle", copy |-> NewRow, event |-> NoEvent]

\* A new firm, as startTrialForNewTenant saves it, or one the migration
\* found and made active.
Init ==
  /\ legacy \in BOOLEAN
  /\ tenant = [NewRow EXCEPT !.status = IF legacy THEN "active" ELSE "trial"]
  /\ customers = 0
  /\ sessions = [n \in Sessions |-> NoSession]
  /\ news = 0
  /\ due = {}
  /\ left = "long"
  /\ told = {}
  /\ owner = TRUE
  /\ req = [p \in Requests |-> Idle]

-----------------------------------------------------------------------------
(* Requests.                                                               *)

At(p, place) == req[p].at = place

Goes(p, r) == req' = [req EXCEPT ![p] = r]

-----------------------------------------------------------------------------
(* Stripe and the firm's owner, external.                                  *)

Subscriptions == {n \in Sessions : sessions[n].state \in SubscriptionStates}

Live(n) == sessions[n].state \in {"active", "past_due"}

\* Subscription n becomes s, and events of these kinds report it.
\* Bound: MaxNews.
Reports(n, s, kinds) ==
  /\ news < MaxNews
  /\ news' = news + 1
  /\ sessions' = [sessions EXCEPT ![n] = [s EXCEPT !.changed = news + 1]]
  /\ due' = due \cup {[kind |-> k, subscription |-> n, state |-> s.state,
                       cancelling |-> s.cancelling, nr |-> news + 1] : k \in kinds}
  /\ UNCHANGED <<tenant, customers, rest, req>>

\* The owner pays at checkout.
Pays(n) ==
  /\ sessions[n].state = "open"
  /\ Reports(n, [sessions[n] EXCEPT !.state = "active"],
             {"completed", "changed", "paid"})

\* An invoice is paid, the next one or one that had failed.
InvoicePaid(n) ==
  /\ Live(n)
  /\ Reports(n, [sessions[n] EXCEPT !.state = "active"], {"changed", "paid"})

InvoiceFails(n) ==
  /\ Live(n)
  /\ Reports(n, [sessions[n] EXCEPT !.state = "past_due"], {"changed", "failed"})

\* In the customer portal the owner cancels, or resumes before the period's end.
SwitchesCancelling(n) ==
  /\ Live(n)
  /\ Reports(n, [sessions[n] EXCEPT !.cancelling = ~@], {"changed"})

\* It is cancelled, or its first invoice was never paid.
Ends(n) ==
  /\ Live(n)
  /\ \E state \in Ended :
       /\ state = "incomplete_expired" => sessions[n].state = "past_due"
       /\ Reports(n, [sessions[n] EXCEPT !.state = state], {"changed"})

StripeMoves ==
  \E n \in Sessions : \/ Pays(n)
                      \/ InvoicePaid(n)
                      \/ InvoiceFails(n)
                      \/ SwitchesCancelling(n)
                      \/ Ends(n)

\* The trial runs: more than two days, the second day before its end, the
\* last day, over.
TrialRuns ==
  /\ ~legacy
  /\ \/ left = "long"  /\ left' = "two"
     \/ left = "two"   /\ left' = "one"
     \/ left = "one"   /\ left' = "over"
  /\ UNCHANGED <<tenant, stripe, due, told, owner, legacy, req>>

\* executeAccountDeletion deletes the owner's account, and leaves the firm's row.
\* Bound: OwnersLeave.
OwnerLeaves ==
  /\ OwnersLeave
  /\ owner
  /\ owner' = FALSE
  /\ UNCHANGED <<tenant, stripe, due, left, told, legacy, req>>

-----------------------------------------------------------------------------
(* Checkout.                                                               *)

Unused == {n \in Sessions : sessions[n].state = "none"}

\* createCheckoutSession refuses a firm whose row says it subscribes.
\* Bound: MaxSessions.
CheckoutLoad(p) ==
  /\ At(p, "idle")
  /\ Unused # {}
  /\ ~(tenant.status = "active" /\ tenant.subscription # 0)
  /\ Goes(p, [Idle EXCEPT !.copy = tenant,
                          !.at = IF tenant.customer = 0 THEN "createCustomer"
                                                        ELSE "createSession"])
  /\ UNCHANGED <<tenant, stripe, due, rest>>

\* Bound: MaxCustomers.
CreateCustomer(p) ==
  /\ At(p, "createCustomer")
  /\ customers < MaxCustomers
  /\ customers' = customers + 1
  /\ Goes(p, [req[p] EXCEPT !.at = "saveCustomer", !.copy.customer = customers + 1])
  /\ UNCHANGED <<tenant, sessions, news, due, rest>>

SaveCustomer(p) ==
  /\ At(p, "saveCustomer")
  /\ tenant' = req[p].copy
  /\ Goes(p, [req[p] EXCEPT !.at = "createSession"])
  /\ UNCHANGED <<stripe, due, rest>>

CreateSession(p) ==
  /\ At(p, "createSession")
  /\ \E n \in Unused :
       /\ \A m \in Unused : n <= m
       /\ sessions' = [sessions EXCEPT ![n].state = "open",
                                       ![n].customer = req[p].copy.customer]
  /\ Goes(p, Idle)
  /\ UNCHANGED <<tenant, customers, news, due, rest>>

-----------------------------------------------------------------------------
(* Webhooks.  Every event names the firm, so the firm is found by its id.  *)

\* Mutant: Stripe's spelling of the status is stored.
StatusCopied(state) == state

\* Mutant: a payment that is late ends the subscription.
StatusStrict(state) == IF state = "active" THEN "active" ELSE "cancelled"

\* billingStatusFromSubscription
StatusOf(state) == IF state \in Ended THEN "cancelled" ELSE state

\* Mutant: the scheduled cancellation of an ended subscription is kept.
CancelsStill(state, cancelling) == cancelling

\* cancelsAtFromSubscription
CancelsAt(state, cancelling) == cancelling /\ state # "canceled"

\* Mutant: the customer of the event is not stored.
LinkedNoCustomer(row, n) == [row EXCEPT !.subscription = n]

\* The ids an event brings.
Linked(row, n) ==
  [row EXCEPT !.subscription = n, !.customer = sessions[n].customer]

\* The events of a kind that may arrive next.
Arriving(kind) ==
  {e \in due : e.kind = kind /\ (Faults \/ \A f \in due : e.nr <= f.nr)}

\* Event e arrives, and the row found is changed to this one.
Receives(p, e, row, next) ==
  /\ At(p, "idle")
  /\ Goes(p, [at |-> next, copy |-> row, event |-> e])
  /\ UNCHANGED <<tenant, stripe, due, rest>>

OnCheckoutCompleted(p) ==
  \E e \in Arriving("completed") :
    Receives(p, e, [Linked(tenant, e.subscription) EXCEPT !.status = "active",
                                                          !.cancels = FALSE],
             "retrieve")

OnSubscriptionChanged(p) ==
  \E e \in Arriving("changed") :
    Receives(p, e, [Linked(tenant, e.subscription) EXCEPT
                      !.status  = StatusOf(e.state),
                      !.cancels = CancelsAt(e.state, e.cancelling)],
             "saveEvent")

OnInvoicePaid(p) ==
  \E e \in Arriving("paid") :
    Receives(p, e, [Linked(tenant, e.subscription) EXCEPT !.status = "active"],
             "retrieve")

OnInvoicePaymentFailed(p) ==
  \E e \in Arriving("failed") :
    Receives(p, e, [tenant EXCEPT !.status = "past_due"], "saveEvent")

\* The subscription is asked for as it is now; a failure is passed over.
Retrieve(p) ==
  /\ At(p, "retrieve")
  /\ LET s == sessions[req[p].event.subscription]
     IN \/ Goes(p, [req[p] EXCEPT !.at = "saveEvent",
                      !.copy.cancels = CancelsAt(s.state, s.cancelling)])
        \/ Faults /\ Goes(p, [req[p] EXCEPT !.at = "saveEvent"])
  /\ UNCHANGED <<tenant, stripe, due, rest>>

\* The row is saved.  An event may come again: its answer is lost, or the
\* mail to the owner that follows an invoice's event fails.
SaveEvent(p) ==
  /\ At(p, "saveEvent")
  /\ tenant' = req[p].copy
  /\ due' = IF Faults THEN due ELSE due \ {req[p].event}
  /\ Goes(p, Idle)
  /\ UNCHANGED <<stripe, rest>>

-----------------------------------------------------------------------------
(* The daily job on trials.                                                *)

\* Mutant: a reminder already sent is not looked at.
RemindsAgain(row) == row.status = "trial" /\ left = "two"

ShouldSendTrialEndingEmail(row) ==
  row.status = "trial" /\ ~row.reminded /\ left = "two"

\* Mutant: the wrong column tells whether the notice was sent.
ExpiresUnreminded(row) ==
  row.status = "trial" /\ ~row.reminded /\ left = "over"

\* Mutant: the notice goes out on the last day.
ExpiresEarly(row) ==
  row.status = "trial" /\ ~row.notified /\ left \in {"one", "over"}

ShouldSendTrialExpiredEmail(row) ==
  row.status = "trial" /\ ~row.notified /\ left = "over"

\* The job loads every firm in its trial, and passes over one without an owner.
\* Mails to other firms come before this one's.
RunDailyTrialEmails(p) ==
  /\ At(p, "idle")
  /\ owner
  /\ \/ /\ ShouldSendTrialEndingEmail(tenant)
        /\ Goes(p, [Idle EXCEPT !.at = "mailEnding", !.copy = tenant])
     \/ /\ ShouldSendTrialExpiredEmail(tenant)
        /\ Goes(p, [Idle EXCEPT !.at = "mailExpired", !.copy = tenant])
  /\ UNCHANGED <<tenant, stripe, due, rest>>

MailTrialEnding(p) ==
  /\ At(p, "mailEnding")
  /\ told' = told \cup {"ending"}
  /\ Goes(p, [req[p] EXCEPT !.at = "saveTrial", !.copy.reminded = TRUE])
  /\ UNCHANGED <<tenant, stripe, due, left, owner, legacy>>

MailTrialExpired(p) ==
  /\ At(p, "mailExpired")
  /\ told' = told \cup {"expired"}
  /\ Goes(p, [req[p] EXCEPT !.at = "saveTrial", !.copy.notified = TRUE,
                            !.copy.status = "expired"])
  /\ UNCHANGED <<tenant, stripe, due, left, owner, legacy>>

SaveTrial(p) ==
  /\ At(p, "saveTrial")
  /\ tenant' = req[p].copy
  /\ Goes(p, Idle)
  /\ UNCHANGED <<stripe, due, rest>>

-----------------------------------------------------------------------------
(* Edits of other columns, by the firm or the platform's administrator.    *)

EditLoad(p) ==
  /\ At(p, "idle")
  /\ Goes(p, [Idle EXCEPT !.at = "saveEdit", !.copy = tenant])
  /\ UNCHANGED <<tenant, stripe, due, rest>>

EditSave(p) ==
  /\ At(p, "saveEdit")
  /\ tenant' = req[p].copy
  /\ Goes(p, Idle)
  /\ UNCHANGED <<stripe, due, rest>>

-----------------------------------------------------------------------------
(* A call fails or the process stops: the request ends where it is.        *)

Fails(p) ==
  /\ Faults
  /\ ~At(p, "idle")
  /\ Goes(p, Idle)
  /\ UNCHANGED <<tenant, stripe, due, rest>>

-----------------------------------------------------------------------------

Webhook(p) ==
  \/ OnCheckoutCompleted(p)
  \/ OnSubscriptionChanged(p)
  \/ OnInvoicePaid(p)
  \/ OnInvoicePaymentFailed(p)

Continues(p) ==
  \/ CreateCustomer(p)
  \/ SaveCustomer(p)
  \/ CreateSession(p)
  \/ Retrieve(p)
  \/ SaveEvent(p)
  \/ MailTrialEnding(p)
  \/ MailTrialExpired(p)
  \/ SaveTrial(p)
  \/ EditSave(p)

Next ==
  \/ StripeMoves
  \/ TrialRuns
  \/ OwnerLeaves
  \/ \E p \in Requests : \/ CheckoutLoad(p)
                         \/ Webhook(p)
                         \/ RunDailyTrialEmails(p)
                         \/ EditLoad(p)
                         \/ Continues(p)
                         \/ Fails(p)

Spec == Init /\ [][Next]_vars

\* A request that has started goes on; Stripe goes on sending what is due;
\* the job runs every day.  Edits and checkouts come between them at will.
FairSpec ==
  /\ Spec
  /\ WF_vars(\E p \in Requests : Continues(p))
  /\ SF_vars(\E p \in Requests : Webhook(p))
  /\ SF_vars(\E p \in Requests : RunDailyTrialEmails(p))

-----------------------------------------------------------------------------
(* Properties.                                                             *)

\* Every variable has its type.
TypeOK ==
  /\ tenant \in Row
  /\ customers \in 0..MaxCustomers
  /\ sessions \in [Sessions -> Session]
  /\ news \in 0..MaxNews
  /\ due \subseteq Event
  /\ left \in {"long", "two", "one", "over"}
  /\ told \subseteq {"ending", "expired"}
  /\ owner \in BOOLEAN
  /\ req \in [Requests -> Request]
  /\ legacy \in BOOLEAN

\* evaluateBillingAccess
Access(row) ==
  \/ row.status \in {"active", "past_due"}
  \/ row.status = "trial" /\ left # "over"

\* Whatever stale copy is saved and in whatever order events are applied, a
\* row says only what happened: a firm is let in only in its trial or once
\* it has subscribed, unless it is older than billing; "cancelled" means
\* that a subscription did end; "expired", that the trial is over and the
\* owner was told; and a mail marked as sent was sent.
Earned(row) ==
  /\ Access(row) => \/ row.status = "trial" /\ left # "over"
                    \/ Subscriptions # {}
                    \/ legacy
  /\ row.status = "cancelled" => \E n \in Sessions : sessions[n].state \in Ended
  /\ row.status = "expired" => left = "over" /\ row.notified
  /\ row.reminded => "ending" \in told
  /\ row.notified => "expired" \in told

StatusEarned == Earned(tenant)

\* The stored customer is the one that pays for the stored subscription, so
\* the portal that createPortalSession opens shows it, however many
\* customers overlapping checkouts made.
Matched(row) ==
  row.subscription # 0 => /\ row.subscription \in Subscriptions
                          /\ row.customer = sessions[row.subscription].customer

PairMatches == Matched(tenant)

\* One request at a time, without faults: when every event has been applied
\* the row says what Stripe says of the subscription that changed last: whether
\* it runs, and whether an end is scheduled, unless it was cancelled already.
Latest(n) == \A m \in Subscriptions : sessions[m].changed <= sessions[n].changed

FollowsStripe ==
  due = {} /\ (\A p \in Requests : At(p, "idle")) =>
    \A n \in Subscriptions :
      Latest(n) =>
        /\ tenant.subscription = n
        /\ tenant.status = IF Live(n) THEN sessions[n].state ELSE "cancelled"
        /\ tenant.cancels = (sessions[n].cancelling /\ sessions[n].state # "canceled")

\* One request at a time, without faults: the owner is reminded once and told
\* once that the trial is over, whatever runs between two days' jobs.
ToldOnce ==
  [][\A p \in Requests :
       /\ MailTrialEnding(p) => "ending" \notin told
       /\ MailTrialExpired(p) => "expired" \notin told]_vars

\* Without faults a trial that is over does not stay one: the owner is told,
\* or has subscribed.  A firm without an owner is passed over for good.
TrialRunsOut ==
  left = "over" /\ tenant.status = "trial" ~> tenant.status # "trial" \/ ~owner

\* Without faults and one request at a time, the firm whose subscription
\* runs, even with a payment late, is let in.
SubscriberLetIn ==
  \A n \in Sessions :
    Live(n) /\ Latest(n) ~> Access(tenant) \/ ~(Live(n) /\ Latest(n))

\* createCheckoutSession: "This firm already has an active subscription."
OneSubscription == Cardinality({n \in Sessions : Live(n)}) <= 1

=============================================================================
