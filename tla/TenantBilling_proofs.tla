------------------------ MODULE TenantBilling_proofs ------------------------
(***************************************************************************)
(* Proofs about TenantBilling, for every number of requests, sessions,     *)
(* customers and events, with or without faults.                           *)
(*                                                                         *)
(* StatusEarned and PairMatches are not inductive: a request may hold a    *)
(* copy of the row that claims anything and save it, and an event may say  *)
(* anything of a subscription.  So the invariant says of every copy what   *)
(* it says of the row, and that events are true of what they report; what  *)
(* they report is never undone (Grows).                                    *)
(*                                                                         *)
(* The last part takes one customer, one request at a time and no failure, *)
(* for FollowsStripe and ToldOnce: the row is then what the events         *)
(* delivered so far say, and what is yet to be delivered is known.         *)
(***************************************************************************)
EXTENDS TenantBilling, TLAPS

USE BoundsAssumption, FaultsAssumption

-----------------------------------------------------------------------------
(* The inductive invariant.                                                *)

\* What a row, stored or held, says is so.
GoodRow(row) == row \in Row /\ Earned(row) /\ Matched(row)

\* An event reports a subscription that exists, and an end that is final.
GoodEvent(e) ==
  /\ e \in Event
  /\ e.subscription \in Subscriptions
  /\ e.state \in Ended => sessions[e.subscription].state \in Ended

\* What a request in progress holds.
GoodRequest(r) ==
  /\ r \in Request
  /\ GoodRow(r.copy)
  /\ r.at \in {"retrieve", "saveEvent"} => r.event \in Event
  /\ r.at = "createCustomer" => r.copy.customer = 0
  /\ r.at = "saveCustomer" => r.copy.subscription = 0
  /\ r.at \in {"saveCustomer", "createSession"} => r.copy.customer # 0
  /\ r.at = "mailExpired" => left = "over"

\* A session that was opened belongs to a customer.
GoodSessions ==
  /\ sessions \in [Sessions -> Session]
  /\ \A n \in Sessions : sessions[n].state # "none" => sessions[n].customer # 0

\* The variables whose type is preserved by itself.
OthersType ==
  /\ customers \in 0..MaxCustomers
  /\ news \in 0..MaxNews
  /\ left \in {"long", "two", "one", "over"}
  /\ told \subseteq {"ending", "expired"}
  /\ owner \in BOOLEAN
  /\ legacy \in BOOLEAN

\* The inductive invariant.
IInv ==
  /\ GoodRow(tenant)
  /\ GoodSessions
  /\ \A e \in due : GoodEvent(e)
  /\ req \in [Requests -> Request]
  /\ \A p \in Requests : GoodRequest(req[p])
  /\ OthersType

\* What Stripe reported, the end of the trial and the mails are not undone.
Grows ==
  /\ \A n \in Subscriptions : /\ n \in Subscriptions'
                              /\ sessions'[n].customer = sessions[n].customer
  /\ \A n \in Sessions : sessions[n].state \in Ended => sessions'[n].state \in Ended
  /\ left = "over" => left' = "over"
  /\ told \subseteq told'
  /\ legacy' = legacy

\* A step that undoes nothing leaves a row's claims good.
LEMMA GoodRowGrows ==
  ASSUME Grows, NEW row, GoodRow(row)
  PROVE  GoodRow(row)'
<1>1. Access(row)' => Access(row)
  BY DEF Access, Grows
<1>2. Earned(row)'
  BY <1>1 DEF GoodRow, Earned, Access, Grows
<1>3. Matched(row)'
  BY DEF GoodRow, Matched, Grows
<1> QED BY <1>2, <1>3 DEF GoodRow

\* ... so do they a request's copy,
LEMMA GoodRequestGrows ==
  ASSUME Grows, NEW r, GoodRequest(r)
  PROVE  GoodRequest(r)'
  BY GoodRowGrows DEF GoodRequest, Grows

\* ... and what an event reports.
LEMMA GoodEventGrows ==
  ASSUME Grows, NEW e, GoodEvent(e)
  PROVE  GoodEvent(e)'
  BY DEF GoodEvent, Grows, Event

\* A new row claims nothing, nor does a request that is over.
LEMMA NewRowGood == GoodRow(NewRow)
  BY DEF GoodRow, NewRow, Row, Earned, Access, Matched, Subscriptions

\* ... nor does a request that is over.
LEMMA IdleGood == GoodRequest(Idle)
  BY NewRowGood DEF GoodRequest, GoodRow, Idle, Request

-----------------------------------------------------------------------------
(* Every step preserves it.                                                *)

\* A step of request p to r that saves row, if it saves one.
LEMMA RequestStep ==
  ASSUME IInv, Grows, NEW p \in Requests,
         NEW r \in Request, GoodRequest(r)', Goes(p, r),
         NEW row, GoodRow(row), tenant' = row,
         due' \subseteq due, GoodSessions', OthersType'
  PROVE  IInv'
<1>1. GoodRow(tenant)'
  BY GoodRowGrows DEF GoodRow, Earned, Access, Matched
<1>2. \A e \in due' : GoodEvent(e)'
  BY GoodEventGrows DEF IInv
<1>3. req' \in [Requests -> Request]
  BY DEF IInv, Goes
<1>4. ASSUME NEW q \in Requests PROVE GoodRequest(req[q])'
  <2>1. CASE q = p
    BY <2>1 DEF IInv, Goes
  <2>2. CASE q # p
    BY <2>2, GoodRequestGrows DEF IInv, Goes
  <2> QED BY <2>1, <2>2
<1> QED BY <1>1, <1>2, <1>3, <1>4 DEF IInv

\* A step of Stripe or the calendar.
LEMMA OutsideStep ==
  ASSUME IInv, Grows, UNCHANGED <<tenant, req>>,
         \A e \in due' : e \in due \/ GoodEvent(e)',
         GoodSessions', OthersType'
  PROVE  IInv'
<1>1. GoodRow(tenant)'
  BY GoodRowGrows DEF IInv
<1>2. \A e \in due' : GoodEvent(e)'
  BY GoodEventGrows DEF IInv
<1>3. \A p \in Requests : GoodRequest(req[p])'
  BY GoodRequestGrows DEF IInv
<1> QED BY <1>1, <1>2, <1>3 DEF IInv

\* A step of request p that leaves Stripe, the trial and the mails alone.
LEMMA QuietStep ==
  ASSUME IInv, UNCHANGED <<stripe, rest>>, due' \subseteq due,
         NEW p \in Requests, NEW r, GoodRequest(r), Goes(p, r),
         NEW row, GoodRow(row), tenant' = row
  PROVE  IInv'
<1>1. Grows
  BY DEF Grows, stripe, rest, Subscriptions
<1>2. GoodSessions' /\ OthersType'
  BY DEF IInv, GoodSessions, OthersType, stripe, rest
<1>3. r \in Request /\ GoodRequest(r)'
  BY <1>1, GoodRequestGrows DEF GoodRequest
<1> QED BY <1>1, <1>2, <1>3, RequestStep

-----------------------------------------------------------------------------
(* Webhooks.                                                               *)

\* Linking a row to the subscription of an event keeps it good.
LEMMA LinkedGood ==
  ASSUME IInv, NEW row, GoodRow(row), NEW e, GoodEvent(e)
  PROVE  /\ Linked(row, e.subscription) \in Row
         /\ Matched(Linked(row, e.subscription))
         /\ Linked(row, e.subscription).reminded = row.reminded
         /\ Linked(row, e.subscription).notified = row.notified
<1>1. e.subscription \in Sessions /\ sessions[e.subscription].customer \in 0..MaxCustomers
  BY DEF IInv, GoodSessions, GoodEvent, Event, Session
<1>2. e.subscription \in 0..MaxSessions
  BY <1>1 DEF Sessions
<1> QED BY <1>1, <1>2 DEF Linked, GoodRow, Row, Matched, GoodEvent

\* An event earns the status it brings.
LEMMA StatusGood ==
  ASSUME NEW row, GoodRow(row), NEW c \in Row, Matched(c),
         c.reminded = row.reminded, c.notified = row.notified,
         Subscriptions # {},
         \/ c.status \in {"active", "past_due"}
         \/ c.status = "cancelled" /\ \E n \in Sessions : sessions[n].state \in Ended
  PROVE  GoodRow(c)
  BY DEF GoodRow, Earned, Access

\* The webhooks that load the row.
LEMMA WebhookGood ==
  ASSUME IInv, NEW p \in Requests, Webhook(p)
  PROVE  IInv'
<1> USE DEF IInv
<1>0. GoodRow(tenant) /\ tenant \in Row
  BY DEF GoodRow
\* A good row, an event and a place make a good request.
<1>1. ASSUME NEW e \in due, NEW row, GoodRow(row),
             NEW next \in {"retrieve", "saveEvent"}, Receives(p, e, row, next)
      PROVE  IInv'
  <2> DEFINE r == [at |-> next, copy |-> row, event |-> e]
  <2>1. r \in Request /\ r.at = next /\ r.copy = row /\ r.event = e
    BY <1>1 DEF GoodRow, GoodEvent, Request
  <2>2. GoodRequest(r)
    BY <1>1, <2>1 DEF GoodRequest, GoodEvent
  <2> QED BY <1>0, <1>1, <2>2, QuietStep DEF Receives
<1>2. CASE OnCheckoutCompleted(p)
  <2>1. PICK e \in Arriving("completed") :
          Receives(p, e, [Linked(tenant, e.subscription) EXCEPT
                            !.status = "active", !.cancels = FALSE], "retrieve")
    BY <1>2 DEF OnCheckoutCompleted
  <2> DEFINE row == [Linked(tenant, e.subscription) EXCEPT
                       !.status = "active", !.cancels = FALSE]
  <2>2. e \in due /\ GoodEvent(e)
    BY <2>1 DEF Arriving
  <2>3. GoodRow(row)
    <3> DEFINE l == Linked(tenant, e.subscription)
    <3>1. /\ l \in Row /\ Matched(l)
          /\ l.reminded = tenant.reminded /\ l.notified = tenant.notified
      BY <1>0, <2>2, LinkedGood
    <3> HIDE DEF l
    <3> DEFINE c == [l EXCEPT !.status = "active", !.cancels = FALSE]
    <3>2. /\ c \in Row /\ c.status = "active"
          /\ c.reminded = tenant.reminded /\ c.notified = tenant.notified
          /\ c.subscription = l.subscription /\ c.customer = l.customer
      BY <3>1 DEF Row
    <3>3. GoodRow(c)
      BY <1>0, <2>2, <3>1, <3>2, StatusGood DEF Matched, GoodEvent
    <3> QED BY <3>3 DEF l
  <2> QED BY <1>1, <2>1, <2>2, <2>3
<1>3. CASE OnSubscriptionChanged(p)
  <2>1. PICK e \in Arriving("changed") :
          Receives(p, e, [Linked(tenant, e.subscription) EXCEPT
                            !.status  = StatusOf(e.state),
                            !.cancels = CancelsAt(e.state, e.cancelling)], "saveEvent")
    BY <1>3 DEF OnSubscriptionChanged
  <2> DEFINE row == [Linked(tenant, e.subscription) EXCEPT
                       !.status  = StatusOf(e.state),
                       !.cancels = CancelsAt(e.state, e.cancelling)]
  <2>2. e \in due /\ GoodEvent(e)
    BY <2>1 DEF Arriving
  <2>3. /\ StatusOf(e.state) \in {"active", "past_due", "cancelled"}
        /\ StatusOf(e.state) = "cancelled" => e.state \in Ended
        /\ CancelsAt(e.state, e.cancelling) \in BOOLEAN
        /\ e.subscription \in Sessions
    BY <2>2 DEF StatusOf, CancelsAt, GoodEvent, Event, SubscriptionStates
  <2>4. GoodRow(row)
    <3> DEFINE l == Linked(tenant, e.subscription)
               status == StatusOf(e.state)
               cancels == CancelsAt(e.state, e.cancelling)
    <3>1. /\ l \in Row /\ Matched(l)
          /\ l.reminded = tenant.reminded /\ l.notified = tenant.notified
      BY <1>0, <2>2, LinkedGood
    <3>2. /\ status \in {"active", "past_due", "cancelled"} /\ cancels \in BOOLEAN
          /\ status = "cancelled" => \E n \in Sessions : sessions[n].state \in Ended
      BY <2>2, <2>3 DEF GoodEvent
    <3> HIDE DEF l, status, cancels
    <3> DEFINE c == [l EXCEPT !.status = status, !.cancels = cancels]
    <3>3. /\ c \in Row /\ c.status = status
          /\ c.reminded = tenant.reminded /\ c.notified = tenant.notified
          /\ c.subscription = l.subscription /\ c.customer = l.customer
      BY <3>1, <3>2 DEF Row
    <3>4. Subscriptions # {} /\ Matched(c)
      BY <2>2, <3>1, <3>3 DEF Matched, GoodEvent
    <3>5. GoodRow(c)
      BY <1>0, <3>2, <3>3, <3>4, StatusGood
    <3> QED BY <3>5 DEF l, status, cancels
  <2> QED BY <1>1, <2>1, <2>2, <2>4
<1>4. CASE OnInvoicePaid(p)
  <2>1. PICK e \in Arriving("paid") :
          Receives(p, e, [Linked(tenant, e.subscription) EXCEPT !.status = "active"],
                   "retrieve")
    BY <1>4 DEF OnInvoicePaid
  <2> DEFINE row == [Linked(tenant, e.subscription) EXCEPT !.status = "active"]
  <2>2. e \in due /\ GoodEvent(e)
    BY <2>1 DEF Arriving
  <2>3. GoodRow(row)
    <3> DEFINE l == Linked(tenant, e.subscription)
    <3>1. /\ l \in Row /\ Matched(l)
          /\ l.reminded = tenant.reminded /\ l.notified = tenant.notified
      BY <1>0, <2>2, LinkedGood
    <3> HIDE DEF l
    <3> DEFINE c == [l EXCEPT !.status = "active"]
    <3>2. /\ c \in Row /\ c.status = "active"
          /\ c.reminded = tenant.reminded /\ c.notified = tenant.notified
          /\ c.subscription = l.subscription /\ c.customer = l.customer
      BY <3>1 DEF Row
    <3>3. Subscriptions # {} /\ Matched(c)
      BY <2>2, <3>1, <3>2 DEF Matched, GoodEvent
    <3>4. GoodRow(c)
      BY <1>0, <3>2, <3>3, StatusGood
    <3> QED BY <3>4 DEF l
  <2> QED BY <1>1, <2>1, <2>2, <2>3
<1>5. CASE OnInvoicePaymentFailed(p)
  <2>1. PICK e \in Arriving("failed") :
          Receives(p, e, [tenant EXCEPT !.status = "past_due"], "saveEvent")
    BY <1>5 DEF OnInvoicePaymentFailed
  <2> DEFINE row == [tenant EXCEPT !.status = "past_due"]
  <2>2. e \in due /\ GoodEvent(e)
    BY <2>1 DEF Arriving
  <2>3. GoodRow(row)
    BY <1>0, <2>2 DEF GoodRow, Row, Earned, Access, Matched, GoodEvent
  <2> QED BY <1>1, <2>1, <2>2, <2>3
<1> QED BY <1>2, <1>3, <1>4, <1>5 DEF Webhook

\* The steps that follow, and the saves of every request.
LEMMA SavesGood ==
  ASSUME IInv, NEW p \in Requests,
         \/ Retrieve(p) \/ SaveEvent(p) \/ SaveCustomer(p)
         \/ SaveTrial(p) \/ EditSave(p) \/ Fails(p)
  PROVE  IInv'
<1> DEFINE old == req[p]
<1> USE DEF IInv
<1>0. /\ GoodRequest(old) /\ old \in Request /\ GoodRow(old.copy) /\ old.copy \in Row
      /\ GoodRow(tenant) /\ GoodRequest(Idle)
  BY IdleGood DEF GoodRequest, GoodRow
<1>1. CASE Retrieve(p)
  <2> DEFINE s == sessions[old.event.subscription]
             cancels == CancelsAt(s.state, s.cancelling)
  <2>1. old.at = "retrieve" /\ old.event.subscription \in Sessions
    BY <1>0, <1>1 DEF Retrieve, At, GoodRequest, Event
  <2>2. cancels \in BOOLEAN
    BY <2>1 DEF CancelsAt, GoodSessions, Session
  <2>3. CASE Goes(p, [old EXCEPT !.at = "saveEvent", !.copy.cancels = cancels])
    <3> DEFINE r == [old EXCEPT !.at = "saveEvent", !.copy.cancels = cancels]
    <3> HIDE DEF cancels
    <3>1. /\ r \in Request /\ r.at = "saveEvent" /\ r.event = old.event
          /\ r.copy = [old.copy EXCEPT !.cancels = cancels]
      BY <1>0, <2>2 DEF Request, Row
    <3>2. GoodRow([old.copy EXCEPT !.cancels = cancels])
      BY <1>0, <2>2 DEF GoodRow, Row, Earned, Access, Matched
    <3>3. GoodRequest(r)
      BY <1>0, <2>1, <3>1, <3>2 DEF GoodRequest
    <3> QED BY <1>0, <1>1, <2>3, <3>3, QuietStep DEF Retrieve
  <2>4. CASE Goes(p, [old EXCEPT !.at = "saveEvent"])
    <3>1. GoodRequest([old EXCEPT !.at = "saveEvent"])
      BY <1>0, <2>1 DEF GoodRequest, Request
    <3> QED BY <1>0, <1>1, <2>4, <3>1, QuietStep DEF Retrieve
  <2> QED BY <1>1, <2>3, <2>4 DEF Retrieve
<1>2. CASE SaveEvent(p)
  BY <1>0, <1>2, QuietStep DEF SaveEvent
<1>3. CASE SaveCustomer(p)
  <2>1. GoodRequest([old EXCEPT !.at = "createSession"])
    BY <1>0, <1>3 DEF SaveCustomer, At, GoodRequest, Request
  <2> QED BY <1>0, <1>3, <2>1, QuietStep DEF SaveCustomer
<1>4. CASE SaveTrial(p)
  BY <1>0, <1>4, QuietStep DEF SaveTrial
<1>5. CASE EditSave(p)
  BY <1>0, <1>5, QuietStep DEF EditSave
<1>6. CASE Fails(p)
  BY <1>0, <1>6, QuietStep DEF Fails
<1> QED BY <1>1, <1>2, <1>3, <1>4, <1>5, <1>6

-----------------------------------------------------------------------------
(* Checkout, the daily job and edits.                                      *)

\* The requests that load the row without changing the copy.
LEMMA LoadsGood ==
  ASSUME IInv, NEW p \in Requests,
         CheckoutLoad(p) \/ RunDailyTrialEmails(p) \/ EditLoad(p)
  PROVE  IInv'
<1> USE DEF IInv
<1>0. GoodRow(tenant) /\ tenant \in Row /\ Idle \in Request
  BY IdleGood DEF GoodRow, GoodRequest
<1>1. ASSUME NEW at \in {"createCustomer", "createSession", "mailEnding",
                         "mailExpired", "saveEdit"},
             at = "createCustomer" => tenant.customer = 0,
             at = "createSession" => tenant.customer # 0,
             at = "mailExpired" => left = "over",
             Goes(p, [Idle EXCEPT !.copy = tenant, !.at = at]),
             UNCHANGED <<tenant, stripe, due, rest>>
      PROVE  IInv'
  <2> DEFINE r == [Idle EXCEPT !.copy = tenant, !.at = at]
  <2>1. r \in Request /\ r.at = at /\ r.copy = tenant
    BY <1>0, <1>1 DEF Request
  <2>2. GoodRequest(r)
    BY <1>0, <1>1, <2>1 DEF GoodRequest
  <2> QED BY <1>0, <1>1, <2>2, QuietStep
<1>2. CASE CheckoutLoad(p)
  <2>1. CASE tenant.customer = 0
    BY <1>1, <1>2, <2>1 DEF CheckoutLoad
  <2>2. CASE tenant.customer # 0
    BY <1>1, <1>2, <2>2 DEF CheckoutLoad
  <2> QED BY <2>1, <2>2
<1>3. CASE RunDailyTrialEmails(p)
  <2>1. CASE Goes(p, [Idle EXCEPT !.at = "mailEnding", !.copy = tenant])
    <3>1. [Idle EXCEPT !.at = "mailEnding", !.copy = tenant]
            = [Idle EXCEPT !.copy = tenant, !.at = "mailEnding"]
      BY DEF Idle
    <3> QED BY <1>1, <1>3, <2>1, <3>1 DEF RunDailyTrialEmails
  <2>2. CASE /\ ShouldSendTrialExpiredEmail(tenant)
             /\ Goes(p, [Idle EXCEPT !.at = "mailExpired", !.copy = tenant])
    <3>1. [Idle EXCEPT !.at = "mailExpired", !.copy = tenant]
            = [Idle EXCEPT !.copy = tenant, !.at = "mailExpired"]
      BY DEF Idle
    <3> QED BY <1>1, <1>3, <2>2, <3>1 DEF RunDailyTrialEmails, ShouldSendTrialExpiredEmail
  <2> QED BY <1>3, <2>1, <2>2 DEF RunDailyTrialEmails
<1>4. CASE EditLoad(p)
  <2>1. [Idle EXCEPT !.at = "saveEdit", !.copy = tenant]
          = [Idle EXCEPT !.copy = tenant, !.at = "saveEdit"]
    BY DEF Idle
  <2> QED BY <1>1, <1>4, <2>1 DEF EditLoad
<1> QED BY <1>2, <1>3, <1>4

\* The steps that create something at Stripe or send a mail.
LEMMA CallsGood ==
  ASSUME IInv, NEW p \in Requests,
         \/ CreateCustomer(p) \/ CreateSession(p)
         \/ MailTrialEnding(p) \/ MailTrialExpired(p)
  PROVE  IInv'
<1> DEFINE old == req[p]
<1> USE DEF IInv
<1>0. /\ GoodRequest(old) /\ old \in Request /\ GoodRow(old.copy) /\ old.copy \in Row
      /\ GoodRow(tenant) /\ GoodRequest(Idle) /\ Idle \in Request
  BY IdleGood DEF GoodRequest, GoodRow
<1>1. CASE CreateCustomer(p)
  <2>1. /\ old.copy.customer = 0 /\ old.copy.subscription = 0
        /\ customers + 1 \in 1..MaxCustomers
    BY <1>0, <1>1 DEF CreateCustomer, At, GoodRequest, GoodRow, Matched, GoodSessions,
                      Subscriptions, SubscriptionStates, Ended, OthersType
  <2>2. PICK k \in 1..MaxCustomers : k = customers + 1
    BY <2>1
  <2>3. Grows
    BY <1>1 DEF CreateCustomer, Grows, rest, Subscriptions
  <2>4. GoodSessions' /\ OthersType'
    BY <1>1, <2>1 DEF CreateCustomer, GoodSessions, OthersType, rest
  <2>5. PICK r : r = [old EXCEPT !.at = "saveCustomer", !.copy.customer = k]
    OBVIOUS
  <2>6. /\ r \in Request /\ r.at = "saveCustomer"
        /\ r.copy = [old.copy EXCEPT !.customer = k] /\ r.copy \in Row
    <3>1. k \in 0..MaxCustomers
      BY <2>2
    <3>2. [old.copy EXCEPT !.customer = k] \in Row
      BY <1>0, <3>1 DEF Row
    <3> QED BY <1>0, <2>5, <3>2 DEF Request
  <2>7. r.copy.customer # 0 /\ r.copy.subscription = 0
    BY <1>0, <2>1, <2>6 DEF Row
  <2>8. GoodRow(r.copy)
    BY <1>0, <2>6, <2>7 DEF GoodRow, Row, Earned, Access, Matched
  <2>9. GoodRequest(r)
    BY <2>6, <2>7, <2>8 DEF GoodRequest
  <2> QED
    BY <1>0, <1>1, <2>2, <2>3, <2>4, <2>5, <2>6, <2>9, GoodRequestGrows, RequestStep
    DEF CreateCustomer
<1>2. CASE CreateSession(p)
  <2>1. old.copy.customer \in 1..MaxCustomers
    BY <1>0, <1>2 DEF CreateSession, At, GoodRequest, Row
  <2>2. PICK n \in Unused :
          sessions' = [sessions EXCEPT ![n].state = "open",
                                       ![n].customer = old.copy.customer]
    BY <1>2 DEF CreateSession
  <2>3. n \in Sessions /\ sessions[n].state = "none"
    BY <2>2 DEF Unused
  <2>4. \A m \in Sessions : m # n => sessions'[m] = sessions[m]
    BY <2>2, <2>3 DEF GoodSessions
  <2>5. /\ sessions'[n].state = "open" /\ sessions'[n].customer = old.copy.customer
        /\ sessions'[n] \in Session
    <3>1. /\ sessions[n] \in Session /\ n \in DOMAIN sessions
          /\ old.copy.customer \in 0..MaxCustomers
      BY <2>1, <2>3 DEF GoodSessions
    <3>2. sessions'[n] = [sessions[n] EXCEPT !.state = "open",
                                             !.customer = old.copy.customer]
      BY <2>2, <3>1 DEF Session
    <3> QED BY <3>1, <3>2 DEF Session
  <2>6. sessions' \in [Sessions -> Session]
    BY <2>2, <2>4, <2>5 DEF GoodSessions
  <2>7. Grows
    BY <1>2, <2>3, <2>4 DEF CreateSession, Grows, rest, Subscriptions, SubscriptionStates, Ended
  <2>8. GoodSessions' /\ OthersType'
    BY <1>2, <2>1, <2>4, <2>5, <2>6 DEF CreateSession, GoodSessions, OthersType, rest
  <2> QED
    BY <1>0, <1>2, <2>7, <2>8, GoodRequestGrows, RequestStep DEF CreateSession
<1>3. CASE MailTrialEnding(p)
  <2>1. Grows
    BY <1>3 DEF MailTrialEnding, Grows, stripe, Subscriptions
  <2>2. GoodSessions' /\ OthersType'
    BY <1>3 DEF MailTrialEnding, GoodSessions, OthersType, stripe
  <2>3. PICK r : r = [old EXCEPT !.at = "saveTrial", !.copy.reminded = TRUE]
    OBVIOUS
  <2>4. /\ r \in Request /\ r.at = "saveTrial"
        /\ r.copy = [old.copy EXCEPT !.reminded = TRUE]
    BY <1>0, <2>3 DEF Request, Row
  <2>5. PICK c : c = old.copy /\ c \in Row /\ GoodRow(c)'
    BY <1>0, <2>1, GoodRowGrows
  <2>6. GoodRow(r.copy)'
    BY <1>3, <2>4, <2>5 DEF MailTrialEnding, GoodRow, Row, Earned, Access, Matched
  <2>7. GoodRequest(r)'
    BY <2>4, <2>6 DEF GoodRequest
  <2> QED
    BY <1>0, <1>3, <2>1, <2>2, <2>3, <2>4, <2>7, RequestStep DEF MailTrialEnding
<1>4. CASE MailTrialExpired(p)
  <2>1. Grows /\ left = "over"
    BY <1>0, <1>4 DEF MailTrialExpired, Grows, stripe, Subscriptions, At, GoodRequest
  <2>2. GoodSessions' /\ OthersType'
    BY <1>4 DEF MailTrialExpired, GoodSessions, OthersType, stripe
  <2>3. PICK r : r = [old EXCEPT !.at = "saveTrial", !.copy.notified = TRUE,
                                 !.copy.status = "expired"]
    OBVIOUS
  <2>4. /\ r \in Request /\ r.at = "saveTrial"
        /\ r.copy = [old.copy EXCEPT !.notified = TRUE, !.status = "expired"]
    BY <1>0, <2>3 DEF Request, Row
  <2>5. PICK c : c = old.copy /\ c \in Row /\ GoodRow(c)'
    BY <1>0, <2>1, GoodRowGrows
  <2>6. GoodRow(r.copy)'
    BY <1>4, <2>1, <2>4, <2>5 DEF MailTrialExpired, GoodRow, Row, Earned, Access, Matched
  <2>7. GoodRequest(r)'
    BY <2>4, <2>6 DEF GoodRequest
  <2> QED
    BY <1>0, <1>4, <2>1, <2>2, <2>3, <2>4, <2>7, RequestStep DEF MailTrialExpired
<1> QED BY <1>1, <1>2, <1>3, <1>4

-----------------------------------------------------------------------------
(* Stripe and the calendar.                                                *)

\* A change that Stripe reports of a subscription, new or live.
LEMMA ReportsGood ==
  ASSUME IInv, NEW n \in Sessions, Live(n) \/ sessions[n].state = "open",
         NEW s \in Session, s.customer = sessions[n].customer,
         s.state \in SubscriptionStates,
         NEW kinds \in SUBSET {"completed", "changed", "paid", "failed"},
         Reports(n, s, kinds)
  PROVE  IInv'
<1> USE DEF IInv
<1>1. news + 1 \in 1..MaxNews /\ news + 1 \in 0..MaxNews
  BY DEF Reports, OthersType
<1>2. PICK k \in 1..MaxNews : k = news + 1 /\ k \in 0..MaxNews
  BY <1>1
<1>3. PICK t : t = [s EXCEPT !.changed = k]
  OBVIOUS
<1>4. /\ t \in Session /\ t.state = s.state /\ t.customer = s.customer
  BY <1>2, <1>3 DEF Session
<1>5. sessions' = [sessions EXCEPT ![n] = t]
  BY <1>2, <1>3 DEF Reports
<1>6. /\ sessions' \in [Sessions -> Session] /\ sessions'[n] = t
      /\ \A m \in Sessions : m # n => sessions'[m] = sessions[m]
  BY <1>4, <1>5 DEF GoodSessions
<1>7. Grows
  BY <1>4, <1>6 DEF Reports, Grows, rest, Subscriptions, Live, Ended
<1>8. GoodSessions'
  BY <1>4, <1>6 DEF GoodSessions, Live
<1>9. OthersType'
  BY <1>1 DEF Reports, OthersType, rest
<1>10. ASSUME NEW e \in due' PROVE e \in due \/ GoodEvent(e)'
  <2>1. CASE e \notin due
    <3>1. PICK kind \in kinds :
            e = [kind |-> kind, subscription |-> n, state |-> s.state,
                 cancelling |-> s.cancelling, nr |-> k]
      BY <1>2, <1>10, <2>1 DEF Reports
    <3>2. e \in Event
      BY <3>1 DEF Event, Session
    <3>3. e.subscription = n /\ e.state = s.state
      BY <3>1
    <3> QED BY <1>4, <1>6, <3>2, <3>3 DEF GoodEvent, Subscriptions
  <2> QED BY <2>1
<1> QED BY <1>7, <1>8, <1>9, <1>10, OutsideStep DEF Reports

\* Every step of Stripe.
LEMMA StripeGood ==
  ASSUME IInv, StripeMoves
  PROVE  IInv'
<1>1. PICK n \in Sessions : \/ Pays(n) \/ InvoicePaid(n) \/ InvoiceFails(n)
                            \/ SwitchesCancelling(n) \/ Ends(n)
  BY DEF StripeMoves
<1> DEFINE s == sessions[n]
<1>2. s \in Session
  BY <1>1 DEF IInv, GoodSessions
<1>3. ASSUME NEW state \in SubscriptionStates,
             Live(n) \/ s.state = "open",
             NEW kinds \in SUBSET {"completed", "changed", "paid", "failed"},
             Reports(n, [s EXCEPT !.state = state], kinds)
      PROVE  IInv'
  <2>1. /\ [s EXCEPT !.state = state] \in Session
        /\ [s EXCEPT !.state = state].state = state
        /\ [s EXCEPT !.state = state].customer = s.customer
    BY <1>2 DEF Session
  <2> QED BY <1>3, <2>1, ReportsGood
<1>4. CASE Pays(n)
  BY <1>3, <1>4 DEF Pays, SubscriptionStates
<1>5. CASE InvoicePaid(n)
  BY <1>3, <1>5 DEF InvoicePaid, SubscriptionStates
<1>6. CASE InvoiceFails(n)
  BY <1>3, <1>6 DEF InvoiceFails, SubscriptionStates
<1>7. CASE SwitchesCancelling(n)
  <2>1. /\ [s EXCEPT !.cancelling = ~@] \in Session
        /\ [s EXCEPT !.cancelling = ~@].state = s.state
        /\ [s EXCEPT !.cancelling = ~@].customer = s.customer
    BY <1>2 DEF Session
  <2> QED BY <1>7, <2>1, ReportsGood DEF SwitchesCancelling, Live, SubscriptionStates
<1>8. CASE Ends(n)
  <2>1. PICK state \in Ended : Reports(n, [sessions[n] EXCEPT !.state = state], {"changed"})
    BY <1>8 DEF Ends
  <2> QED BY <1>3, <1>8, <2>1 DEF Ends, SubscriptionStates
<1> QED BY <1>1, <1>4, <1>5, <1>6, <1>7, <1>8

\* The trial runs on, or the owner leaves (executeAccountDeletion).
LEMMA TrialGood ==
  ASSUME IInv, TrialRuns \/ OwnerLeaves
  PROVE  IInv'
<1>1. Grows
  BY DEF TrialRuns, OwnerLeaves, Grows, stripe, Subscriptions
<1>2. GoodSessions' /\ OthersType'
  BY DEF TrialRuns, OwnerLeaves, IInv, GoodSessions, OthersType, stripe
<1> QED BY <1>1, <1>2, OutsideStep DEF TrialRuns, OwnerLeaves

-----------------------------------------------------------------------------
(* The theorems.                                                           *)

\* A firm as it is created, or as the migration found it, claims nothing.
LEMMA InitGood == Init => IInv
<1> SUFFICES ASSUME Init PROVE IInv
  OBVIOUS
<1>1. GoodRow(tenant)
  <2>1. CASE legacy
    <3>1. tenant = [NewRow EXCEPT !.status = "active"]
      BY <2>1 DEF Init
    <3>2. NewRow \in Row
      BY DEF NewRow, Row
    <3>3. tenant \in Row
      BY <3>1, <3>2 DEF Row
    <3>4. /\ tenant.status = "active" /\ tenant.subscription = 0
          /\ tenant.reminded = FALSE /\ tenant.notified = FALSE
      BY <3>1 DEF NewRow
    <3>5. Earned(tenant)
      BY <2>1, <3>4 DEF Earned
    <3> QED BY <3>3, <3>4, <3>5 DEF GoodRow, Matched
  <2>2. CASE ~legacy
    <3>1. tenant = NewRow
      BY <2>2 DEF Init, NewRow
    <3> QED BY <3>1, NewRowGood DEF GoodRow, Earned, Access, Matched
  <2> QED BY <2>1, <2>2
<1>2. GoodSessions
  BY DEF Init, GoodSessions, NoSession, Session
<1>3. OthersType
  BY DEF Init, OthersType
<1>4. req \in [Requests -> Request] /\ \A p \in Requests : GoodRequest(req[p])
  BY IdleGood DEF Init, GoodRequest
<1> QED BY <1>1, <1>2, <1>3, <1>4 DEF Init, IInv

\* A step that changes nothing.
LEMMA StutterGood ==
  ASSUME IInv, UNCHANGED vars
  PROVE  IInv'
<1>1. Grows
  BY DEF vars, stripe, rest, Grows, Subscriptions
<1>2. GoodSessions' /\ OthersType'
  BY DEF vars, stripe, rest, IInv, GoodSessions, OthersType
<1> QED BY <1>1, <1>2, OutsideStep DEF vars

\* The invariant holds, whatever happens.
THEOREM Invariance == Spec => []IInv
<1>1. IInv /\ [Next]_vars => IInv'
  <2> SUFFICES ASSUME IInv, [Next]_vars PROVE IInv'
    OBVIOUS
  <2>1. CASE StripeMoves
    BY <2>1, StripeGood
  <2>2. CASE TrialRuns \/ OwnerLeaves
    BY <2>2, TrialGood
  <2>3. ASSUME NEW p \in Requests,
               \/ CheckoutLoad(p) \/ RunDailyTrialEmails(p) \/ EditLoad(p)
        PROVE  IInv'
    BY <2>3, LoadsGood
  <2>4. ASSUME NEW p \in Requests, Webhook(p) PROVE IInv'
    BY <2>4, WebhookGood
  <2>5. ASSUME NEW p \in Requests, Continues(p) PROVE IInv'
    BY <2>5, CallsGood, SavesGood DEF Continues
  <2>6. ASSUME NEW p \in Requests, Fails(p) PROVE IInv'
    BY <2>6, SavesGood
  <2>7. CASE UNCHANGED vars
    BY <2>7, StutterGood
  <2> QED BY <2>1, <2>2, <2>3, <2>4, <2>5, <2>6, <2>7 DEF Next
<1> QED BY <1>1, InitGood, PTL DEF Spec

\* Every variable keeps its type.
THEOREM TypeCorrect == Spec => []TypeOK
<1>1. IInv => TypeOK
  BY DEF IInv, GoodRow, GoodSessions, GoodEvent, OthersType, TypeOK
<1> QED BY <1>1, Invariance, PTL

\* Whatever stale copy is saved, and in whatever order and how often events
\* arrive: a firm is let in only in its trial, after subscribing, or when it
\* is older than billing; and what else the row says did happen.
THEOREM EarnedCorrect == Spec => []StatusEarned
<1>1. IInv => StatusEarned
  BY DEF IInv, GoodRow, StatusEarned
<1> QED BY <1>1, Invariance, PTL

\* However checkouts overlap, the stored customer owns the stored
\* subscription.
THEOREM PairCorrect == Spec => []PairMatches
<1>1. IInv => PairMatches
  BY DEF IInv, GoodRow, PairMatches
<1> QED BY <1>1, Invariance, PTL

-----------------------------------------------------------------------------
(* One request at a time, no failures, and events that come once and in    *)
(* order.  The row then follows Stripe and each mail on the trial goes out *)
(* once.  With two requests a stale save takes the row back, and an event  *)
(* that is late or comes again does so too, as the concurrent run allows.  *)
(*                                                                         *)
(* Even so the row is behind Stripe most of the time, and the three events *)
(* of one change come in any order.  The invariant dates them: the row     *)
(* says what the last change reported once its "changed" event has been    *)
(* applied, and then only events of that change remain.                    *)

\* The row says what Stripe says of subscription n.
Says(row, n) ==
  /\ row.subscription = n
  /\ row.status = IF Live(n) THEN sessions[n].state ELSE "cancelled"
  /\ row.cancels = (sessions[n].cancelling /\ sessions[n].state # "canceled")

\* The row says what Stripe says of the subscription that changed last.
Agrees(row) == \A n \in Subscriptions : sessions[n].changed = news => Says(row, n)

\* The last change has been applied.
Applied == \A e \in due : e.nr = news => e.kind # "changed"

\* Changes are numbered, and the last one is that of some subscription.
Numbered ==
  /\ \A n \in Sessions : sessions[n].changed <= news
  /\ \A n \in Sessions : n \in Subscriptions <=> sessions[n].changed # 0
  /\ \A n, m \in Subscriptions : sessions[n].changed = sessions[m].changed => n = m
  /\ news # 0 => \E n \in Subscriptions : sessions[n].changed = news

\* Events tell what their subscription was, and if it has not changed since, is.
Truthful(e) ==
  /\ e.nr <= sessions[e.subscription].changed
  /\ e.nr = sessions[e.subscription].changed =>
       /\ e.state = sessions[e.subscription].state
       /\ e.cancelling = sessions[e.subscription].cancelling
  /\ e.kind \in {"completed", "paid"} => e.state = "active"
  /\ e.kind = "failed" => e.state = "past_due"

\* What the request will save is the row it loaded, but for what it sets.
Fresh(r) ==
  /\ r.at \in {"createCustomer", "saveCustomer", "mailEnding", "mailExpired", "saveEdit",
               "saveTrial"} =>
       /\ r.copy.subscription = tenant.subscription
       /\ r.copy.cancels = tenant.cancels
       /\ r.copy.status = tenant.status \/ (r.at = "saveTrial" /\ tenant.status = "trial")
  /\ r.at \in {"createCustomer", "saveCustomer", "mailEnding", "mailExpired", "saveEdit",
               "retrieve", "saveEvent"} =>
       /\ r.copy.reminded = tenant.reminded
       /\ r.copy.notified = tenant.notified
  /\ r.at \in {"mailEnding", "mailExpired"} => r.copy.status = "trial"
  /\ r.at = "mailEnding" => ~r.copy.reminded
  /\ r.at = "mailExpired" => ~r.copy.notified

\* The event in progress is one of the earliest that are due; once saved, the
\* row agrees with it.
InOrder(r) ==
  r.at \in {"retrieve", "saveEvent"} =>
    /\ r.event \in due
    /\ \A f \in due : r.event.nr <= f.nr
    /\ r.at = "retrieve" => r.event.kind \in {"completed", "paid"}
    /\ r.event.nr = news =>
         /\ r.at = "retrieve" =>
              r.copy.subscription = r.event.subscription /\ r.copy.status = "active"
         /\ r.at = "saveEvent" /\ (r.event.kind # "failed" \/ Applied) => Agrees(r.copy)

\* A mail that was sent is marked on the row, or in the copy about to be saved.
Marked(r) ==
  LET row == IF r.at = "saveTrial" THEN r.copy ELSE tenant
  IN /\ "ending" \in told => row.reminded
     /\ "expired" \in told => row.notified

\* The inductive invariant for one request.
Serial(r) ==
  /\ Numbered
  /\ \A e \in due : Truthful(e)
  /\ Applied => Agrees(tenant) /\ \A e \in due : e.nr = news
  /\ Fresh(r)
  /\ InOrder(r)
  /\ Marked(r)

-----------------------------------------------------------------------------
(* Every step of the only request, and of Stripe, keeps it.                *)

\* What Stripe and its events say stays while they stay.
LEMMA StripeKept ==
  ASSUME UNCHANGED <<sessions, news, due>>
  PROVE  /\ Numbered => Numbered'
         /\ (\A e \in due : Truthful(e)) => (\A e \in due : Truthful(e))'
         /\ Applied' <=> Applied
         /\ (\A e \in due : e.nr = news) => (\A e \in due : e.nr = news)'
  BY DEF Numbered, Subscriptions, Truthful, Applied

\* A row agrees with Stripe as long as Stripe stays.
LEMMA AgreesKept ==
  ASSUME UNCHANGED <<sessions, news>>, NEW row, Agrees(row)
  PROVE  Agrees(row)'
  BY DEF Agrees, Says, Subscriptions, Live

\* A step that only moves the request.
LEMMA MoveSerial ==
  ASSUME NEW o, Serial(o), UNCHANGED <<tenant, sessions, news, due, told>>,
         NEW r, Fresh(r), InOrder(r), Marked(r)
  PROVE  Serial(r)'
<1>1. /\ Numbered' /\ (\A e \in due : Truthful(e))' /\ (Applied' <=> Applied)
      /\ (\A e \in due : e.nr = news) => (\A e \in due : e.nr = news)'
  BY StripeKept DEF Serial
<1>2. PICK t : t = tenant
  OBVIOUS
<1>3. Applied' => Agrees(tenant)' /\ (\A e \in due : e.nr = news)'
  BY <1>1, <1>2, AgreesKept DEF Serial
<1>4. Fresh(r)' /\ Marked(r)'
  BY DEF Fresh, Marked
<1>5. InOrder(r)'
  <2>1. PICK c : c = r.copy
    OBVIOUS
  <2>2. Agrees(c) => Agrees(c)'
    BY AgreesKept
  <2> QED BY <1>1, <2>1, <2>2 DEF InOrder
<1> QED BY <1>1, <1>3, <1>4, <1>5 DEF Serial

\* The row is saved and says the same of the subscription, or ends a trial.
LEMMA SaveSerial ==
  ASSUME IInv, NEW o \in Request, Serial(o), UNCHANGED <<sessions, news, due, told>>,
         o.at \in {"saveCustomer", "saveTrial", "saveEdit"}, tenant' = o.copy,
         NEW r, r.at \in {"idle", "createSession"}
  PROVE  Serial(r)'
<1>1. /\ Numbered' /\ (\A e \in due : Truthful(e))' /\ (Applied' <=> Applied)
      /\ (\A e \in due : e.nr = news) => (\A e \in due : e.nr = news)'
  BY StripeKept DEF Serial
<1>2. PICK c \in Row : c = o.copy
  BY DEF Request
<1>3. Applied => Agrees(c)
  <2> SUFFICES ASSUME Applied, NEW n \in Subscriptions, sessions[n].changed = news
               PROVE  Says(c, n)
    BY DEF Agrees
  <2>1. Says(tenant, n)
    BY DEF Serial, Agrees
  <2>2. tenant.status # "trial"
    BY <2>1 DEF Says, Live
  <2>3. c.subscription = tenant.subscription /\ c.status = tenant.status
        /\ c.cancels = tenant.cancels
    BY <1>2, <2>2 DEF Serial, Fresh
  <2> QED BY <2>1, <2>3 DEF Says
<1>4. Applied' => Agrees(tenant)' /\ (\A e \in due : e.nr = news)'
  BY <1>1, <1>2, <1>3, AgreesKept DEF Serial
<1>5. Fresh(r)' /\ InOrder(r)'
  BY DEF Fresh, InOrder
<1>6. Marked(r)'
  <2>1. /\ "ending" \in told => o.copy.reminded
        /\ "expired" \in told => o.copy.notified
    BY DEF Serial, Marked, Fresh
  <2> QED BY <2>1 DEF Marked
<1> QED BY <1>1, <1>4, <1>5, <1>6 DEF Serial

\* Requests that load the row, and the customer a checkout creates.
LEMMA LoadsSerial ==
  ASSUME IInv, NEW p \in Requests, Serial(req[p]),
         CheckoutLoad(p) \/ EditLoad(p) \/ RunDailyTrialEmails(p) \/ CreateCustomer(p)
  PROVE  \E r \in Request : Goes(p, r) /\ Serial(r)'
<1>1. PICK o \in Request : o = req[p]
  BY DEF IInv
<1>2. Serial(o) /\ tenant \in Row
  BY <1>1 DEF IInv, GoodRow
<1>3. UNCHANGED <<tenant, sessions, news, due, told>>
  BY DEF CheckoutLoad, EditLoad, RunDailyTrialEmails, CreateCustomer, stripe, rest
<1>4. ASSUME NEW at \in {"createCustomer", "createSession", "mailEnding",
                         "mailExpired", "saveEdit"},
             o.at = "idle",
             at \in {"mailEnding", "mailExpired"} => tenant.status = "trial",
             at = "mailEnding" => ~tenant.reminded,
             at = "mailExpired" => ~tenant.notified,
             Goes(p, [Idle EXCEPT !.copy = tenant, !.at = at])
      PROVE  \E r \in Request : Goes(p, r) /\ Serial(r)'
  <2>1. PICK r : r = [Idle EXCEPT !.copy = tenant, !.at = at]
    OBVIOUS
  <2>2. r \in Request /\ r.at = at /\ r.copy = tenant
    BY <1>2, <2>1, IdleGood DEF GoodRequest, Request
  <2>3. Fresh(r) /\ InOrder(r)
    BY <1>4, <2>2 DEF Fresh, InOrder
  <2>4. Marked(r)
    BY <1>2, <1>4, <2>2 DEF Serial, Marked
  <2> QED BY <1>2, <1>3, <1>4, <2>1, <2>2, <2>3, <2>4, MoveSerial
<1>5. CASE CheckoutLoad(p)
  <2>1. CASE tenant.customer = 0
    BY <1>1, <1>4, <1>5, <2>1 DEF CheckoutLoad, At
  <2>2. CASE tenant.customer # 0
    BY <1>1, <1>4, <1>5, <2>2 DEF CheckoutLoad, At
  <2> QED BY <2>1, <2>2
<1>6. CASE EditLoad(p)
  <2>1. [Idle EXCEPT !.at = "saveEdit", !.copy = tenant]
          = [Idle EXCEPT !.copy = tenant, !.at = "saveEdit"]
    BY DEF Idle
  <2> QED BY <1>1, <1>4, <1>6, <2>1 DEF EditLoad, At
<1>7. CASE RunDailyTrialEmails(p)
  <2>1. ASSUME NEW at
        PROVE  [Idle EXCEPT !.at = at, !.copy = tenant]
                 = [Idle EXCEPT !.copy = tenant, !.at = at]
    BY DEF Idle
  <2>2. CASE ShouldSendTrialEndingEmail(tenant)
             /\ Goes(p, [Idle EXCEPT !.at = "mailEnding", !.copy = tenant])
    BY <1>1, <1>4, <1>7, <2>1, <2>2
    DEF RunDailyTrialEmails, ShouldSendTrialEndingEmail, At
  <2>3. CASE ShouldSendTrialExpiredEmail(tenant)
             /\ Goes(p, [Idle EXCEPT !.at = "mailExpired", !.copy = tenant])
    BY <1>1, <1>4, <1>7, <2>1, <2>3
    DEF RunDailyTrialEmails, ShouldSendTrialExpiredEmail, At
  <2> QED BY <1>7, <2>2, <2>3 DEF RunDailyTrialEmails
<1>8. CASE CreateCustomer(p)
  <2>1. PICK k \in 0..MaxCustomers : k = customers + 1
    BY <1>8 DEF CreateCustomer, IInv, OthersType
  <2>2. PICK r : r = [o EXCEPT !.at = "saveCustomer", !.copy.customer = k]
    OBVIOUS
  <2>3. PICK c \in Row : c = o.copy
    BY DEF Request
  <2>4. /\ r \in Request /\ r.at = "saveCustomer"
        /\ r.copy = [c EXCEPT !.customer = k]
    <3>1. [c EXCEPT !.customer = k] \in Row
      BY <2>3 DEF Row
    <3> QED BY <2>2, <2>3, <3>1 DEF Request
  <2>5. /\ r.copy.subscription = c.subscription /\ r.copy.cancels = c.cancels
        /\ r.copy.status = c.status /\ r.copy.reminded = c.reminded
        /\ r.copy.notified = c.notified
    BY <2>3, <2>4 DEF Row
  <2>6. o.at = "createCustomer"
    BY <1>1, <1>8 DEF CreateCustomer, At
  <2>7. Fresh(r) /\ InOrder(r)
    BY <1>2, <2>3, <2>4, <2>5, <2>6 DEF Serial, Fresh, InOrder
  <2>8. Marked(r)
    BY <1>2, <2>4, <2>6 DEF Serial, Marked
  <2>9. Serial(r)'
    BY <1>2, <1>3, <2>7, <2>8, MoveSerial
  <2> QED BY <1>1, <1>8, <2>1, <2>2, <2>4, <2>9 DEF CreateCustomer
<1> QED BY <1>5, <1>6, <1>7, <1>8

\* Without faults events arrive in order, and those of the last change are of
\* one subscription.
LEMMA ArrivingFirst ==
  ASSUME IInv, ~Faults, NEW o, Serial(o), NEW kind, NEW e \in Arriving(kind)
  PROVE  /\ e \in due /\ e \in Event /\ e.kind = kind /\ Truthful(e)
         /\ e.subscription \in Subscriptions
         /\ \A f \in due : e.nr <= f.nr
         /\ e.nr = news => \A n \in Subscriptions :
                             sessions[n].changed = news <=> n = e.subscription
<1>1. /\ e \in due /\ e \in Event /\ e.kind = kind /\ Truthful(e)
      /\ e.subscription \in Subscriptions
      /\ \A f \in due : e.nr <= f.nr
  BY DEF Arriving, IInv, GoodEvent, Serial
<1>2. ASSUME e.nr = news
      PROVE  \A n \in Subscriptions : sessions[n].changed = news <=> n = e.subscription
  <2>1. e.subscription \in Sessions /\ sessions[e.subscription].changed \in Nat
    BY <1>1 DEF Subscriptions, IInv, GoodSessions, Session
  <2>2. news \in Nat /\ sessions[e.subscription].changed <= news
    BY <2>1 DEF Serial, Numbered, IInv, OthersType
  <2>3. sessions[e.subscription].changed = news
    BY <1>1, <1>2, <2>1, <2>2 DEF Truthful
  <2> QED BY <1>1, <2>3 DEF Serial, Numbered
<1> QED BY <1>1, <1>2

\* An event that is handled leaves a copy that agrees with it.
LEMMA WebhookSerial ==
  ASSUME IInv, ~Faults, NEW p \in Requests, Serial(req[p]), Webhook(p)
  PROVE  \E r \in Request : Goes(p, r) /\ Serial(r)'
<1>1. PICK o \in Request : o = req[p]
  BY DEF IInv
<1>2. Serial(o)
  BY <1>1
<1>3. PICK t \in Row : t = tenant
  BY DEF IInv, GoodRow
<1>4. ASSUME NEW e \in due, e \in Event, \A f \in due : e.nr <= f.nr,
             NEW row \in Row, row.reminded = t.reminded, row.notified = t.notified,
             NEW next \in {"retrieve", "saveEvent"}, Receives(p, e, row, next),
             next = "retrieve" => /\ e.kind \in {"completed", "paid"}
                                  /\ row.subscription = e.subscription
                                  /\ row.status = "active",
             next = "saveEvent" /\ e.nr = news /\ (e.kind # "failed" \/ Applied) =>
               Agrees(row)
      PROVE  \E r \in Request : Goes(p, r) /\ Serial(r)'
  <2>1. PICK r : r = [at |-> next, copy |-> row, event |-> e]
    OBVIOUS
  <2>2. r \in Request /\ r.at = next /\ r.copy = row /\ r.event = e
    BY <1>4, <2>1 DEF Request
  <2>3. Fresh(r) /\ InOrder(r)
    BY <1>3, <1>4, <2>2 DEF Fresh, InOrder
  <2>4. Marked(r)
    BY <1>1, <1>2, <1>4, <2>2 DEF Serial, Marked, Receives, At
  <2>5. UNCHANGED <<tenant, sessions, news, due, told>>
    BY <1>4 DEF Receives, stripe, rest
  <2> QED BY <1>2, <1>4, <2>1, <2>2, <2>3, <2>4, <2>5, MoveSerial DEF Receives
<1>5. ASSUME NEW e \in Event, GoodEvent(e)
      PROVE  \E l \in Row : /\ l = Linked(tenant, e.subscription)
                            /\ l.subscription = e.subscription
                            /\ l.reminded = t.reminded /\ l.notified = t.notified
  <2>1. Linked(tenant, e.subscription) \in Row
    BY <1>3, <1>5, LinkedGood DEF IInv
  <2> QED BY <1>3, <2>1 DEF Linked, Row
<1>6. CASE OnCheckoutCompleted(p)
  <2>1. PICK e \in Arriving("completed") :
          Receives(p, e, [Linked(tenant, e.subscription) EXCEPT
                            !.status = "active", !.cancels = FALSE], "retrieve")
    BY <1>6 DEF OnCheckoutCompleted
  <2>2. /\ e \in due /\ e \in Event /\ e.kind = "completed" /\ GoodEvent(e)
        /\ \A f \in due : e.nr <= f.nr
    BY <1>2, <2>1, ArrivingFirst DEF IInv
  <2>3. PICK l \in Row : /\ l = Linked(tenant, e.subscription)
                         /\ l.subscription = e.subscription
                         /\ l.reminded = t.reminded /\ l.notified = t.notified
    BY <1>5, <2>2
  <2>4. PICK row : row = [l EXCEPT !.status = "active", !.cancels = FALSE]
    OBVIOUS
  <2>5. /\ row \in Row /\ row.subscription = e.subscription /\ row.status = "active"
        /\ row.reminded = t.reminded /\ row.notified = t.notified
    BY <2>3, <2>4 DEF Row
  <2> QED BY <1>4, <2>1, <2>2, <2>3, <2>4, <2>5
<1>7. CASE OnInvoicePaid(p)
  <2>1. PICK e \in Arriving("paid") :
          Receives(p, e, [Linked(tenant, e.subscription) EXCEPT !.status = "active"],
                   "retrieve")
    BY <1>7 DEF OnInvoicePaid
  <2>2. /\ e \in due /\ e \in Event /\ e.kind = "paid" /\ GoodEvent(e)
        /\ \A f \in due : e.nr <= f.nr
    BY <1>2, <2>1, ArrivingFirst DEF IInv
  <2>3. PICK l \in Row : /\ l = Linked(tenant, e.subscription)
                         /\ l.subscription = e.subscription
                         /\ l.reminded = t.reminded /\ l.notified = t.notified
    BY <1>5, <2>2
  <2>4. PICK row : row = [l EXCEPT !.status = "active"]
    OBVIOUS
  <2>5. /\ row \in Row /\ row.subscription = e.subscription /\ row.status = "active"
        /\ row.reminded = t.reminded /\ row.notified = t.notified
    BY <2>3, <2>4 DEF Row
  <2> QED BY <1>4, <2>1, <2>2, <2>3, <2>4, <2>5
<1>8. CASE OnSubscriptionChanged(p)
  <2>1. PICK e \in Arriving("changed") :
          Receives(p, e, [Linked(tenant, e.subscription) EXCEPT
                            !.status  = StatusOf(e.state),
                            !.cancels = CancelsAt(e.state, e.cancelling)], "saveEvent")
    BY <1>8 DEF OnSubscriptionChanged
  <2>2. /\ e \in due /\ e \in Event /\ e.kind = "changed" /\ GoodEvent(e)
        /\ Truthful(e) /\ e.subscription \in Subscriptions
        /\ \A f \in due : e.nr <= f.nr
        /\ e.nr = news => \A n \in Subscriptions :
                            sessions[n].changed = news <=> n = e.subscription
    BY <1>2, <2>1, ArrivingFirst DEF IInv
  <2>3. PICK l \in Row : /\ l = Linked(tenant, e.subscription)
                         /\ l.subscription = e.subscription
                         /\ l.reminded = t.reminded /\ l.notified = t.notified
    BY <1>5, <2>2
  <2>4. PICK status, cancels : /\ status = StatusOf(e.state)
                               /\ cancels = CancelsAt(e.state, e.cancelling)
    OBVIOUS
  <2>5. status \in {"active", "past_due", "cancelled"} /\ cancels \in BOOLEAN
    BY <2>2, <2>4 DEF StatusOf, CancelsAt, Event, SubscriptionStates
  <2>6. PICK row : row = [l EXCEPT !.status = status, !.cancels = cancels]
    OBVIOUS
  <2>7. /\ row \in Row /\ row.subscription = e.subscription
        /\ row.status = status /\ row.cancels = cancels
        /\ row.reminded = t.reminded /\ row.notified = t.notified
    BY <2>3, <2>5, <2>6 DEF Row
  <2>8. ASSUME e.nr = news PROVE Agrees(row)
    <3> SUFFICES ASSUME NEW n \in Subscriptions, sessions[n].changed = news
                 PROVE  Says(row, n)
      BY DEF Agrees
    <3>1. n = e.subscription /\ e.nr = sessions[n].changed
      BY <2>2, <2>8
    <3>2. /\ e.state = sessions[n].state /\ e.cancelling = sessions[n].cancelling
          /\ e.state \in SubscriptionStates /\ e.cancelling \in BOOLEAN
      BY <2>2, <3>1 DEF Truthful, Event
    <3>3. status = IF Live(n) THEN sessions[n].state ELSE "cancelled"
      BY <2>4, <3>2 DEF StatusOf, Live, SubscriptionStates, Ended
    <3>4. cancels = (sessions[n].cancelling /\ sessions[n].state # "canceled")
      BY <2>4, <3>2 DEF CancelsAt, Live, SubscriptionStates
    <3> QED BY <2>7, <3>1, <3>3, <3>4 DEF Says
  <2> QED BY <1>4, <2>1, <2>2, <2>3, <2>4, <2>6, <2>7, <2>8
<1>9. CASE OnInvoicePaymentFailed(p)
  <2>1. PICK e \in Arriving("failed") :
          Receives(p, e, [tenant EXCEPT !.status = "past_due"], "saveEvent")
    BY <1>9 DEF OnInvoicePaymentFailed
  <2>2. /\ e \in due /\ e \in Event /\ e.kind = "failed"
        /\ Truthful(e) /\ e.subscription \in Subscriptions
        /\ \A f \in due : e.nr <= f.nr
        /\ e.nr = news => \A n \in Subscriptions :
                            sessions[n].changed = news <=> n = e.subscription
    BY <1>2, <2>1, ArrivingFirst
  <2>3. PICK row : row = [t EXCEPT !.status = "past_due"]
    OBVIOUS
  <2>4. /\ row \in Row /\ row.subscription = t.subscription
        /\ row.status = "past_due" /\ row.cancels = t.cancels
        /\ row.reminded = t.reminded /\ row.notified = t.notified
    BY <2>3 DEF Row
  <2>5. ASSUME e.nr = news, Applied PROVE Agrees(row)
    <3> SUFFICES ASSUME NEW n \in Subscriptions, sessions[n].changed = news
                 PROVE  Says(row, n)
      BY DEF Agrees
    <3>1. n = e.subscription /\ e.nr = sessions[n].changed
      BY <2>2, <2>5
    <3>2. sessions[n].state = "past_due"
      BY <2>2, <3>1 DEF Truthful
    <3>3. Says(t, n)
      BY <1>2, <1>3, <2>5 DEF Serial, Agrees
    <3> QED BY <2>4, <3>2, <3>3 DEF Says, Live
  <2> QED BY <1>3, <1>4, <2>1, <2>2, <2>3, <2>4, <2>5
<1> QED BY <1>6, <1>7, <1>8, <1>9 DEF Webhook

\* The subscription is asked for, and is still what the event said if that is
\* of the last change.
LEMMA RetrieveSerial ==
  ASSUME IInv, ~Faults, NEW p \in Requests, Serial(req[p]), Retrieve(p)
  PROVE  \E r \in Request : Goes(p, r) /\ Serial(r)'
<1>1. PICK o \in Request : o = req[p]
  BY DEF IInv
<1>2. Serial(o) /\ o.at = "retrieve" /\ o.event \in Event /\ GoodRequest(o)
  BY <1>1 DEF Retrieve, At, IInv, GoodRequest
<1>3. PICK e \in Event : e = o.event
  BY <1>2
<1>4. /\ e \in due /\ \A f \in due : e.nr <= f.nr
      /\ e.kind \in {"completed", "paid"} /\ Truthful(e)
      /\ e.subscription \in Subscriptions /\ e.subscription \in Sessions
  BY <1>2, <1>3 DEF Serial, InOrder, IInv, GoodEvent, Subscriptions
<1>5. PICK s \in Session : s = sessions[e.subscription]
  BY <1>4 DEF IInv, GoodSessions
<1>6. PICK cancels \in BOOLEAN : cancels = CancelsAt(s.state, s.cancelling)
  BY <1>5 DEF CancelsAt, Session
<1>7. PICK c \in Row : c = o.copy
  BY DEF Request
<1>8. PICK r : r = [o EXCEPT !.at = "saveEvent", !.copy.cancels = cancels]
  OBVIOUS
<1>9. Goes(p, r) /\ UNCHANGED <<tenant, sessions, news, due, told>>
  BY <1>1, <1>3, <1>5, <1>6, <1>8 DEF Retrieve, stripe, rest
<1>10. /\ r \in Request /\ r.at = "saveEvent" /\ r.event = e
       /\ r.copy = [c EXCEPT !.cancels = cancels]
  <2>1. [c EXCEPT !.cancels = cancels] \in Row
    BY DEF Row
  <2> QED BY <1>3, <1>7, <1>8, <2>1 DEF Request
<1>11. /\ r.copy.subscription = c.subscription /\ r.copy.cancels = cancels
       /\ r.copy.status = c.status /\ r.copy.reminded = c.reminded
       /\ r.copy.notified = c.notified
  BY <1>10 DEF Row
<1>12. Fresh(r)
  BY <1>2, <1>7, <1>10, <1>11 DEF Serial, Fresh
<1>13. Marked(r)
  BY <1>2, <1>10 DEF Serial, Marked
<1>14. ASSUME e.nr = news PROVE Agrees(r.copy)
  <2> SUFFICES ASSUME NEW n \in Subscriptions, sessions[n].changed = news
               PROVE  Says(r.copy, n)
    BY DEF Agrees
  <2>1. sessions[e.subscription].changed = news
    <3>1. sessions[e.subscription].changed <= news
      BY <1>2, <1>4 DEF Serial, Numbered
    <3> QED BY <1>4, <1>5, <1>14, <3>1 DEF Truthful, IInv, OthersType, Session
  <2>2. n = e.subscription
    BY <1>2, <1>4, <2>1 DEF Serial, Numbered
  <2>3. s.state = "active"
    BY <1>4, <1>5, <1>14, <2>1 DEF Truthful
  <2>4. c.subscription = n /\ c.status = "active"
    BY <1>2, <1>3, <1>7, <1>14, <2>2 DEF Serial, InOrder
  <2>5. cancels = s.cancelling
    BY <1>5, <1>6, <2>3 DEF CancelsAt, Session
  <2> QED BY <1>5, <1>11, <2>2, <2>3, <2>4, <2>5 DEF Says, Live, Session
<1>15. InOrder(r)
  BY <1>4, <1>10, <1>14 DEF InOrder
<1> QED BY <1>2, <1>9, <1>10, <1>12, <1>13, <1>15, MoveSerial

\* The event is done with.  If it was the last change's own, the row agrees
\* with Stripe from now on.
LEMMA SaveEventSerial ==
  ASSUME IInv, ~Faults, NEW p \in Requests, Serial(req[p]), SaveEvent(p)
  PROVE  \E r \in Request : Goes(p, r) /\ Serial(r)'
<1>1. PICK o \in Request : o = req[p]
  BY DEF IInv
<1>2. Serial(o) /\ o.at = "saveEvent"
  BY <1>1 DEF SaveEvent, At
<1>3. PICK e : e = o.event
  OBVIOUS
<1>4. /\ e \in due /\ \A f \in due : e.nr <= f.nr
      /\ e.nr = news /\ (e.kind # "failed" \/ Applied) => Agrees(o.copy)
  BY <1>2, <1>3 DEF Serial, InOrder
<1>5. /\ tenant' = o.copy /\ due' = due \ {e} /\ Goes(p, Idle)
      /\ sessions' = sessions /\ news' = news /\ told' = told
  BY <1>1, <1>3 DEF SaveEvent, stripe, rest
<1>6. /\ Idle \in Request /\ Idle.at = "idle"
  BY IdleGood DEF GoodRequest, Idle
<1>7. Numbered'
  BY <1>2, <1>5 DEF Serial, Numbered, Subscriptions
<1>8. (\A f \in due : Truthful(f))'
  BY <1>2, <1>5 DEF Serial, Truthful
<1>9. \A f \in due : f \in Event /\ f.nr \in Nat /\ f.nr <= news
  <2> SUFFICES ASSUME NEW f \in due PROVE f \in Event /\ f.nr \in Nat /\ f.nr <= news
    OBVIOUS
  <2>1. f \in Event /\ f.nr \in Nat /\ f.subscription \in Sessions
    BY DEF IInv, GoodEvent, Event
  <2>2. f.nr <= sessions[f.subscription].changed /\ sessions[f.subscription].changed <= news
    BY <1>2, <2>1 DEF Serial, Truthful, Numbered
  <2>3. sessions[f.subscription].changed \in Nat /\ news \in Nat
    BY <2>1 DEF IInv, GoodSessions, Session, OthersType
  <2> QED BY <2>1, <2>2, <2>3
<1>10. ASSUME Applied' PROVE Agrees(tenant)' /\ (\A f \in due : f.nr = news)'
  <2>1. \A f \in due : f # e /\ f.nr = news => f.kind # "changed"
    BY <1>5, <1>10 DEF Applied
  <2>2. CASE e.nr = news
    <3>1. \A f \in due : f.nr = news
      <4> SUFFICES ASSUME NEW f \in due PROVE f.nr = news
        OBVIOUS
      <4> QED BY <1>4, <1>9, <2>2 DEF IInv, OthersType
    <3>2. e.kind = "failed" => Applied
      BY <2>1 DEF Applied
    <3>3. Agrees(o.copy)
      BY <1>4, <2>2, <3>2
    <3>4. PICK c : c = o.copy
      OBVIOUS
    <3> QED BY <1>5, <3>1, <3>3, <3>4, AgreesKept
  <2>3. CASE e.nr # news
    BY <1>2, <1>4, <2>1, <2>3 DEF Serial, Applied
  <2> QED BY <2>2, <2>3
<1>11. Fresh(Idle)' /\ InOrder(Idle)'
  BY <1>6 DEF Fresh, InOrder
<1>12. Marked(Idle)'
  <2>1. /\ "ending" \in told => o.copy.reminded
        /\ "expired" \in told => o.copy.notified
    BY <1>2 DEF Serial, Marked, Fresh
  <2> QED BY <1>5, <1>6, <2>1 DEF Marked
<1>13. Serial(Idle)'
  BY <1>7, <1>8, <1>10, <1>11, <1>12 DEF Serial
<1> QED BY <1>5, <1>6, <1>13

\* A mail that goes out is marked in the copy.
LEMMA MailsSerial ==
  ASSUME IInv, NEW p \in Requests, Serial(req[p]),
         MailTrialEnding(p) \/ MailTrialExpired(p)
  PROVE  \E r \in Request : Goes(p, r) /\ Serial(r)'
<1>1. PICK o \in Request : o = req[p]
  BY DEF IInv
<1>2. Serial(o) /\ o.at \in {"mailEnding", "mailExpired"}
  BY <1>1 DEF MailTrialEnding, MailTrialExpired, At
<1>3. PICK c \in Row : c = o.copy
  BY DEF Request
<1>4. UNCHANGED <<tenant, sessions, news, due>>
  BY DEF MailTrialEnding, MailTrialExpired, stripe
<1>5. /\ c.subscription = tenant.subscription /\ c.cancels = tenant.cancels
      /\ c.status = tenant.status /\ c.status = "trial"
      /\ c.reminded = tenant.reminded /\ c.notified = tenant.notified
      /\ "ending" \in told => tenant.reminded
      /\ "expired" \in told => tenant.notified
  BY <1>2, <1>3 DEF Serial, Fresh, Marked
<1>6. ASSUME NEW r \in Request, r.at = "saveTrial", Goes(p, r),
             r.copy.subscription = c.subscription, r.copy.cancels = c.cancels,
             "ending" \in told' => r.copy.reminded,
             "expired" \in told' => r.copy.notified
      PROVE  \E q \in Request : Goes(p, q) /\ Serial(q)'
  <2>1. /\ Numbered' /\ (\A e \in due : Truthful(e))' /\ (Applied' <=> Applied)
        /\ (\A e \in due : e.nr = news) => (\A e \in due : e.nr = news)'
    BY <1>2, <1>4, StripeKept DEF Serial
  <2>2. PICK t : t = tenant
    OBVIOUS
  <2>3. Applied' => Agrees(tenant)' /\ (\A e \in due : e.nr = news)'
    BY <1>2, <1>4, <2>1, <2>2, AgreesKept DEF Serial
  <2>4. Fresh(r)'
    BY <1>4, <1>5, <1>6 DEF Fresh
  <2>5. InOrder(r)'
    BY <1>6 DEF InOrder
  <2>6. Marked(r)'
    BY <1>6 DEF Marked
  <2>7. Serial(r)'
    BY <2>1, <2>3, <2>4, <2>5, <2>6 DEF Serial
  <2> QED BY <1>6, <2>7
<1>7. CASE MailTrialEnding(p)
  <2>1. PICK r : r = [o EXCEPT !.at = "saveTrial", !.copy.reminded = TRUE]
    OBVIOUS
  <2>2. /\ r \in Request /\ r.at = "saveTrial"
        /\ r.copy = [c EXCEPT !.reminded = TRUE]
    BY <1>3, <2>1 DEF Request, Row
  <2>3. /\ r.copy.subscription = c.subscription /\ r.copy.cancels = c.cancels
        /\ r.copy.reminded = TRUE /\ r.copy.notified = c.notified
    BY <2>2 DEF Row
  <2>4. "expired" \in told' => r.copy.notified
    BY <1>5, <1>7, <2>3 DEF MailTrialEnding
  <2> QED BY <1>1, <1>6, <1>7, <2>1, <2>2, <2>3, <2>4 DEF MailTrialEnding
<1>8. CASE MailTrialExpired(p)
  <2>1. PICK r : r = [o EXCEPT !.at = "saveTrial", !.copy.notified = TRUE,
                               !.copy.status = "expired"]
    OBVIOUS
  <2>2. /\ r \in Request /\ r.at = "saveTrial"
        /\ r.copy = [c EXCEPT !.notified = TRUE, !.status = "expired"]
    BY <1>3, <2>1 DEF Request, Row
  <2>3. /\ r.copy.subscription = c.subscription /\ r.copy.cancels = c.cancels
        /\ r.copy.notified = TRUE /\ r.copy.reminded = c.reminded
    BY <2>2 DEF Row
  <2>4. "ending" \in told' => r.copy.reminded
    BY <1>5, <1>8, <2>3 DEF MailTrialExpired
  <2> QED BY <1>1, <1>6, <1>8, <2>1, <2>2, <2>3, <2>4 DEF MailTrialExpired
<1> QED BY <1>7, <1>8

\* The saves of a checkout, of the daily job and of an edit.
LEMMA SavesSerial ==
  ASSUME IInv, NEW p \in Requests, Serial(req[p]),
         SaveCustomer(p) \/ SaveTrial(p) \/ EditSave(p)
  PROVE  \E r \in Request : Goes(p, r) /\ Serial(r)'
<1>1. PICK o \in Request : o = req[p]
  BY DEF IInv
<1>2. Serial(o) /\ o.at \in {"saveCustomer", "saveTrial", "saveEdit"}
  BY <1>1 DEF SaveCustomer, SaveTrial, EditSave, At
<1>3. tenant' = o.copy /\ UNCHANGED <<sessions, news, due, told>>
  BY <1>1 DEF SaveCustomer, SaveTrial, EditSave, stripe, rest
<1>4. PICK r \in Request : r.at \in {"idle", "createSession"} /\ Goes(p, r)
  <2>1. CASE SaveCustomer(p)
    <3>1. PICK r : r = [o EXCEPT !.at = "createSession"]
      OBVIOUS
    <3>2. r \in Request /\ r.at = "createSession"
      BY <3>1 DEF Request
    <3> QED BY <1>1, <2>1, <3>1, <3>2 DEF SaveCustomer
  <2>2. CASE SaveTrial(p) \/ EditSave(p)
    <3>1. Idle \in Request /\ Idle.at = "idle"
      BY IdleGood DEF GoodRequest, Idle
    <3> QED BY <2>2, <3>1 DEF SaveTrial, EditSave
  <2> QED BY <2>1, <2>2
<1> QED BY <1>2, <1>3, <1>4, SaveSerial

\* A session that is opened is not yet a subscription.
LEMMA CreateSessionSerial ==
  ASSUME IInv, NEW p \in Requests, Serial(req[p]), CreateSession(p)
  PROVE  \E r \in Request : Goes(p, r) /\ Serial(r)'
<1>1. PICK o \in Request : o = req[p]
  BY DEF IInv
<1>2. Serial(o) /\ o.at = "createSession"
  BY <1>1 DEF CreateSession, At
<1>3. /\ Idle \in Request /\ Idle.at = "idle" /\ Goes(p, Idle)
      /\ UNCHANGED <<tenant, news, due, told>>
  BY IdleGood DEF CreateSession, GoodRequest, Idle, rest
<1>4. PICK n \in Sessions :
        /\ sessions[n].state = "none"
        /\ sessions' = [sessions EXCEPT ![n].state = "open",
                                        ![n].customer = o.copy.customer]
  BY <1>1 DEF CreateSession, Unused
<1>5. /\ \A m \in Sessions : m # n => sessions'[m] = sessions[m]
      /\ sessions'[n].state = "open" /\ sessions'[n].changed = sessions[n].changed
  <2>1. sessions \in [Sessions -> Session] /\ sessions[n] \in Session
    BY DEF IInv, GoodSessions
  <2>2. sessions'[n] = [sessions[n] EXCEPT !.state = "open", !.customer = o.copy.customer]
    BY <1>4, <2>1 DEF Session
  <2> QED BY <1>4, <2>1, <2>2 DEF Session
<1>6. n \notin Subscriptions /\ Subscriptions' = Subscriptions
  BY <1>4, <1>5 DEF Subscriptions, SubscriptionStates, Ended
<1>7. Numbered'
  <2>1. \A m \in Sessions : sessions'[m].changed = sessions[m].changed
    BY <1>5
  <2>2. Subscriptions \subseteq Sessions
    BY DEF Subscriptions
  <2>3. Numbered
    BY <1>2 DEF Serial
  <2> QED BY <1>3, <1>6, <2>1, <2>2, <2>3 DEF Numbered
<1>8. (\A e \in due : Truthful(e))'
  <2> SUFFICES ASSUME NEW e \in due PROVE Truthful(e)'
    BY <1>3
  <2>1. e.subscription \in Sessions /\ e.subscription # n
    BY <1>6 DEF IInv, GoodEvent, Event
  <2>2. Truthful(e)
    BY <1>2 DEF Serial
  <2> QED BY <1>5, <2>1, <2>2 DEF Truthful
<1>9. Applied' => Agrees(tenant)' /\ (\A e \in due : e.nr = news)'
  <2> SUFFICES ASSUME Applied PROVE Agrees(tenant)' /\ (\A e \in due : e.nr = news)'
    BY <1>3 DEF Applied
  <2>1. Agrees(tenant) /\ \A e \in due : e.nr = news
    BY <1>2 DEF Serial
  <2>2. ASSUME NEW m \in Subscriptions, sessions'[m].changed = news' PROVE Says(tenant, m)'
    <3>1. sessions'[m] = sessions[m]
      BY <1>5, <1>6, <2>2 DEF Subscriptions
    <3> QED BY <1>3, <2>1, <2>2, <3>1 DEF Agrees, Says, Live
  <2> QED BY <1>3, <1>6, <2>1, <2>2 DEF Agrees
<1>10. Fresh(Idle)' /\ InOrder(Idle)'
  BY <1>3 DEF Fresh, InOrder
<1>11. Marked(Idle)'
  BY <1>2, <1>3 DEF Serial, Marked
<1>12. Serial(Idle)'
  BY <1>7, <1>8, <1>9, <1>10, <1>11 DEF Serial
<1> QED BY <1>3, <1>12

\* A change that Stripe reports is the last one, and not yet applied.
LEMMA ReportsSerial ==
  ASSUME IInv, NEW o \in Request, Serial(o), NEW n \in Sessions,
         NEW s \in Session, s.state \in SubscriptionStates,
         NEW kinds \in SUBSET {"completed", "changed", "paid", "failed"},
         "changed" \in kinds,
         "completed" \in kinds \/ "paid" \in kinds => s.state = "active",
         "failed" \in kinds => s.state = "past_due",
         Reports(n, s, kinds)
  PROVE  Serial(o)'
<1>1. PICK k \in Nat : k = news + 1
  BY DEF IInv, OthersType
<1>2. PICK t : t = [s EXCEPT !.changed = k]
  OBVIOUS
<1>3. t.state = s.state /\ t.cancelling = s.cancelling /\ t.changed = k
  BY <1>2 DEF Session
<1>4. /\ sessions' = [sessions EXCEPT ![n] = t] /\ news' = k
      /\ UNCHANGED <<tenant, told>>
      /\ due' = due \cup {[kind |-> i, subscription |-> n, state |-> s.state,
                           cancelling |-> s.cancelling, nr |-> k] : i \in kinds}
  BY <1>1, <1>2 DEF Reports, rest
<1>5. /\ sessions'[n] = t
      /\ \A m \in Sessions : m # n => sessions'[m] = sessions[m]
  BY <1>4 DEF IInv, GoodSessions
<1>6. \A m \in Sessions : sessions[m].changed \in Nat /\ sessions[m].changed < k
  <2> SUFFICES ASSUME NEW m \in Sessions
               PROVE  sessions[m].changed \in Nat /\ sessions[m].changed < k
    OBVIOUS
  <2>1. sessions[m].changed \in Nat /\ news \in Nat
    BY DEF IInv, GoodSessions, Session, OthersType
  <2>2. sessions[m].changed <= news
    BY DEF Serial, Numbered
  <2> QED BY <1>1, <2>1, <2>2
<1>7. Numbered'
  <2>1. n \in Subscriptions' /\ \A m \in Sessions :
                                  m # n => (m \in Subscriptions' <=> m \in Subscriptions)
    BY <1>3, <1>5 DEF Subscriptions
  <2>2. k # 0
    BY <1>1 DEF IInv, OthersType
  <2>3. Subscriptions' \subseteq Sessions
    BY DEF Subscriptions
  <2>4. \A m \in Sessions : sessions'[m].changed <= k
    BY <1>3, <1>5, <1>6
  <2>5. \A m \in Sessions : m \in Subscriptions' <=> sessions'[m].changed # 0
    BY <1>3, <1>5, <2>1, <2>2 DEF Serial, Numbered
  <2>6. \A m, j \in Subscriptions' :
          sessions'[m].changed = sessions'[j].changed => m = j
    <3> SUFFICES ASSUME NEW m \in Subscriptions', NEW j \in Subscriptions',
                        sessions'[m].changed = sessions'[j].changed, m # j
                 PROVE  FALSE
      OBVIOUS
    <3>1. CASE m = n \/ j = n
      BY <1>3, <1>5, <1>6, <2>3, <3>1
    <3>2. CASE m # n /\ j # n
      BY <1>5, <2>1, <2>3, <3>2 DEF Serial, Numbered
    <3> QED BY <3>1, <3>2
  <2>7. \E m \in Subscriptions' : sessions'[m].changed = k
    BY <1>3, <1>5, <2>1
  <2> QED BY <1>4, <2>4, <2>5, <2>6, <2>7 DEF Numbered
<1>8. \A e \in due : e.subscription \in Sessions /\ e.nr \in Nat /\ e.nr < k
  <2> SUFFICES ASSUME NEW e \in due
               PROVE  e.subscription \in Sessions /\ e.nr \in Nat /\ e.nr < k
    OBVIOUS
  <2>1. e.subscription \in Sessions /\ e.nr \in Nat
    BY DEF IInv, GoodEvent, Event
  <2>2. e.nr <= sessions[e.subscription].changed
    BY DEF Serial, Truthful
  <2> QED BY <1>1, <1>6, <2>1, <2>2
<1>9. ASSUME NEW e \in due', e \notin due
      PROVE  \E i \in kinds : e = [kind |-> i, subscription |-> n, state |-> s.state,
                                   cancelling |-> s.cancelling, nr |-> k]
  BY <1>4, <1>9
<1>10. (\A e \in due : Truthful(e))'
  <2> SUFFICES ASSUME NEW e \in due' PROVE Truthful(e)'
    OBVIOUS
  <2>1. CASE e \in due
    <3>1. Truthful(e)
      BY <2>1 DEF Serial
    <3>2. CASE e.subscription = n
      BY <1>3, <1>5, <1>8, <2>1, <3>1, <3>2 DEF Truthful
    <3>3. CASE e.subscription # n
      BY <1>5, <1>8, <2>1, <3>1, <3>3 DEF Truthful
    <3> QED BY <3>2, <3>3
  <2>2. CASE e \notin due
    <3>1. PICK i \in kinds : e = [kind |-> i, subscription |-> n, state |-> s.state,
                                  cancelling |-> s.cancelling, nr |-> k]
      BY <1>9, <2>2
    <3>2. /\ e.kind = i /\ e.subscription = n /\ e.state = s.state
          /\ e.cancelling = s.cancelling /\ e.nr = k
      BY <3>1
    <3> QED BY <1>3, <1>5, <3>2 DEF Truthful
  <2> QED BY <2>1, <2>2
<1>11. ~Applied'
  <2>1. PICK e : e = [kind |-> "changed", subscription |-> n, state |-> s.state,
                      cancelling |-> s.cancelling, nr |-> k]
    OBVIOUS
  <2>2. e \in due' /\ e.kind = "changed" /\ e.nr = news'
    BY <1>4, <2>1
  <2> QED BY <2>2 DEF Applied
<1>12. Fresh(o)' /\ Marked(o)'
  BY <1>4 DEF Serial, Fresh, Marked
<1>13. InOrder(o)'
  <2> SUFFICES ASSUME o.at \in {"retrieve", "saveEvent"} PROVE InOrder(o)'
    BY DEF InOrder
  <2>1. PICK e : e = o.event
    OBVIOUS
  <2>2. e \in due /\ (\A f \in due : e.nr <= f.nr)
        /\ (o.at = "retrieve" => e.kind \in {"completed", "paid"})
    BY <2>1 DEF Serial, InOrder
  <2>3. e.nr \in Nat /\ e.nr < k /\ e \in due'
    BY <1>4, <1>8, <2>2
  <2>4. ASSUME NEW f \in due' PROVE e.nr <= f.nr
    <3>1. CASE f \in due
      BY <2>2, <3>1
    <3>2. CASE f \notin due
      <4>1. f.nr = k
        BY <1>9, <3>2
      <4> QED BY <2>3, <4>1
    <3> QED BY <3>1, <3>2
  <2> QED BY <1>4, <2>1, <2>2, <2>3, <2>4 DEF InOrder
<1> QED BY <1>7, <1>10, <1>11, <1>12, <1>13 DEF Serial

\* Every step of Stripe.
LEMMA StripeSerial ==
  ASSUME IInv, NEW o \in Request, Serial(o), StripeMoves
  PROVE  Serial(o)'
<1>1. PICK n \in Sessions : \/ Pays(n) \/ InvoicePaid(n) \/ InvoiceFails(n)
                            \/ SwitchesCancelling(n) \/ Ends(n)
  BY DEF StripeMoves
<1>2. PICK s \in Session : s = sessions[n]
  BY DEF IInv, GoodSessions
<1>3. ASSUME NEW state \in SubscriptionStates,
             NEW kinds \in SUBSET {"completed", "changed", "paid", "failed"},
             "changed" \in kinds,
             "completed" \in kinds \/ "paid" \in kinds => state = "active",
             "failed" \in kinds => state = "past_due",
             Reports(n, [sessions[n] EXCEPT !.state = state], kinds)
      PROVE  Serial(o)'
  <2>1. /\ [s EXCEPT !.state = state] \in Session
        /\ [s EXCEPT !.state = state].state = state
    BY DEF Session
  <2> QED BY <1>2, <1>3, <2>1, ReportsSerial
<1>4. CASE Pays(n)
  BY <1>3, <1>4 DEF Pays, SubscriptionStates
<1>5. CASE InvoicePaid(n)
  BY <1>3, <1>5 DEF InvoicePaid, SubscriptionStates
<1>6. CASE InvoiceFails(n)
  BY <1>3, <1>6 DEF InvoiceFails, SubscriptionStates
<1>7. CASE SwitchesCancelling(n)
  <2>1. /\ [s EXCEPT !.cancelling = ~@] \in Session
        /\ [s EXCEPT !.cancelling = ~@].state = s.state
    BY DEF Session
  <2> QED BY <1>2, <1>7, <2>1, ReportsSerial DEF SwitchesCancelling, Live, SubscriptionStates
<1>8. CASE Ends(n)
  <2>1. PICK state \in Ended : Reports(n, [sessions[n] EXCEPT !.state = state], {"changed"})
    BY <1>8 DEF Ends
  <2> QED BY <1>3, <1>8, <2>1 DEF Ends, SubscriptionStates
<1> QED BY <1>1, <1>4, <1>5, <1>6, <1>7, <1>8

-----------------------------------------------------------------------------
(* The theorems.                                                           *)

\* A firm of which Stripe has reported nothing.
LEMMA InitSerial == Init => Serial(Idle)
<1> SUFFICES ASSUME Init PROVE Serial(Idle)
  OBVIOUS
<1>1. Numbered
  BY DEF Init, Numbered, NoSession, Subscriptions, SubscriptionStates, Ended
<1>2. Agrees(tenant)
  BY DEF Init, Agrees, NoSession, Subscriptions, SubscriptionStates, Ended
<1>3. Fresh(Idle) /\ InOrder(Idle) /\ Marked(Idle)
  BY DEF Init, Fresh, InOrder, Marked, Idle
<1> QED BY <1>1, <1>2, <1>3 DEF Init, Serial

\* One request at a time, with no failures and events in order.
THEOREM SerialInvariance ==
  ASSUME NEW CONSTANT c, Requests = {c}, ~Faults
  PROVE  Spec => []Serial(req[c])
<1>1. Init => Serial(req[c])
  BY InitSerial DEF Init
<1>2. IInv /\ Serial(req[c]) /\ [Next]_vars => Serial(req[c])'
  <2> SUFFICES ASSUME IInv, Serial(req[c]), [Next]_vars PROVE Serial(req[c])'
    OBVIOUS
  <2>1. PICK o \in Request : o = req[c]
    BY DEF IInv
  <2>2. ASSUME \E r \in Request : Goes(c, r) /\ Serial(r)' PROVE Serial(req[c])'
    <3>1. PICK r \in Request : Goes(c, r) /\ Serial(r)'
      BY <2>2
    <3>2. req'[c] = r
      BY <3>1 DEF Goes, IInv
    <3> QED BY <3>1, <3>2
  <2>3. CASE StripeMoves
    <3>1. req' = req
      BY <2>3 DEF StripeMoves, Pays, InvoicePaid, InvoiceFails, SwitchesCancelling,
                  Ends, Reports
    <3> QED BY <2>1, <2>3, <3>1, StripeSerial
  <2>4. CASE TrialRuns \/ OwnerLeaves \/ UNCHANGED vars
    <3>1. UNCHANGED <<tenant, sessions, news, due, told, req>>
      BY <2>4 DEF TrialRuns, OwnerLeaves, vars, stripe, rest
    <3>2. Fresh(o) /\ InOrder(o) /\ Marked(o)
      BY <2>1 DEF Serial
    <3> QED BY <2>1, <3>1, <3>2, MoveSerial
  <2>5. CASE CheckoutLoad(c) \/ EditLoad(c) \/ RunDailyTrialEmails(c)
    BY <2>2, <2>5, LoadsSerial
  <2>6. CASE Webhook(c)
    BY <2>2, <2>6, WebhookSerial
  <2>7. CASE Continues(c)
    BY <2>2, <2>7, LoadsSerial, RetrieveSerial, SaveEventSerial, MailsSerial,
       SavesSerial, CreateSessionSerial DEF Continues
  <2>8. CASE Fails(c)
    BY <2>8 DEF Fails
  <2> QED BY <2>3, <2>4, <2>5, <2>6, <2>7, <2>8 DEF Next
<1> QED BY <1>1, <1>2, Invariance, PTL DEF Spec

\* When every event has been applied the row says what Stripe says of the
\* subscription that changed last, whatever checkouts, edits and daily jobs
\* came between the events.
THEOREM FollowsCorrect ==
  ASSUME NEW CONSTANT c, Requests = {c}, ~Faults
  PROVE  Spec => []FollowsStripe
<1>1. IInv /\ Serial(req[c]) => FollowsStripe
  <2> SUFFICES ASSUME IInv, Serial(req[c]), due = {}, NEW n \in Subscriptions, Latest(n)
               PROVE  Says(tenant, n)
    BY DEF FollowsStripe, Says
  <2>1. Agrees(tenant)
    BY DEF Serial, Applied
  <2>2. n \in Sessions /\ sessions[n].changed \in Nat /\ news \in Nat
    BY DEF Subscriptions, IInv, GoodSessions, Session, OthersType
  <2>3. sessions[n].changed <= news /\ sessions[n].changed # 0
    BY <2>2 DEF Serial, Numbered
  <2>4. PICK m \in Subscriptions : sessions[m].changed = news
    BY <2>2, <2>3 DEF Serial, Numbered
  <2>5. sessions[n].changed = news
    BY <2>2, <2>3, <2>4 DEF Latest
  <2> QED BY <2>1, <2>5 DEF Agrees
<1> QED BY <1>1, Invariance, SerialInvariance, PTL

\* The owner is reminded once and told once that the trial is over: the mail
\* is marked on the row before another job looks, and no save clears the mark.
THEOREM ToldCorrect ==
  ASSUME NEW CONSTANT c, Requests = {c}, ~Faults
  PROVE  Spec => ToldOnce
<1>1. ASSUME IInv, Serial(req[c]), [Next]_vars
      PROVE  [\A p \in Requests :
                /\ MailTrialEnding(p) => "ending" \notin told
                /\ MailTrialExpired(p) => "expired" \notin told]_vars
  <2>1. PICK o \in Request : o = req[c]
    BY <1>1 DEF IInv
  <2>2. o.at = "mailEnding" => "ending" \notin told
    BY <1>1, <2>1 DEF Serial, Fresh, Marked
  <2>3. o.at = "mailExpired" => "expired" \notin told
    BY <1>1, <2>1 DEF Serial, Fresh, Marked
  <2> QED BY <2>1, <2>2, <2>3 DEF MailTrialEnding, MailTrialExpired, At
<1>2. Spec => []Serial(req[c])
  BY SerialInvariance, PTL
<1> QED BY <1>1, <1>2, Invariance, PTL DEF Spec, ToldOnce

=============================================================================
