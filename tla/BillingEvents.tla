--------------------------- MODULE BillingEvents ---------------------------
(***************************************************************************)
(* The commercial subscription of one organization: how checkout and       *)
(* cancellation requests act on the payment provider (Stripe), and how the *)
(* events it reports are reduced to the organization's row                 *)
(* (src/agxora-v2/app/lib/billing).                                        *)
(*                                                                         *)
(* The provider keeps a subscription per paid checkout session and reports *)
(* every change as an event with a time.  Events are delivered in any      *)
(* order, more than once and at the same time: the log is never emptied,   *)
(* and a webhook request takes any of its events.  A webhook request is    *)
(* one PostgreSQL transaction under Read Committed, whose reads are one    *)
(* step and whose insert, save and commit are another.                     *)
(*                                                                         *)
(* Time is counted in billing periods; the times of events in seconds.     *)
(***************************************************************************)
EXTENDS Naturals, Sequences, FiniteSets

CONSTANTS
    Subs,       \* checkout sessions, and the subscriptions they lead to
    Plans,
    Clerks,     \* checkout and cancellation requests under way at a time
    Hooks,      \* webhook requests under way at a time
    MaxNow,     \* bound: periods
    MaxEvents   \* bound: events

ASSUME BillingAssumption == MaxNow \in Nat /\ MaxEvents \in Nat /\ Clerks \cap Hooks = {}

VARIABLES
    now,        \* the present period
    stripe,     \* the provider's sessions and subscriptions
    events,     \* what it reported, oldest first
    row,        \* commercial_subscriptions
    stored,     \* commercial_billing_events: positions in events
    checkout,   \* commercial_checkouts
    req,        \* what each request is doing
    raced       \* history: a webhook wrote over a row it had not read

vars == <<now, stripe, events, row, stored, checkout, req, raced>>

\* end: the first period not covered.  A session that can be paid is "payable".
Unsold == [status |-> "none", end |-> 0, cancel |-> FALSE, plan |-> "none"]
Sold == [status : {"payable", "incomplete", "incomplete_expired", "active", "past_due", "unpaid",
                   "canceled"},
         end : Nat, cancel : BOOLEAN, plan : Plans]
Live(k) == stripe[k].status \in {"active", "past_due", "unpaid"}

Event == [kind : {"completed", "failed"}, sub : Subs, at : Nat]
    \cup [kind : {"upsert", "deleted"}, sub : Subs, at : Nat, state : Sold]

NoRow == [status |-> "none", end |-> 0, cancel |-> FALSE, plan |-> "none", sub |-> "none", at |-> 0]
Row == [status : {"ACTIVE", "PAST_DUE", "CANCELED", "EXPIRED"}, end : Nat, cancel : BOOLEAN,
        plan : Plans, sub : Subs, at : Nat]

\* A checkout row of status OPEN is "open" for 30 minutes and "aged" afterwards.
CheckoutStatus == {"none", "open", "aged", "COMPLETED", "EXPIRED"}

Idle == [pc |-> "idle"]
Request ==
    {Idle} \cup [pc : {"create"}, plan : Plans] \cup [pc : {"store", "cancel"}, sub : Subs]
    \cup [pc : {"change"}, sub : Subs, plan : Plans] \cup [pc : {"cancelled"}]
    \cup [pc : {"expanded"}, event : Nat, now : Nat, state : Sold]
    \cup [pc : {"write"}, event : Nat, applied : BOOLEAN, base : Row \cup {NoRow},
          row : Row \cup {NoRow}]

At(s, pc) == req[s].pc = pc
Become(s, r) == req' = [req EXCEPT ![s] = r]
Leave(s) == Become(s, Idle)

Init ==
    /\ now = 0
    /\ stripe = [k \in Subs |-> Unsold]
    /\ events = <<>>
    /\ row = NoRow
    /\ stored = {}
    /\ checkout = [k \in Subs |-> "none"]
    /\ req = [s \in Clerks \cup Hooks |-> Idle]
    /\ raced = FALSE

\* hasPaidAccess
HasPaidAccess(r) ==
    /\ now < r.end
    /\ r.status = "ACTIVE" \/ (r.status = "CANCELED" /\ r.cancel)

-----------------------------------------------------------------------------
(* The provider.  A change is reported when it is made; two events of one    *)
(* change may carry the same second, those of different changes do not.      *)

LastAt == IF events = <<>> THEN 0 ELSE events[Len(events)].at
Full(kind, k, at) == [kind |-> kind, sub |-> k, at |-> at, state |-> stripe'[k]]
Brief(kind, k, at) == [kind |-> kind, sub |-> k, at |-> at]

Report(kind, k) ==
    /\ Len(events) < MaxEvents
    /\ events' = Append(events, Full(kind, k, LastAt + 1))

\* An event of the session or of an invoice and one of the subscription.
ReportBoth(kind, k) ==
    /\ Len(events) + 1 < MaxEvents
    /\ \/ \E at \in {LastAt + 1, LastAt + 2} :
            events' = events \o <<Full("upsert", k, LastAt + 1), Brief(kind, k, at)>>
       \/ events' = events \o <<Brief(kind, k, LastAt + 1), Full("upsert", k, LastAt + 2)>>

Sell(k, status, end, cancel, plan) ==
    stripe' = [stripe EXCEPT ![k] = [status |-> status, end |-> end, cancel |-> cancel, plan |-> plan]]
AtApp == UNCHANGED <<now, row, stored, checkout, req, raced>>

\* The customer has the address of a session once its row is stored.
PaymentStarts(k) ==
    /\ stripe[k].status = "payable" /\ checkout[k] # "none"
    /\ Sell(k, "incomplete", now + 1, FALSE, stripe[k].plan)
    /\ Report("upsert", k)
    /\ AtApp

\* Every attempt at the first payment that fails is reported.
FirstPaymentFails(k) ==
    /\ stripe[k].status = "incomplete"
    /\ Len(events) < MaxEvents
    /\ events' = Append(events, Brief("failed", k, LastAt + 1))
    /\ UNCHANGED stripe
    /\ AtApp

\* A subscription whose first payment is not made within a day expires.
Lapse(k) ==
    /\ stripe[k].status = "incomplete"
    /\ Sell(k, "incomplete_expired", stripe[k].end, FALSE, stripe[k].plan)
    /\ Report("upsert", k)
    /\ AtApp

Pay(k) ==
    /\ stripe[k].status \in {"payable", "incomplete"} /\ checkout[k] # "none"
    /\ Sell(k, "active", now + 1, FALSE, stripe[k].plan)
    /\ ReportBoth("completed", k)
    /\ AtApp

Renew(k) ==
    /\ Live(k) /\ ~stripe[k].cancel
    /\ now >= stripe[k].end \/ stripe[k].status \in {"past_due", "unpaid"}
    /\ Sell(k, "active", now + 1, FALSE, stripe[k].plan)
    /\ Report("upsert", k)
    /\ AtApp

PaymentFails(k) ==
    /\ stripe[k].status = "active" /\ now >= stripe[k].end /\ ~stripe[k].cancel
    /\ Sell(k, "past_due", now + 1, FALSE, stripe[k].plan)
    /\ ReportBoth("failed", k)
    /\ AtApp

\* When its attempts have failed the provider leaves a subscription unpaid, or deletes it.
GiveUp(k) ==
    /\ stripe[k].status = "past_due"
    /\ Sell(k, "unpaid", stripe[k].end, stripe[k].cancel, stripe[k].plan)
    /\ Report("upsert", k)
    /\ AtApp

Delete(k) ==
    /\ \/ stripe[k].status \in {"past_due", "unpaid"}
       \/ Live(k) /\ stripe[k].cancel /\ now >= stripe[k].end
    /\ Sell(k, "canceled", stripe[k].end, stripe[k].cancel, stripe[k].plan)
    /\ Report("deleted", k)
    /\ AtApp

Tick ==
    /\ now < MaxNow
    /\ now' = now + 1
    /\ UNCHANGED <<stripe, events, row, stored, checkout, req, raced>>

-----------------------------------------------------------------------------
(* startCheckout *)

AtProvider == UNCHANGED <<now, row, stored, checkout, raced>>
InTables == UNCHANGED <<now, stripe, events, raced>>

\* decideCheckoutStart
DecideCheckout(s, plan) ==
    /\ At(s, "idle")
    /\ \/ /\ HasPaidAccess(row) /\ row.plan # plan
          /\ Become(s, [pc |-> "change", sub |-> row.sub, plan |-> plan])
       \/ /\ ~HasPaidAccess(row)
          /\ \A k \in Subs : checkout[k] # "open"
          /\ Become(s, [pc |-> "create", plan |-> plan])
    /\ UNCHANGED <<now, stripe, events, row, stored, checkout, raced>>

ChangePrice(s) ==
    LET k == req[s].sub IN
    /\ At(s, "change")
    /\ \/ /\ Live(k)
          /\ Sell(k, stripe[k].status, stripe[k].end, stripe[k].cancel, req[s].plan)
          /\ Report("upsert", k)
       \/ ~Live(k) /\ UNCHANGED <<stripe, events>>
    /\ Leave(s)
    /\ AtProvider

CreateSession(s) ==
    /\ At(s, "create")
    /\ \E k \in Subs :
        /\ stripe[k] = Unsold
        /\ Sell(k, "payable", 0, FALSE, req[s].plan)
        /\ Become(s, [pc |-> "store", sub |-> k])
    /\ UNCHANGED events
    /\ AtProvider

StoreCheckout(s) ==
    /\ At(s, "store")
    /\ checkout' = [k \in Subs |->
           IF k = req[s].sub THEN "open"
           ELSE IF checkout[k] \in {"open", "aged"} THEN "EXPIRED" ELSE checkout[k]]
    /\ Leave(s)
    /\ UNCHANGED <<row, stored>> /\ InTables

CheckoutAges(k) ==
    /\ checkout[k] = "open"
    /\ checkout' = [checkout EXCEPT ![k] = "aged"]
    /\ UNCHANGED <<row, stored, req>> /\ InTables

-----------------------------------------------------------------------------
(* cancelSubscription *)

DecideCancellation(s) ==
    /\ At(s, "idle")
    /\ row # NoRow /\ ~row.cancel
    /\ HasPaidAccess(row) \/ row.status = "PAST_DUE"
    /\ Become(s, [pc |-> "cancel", sub |-> row.sub])
    /\ UNCHANGED <<now, stripe, events, row, stored, checkout, raced>>

CancelAtProvider(s) ==
    LET k == req[s].sub IN
    /\ At(s, "cancel")
    /\ \/ /\ Live(k)
          /\ Sell(k, stripe[k].status, stripe[k].end, TRUE, stripe[k].plan)
          /\ Report("upsert", k)
          /\ Become(s, [pc |-> "cancelled"])
       \/ ~Live(k) /\ Leave(s) /\ UNCHANGED <<stripe, events>>
    /\ AtProvider

CancelStore(s) ==
    /\ At(s, "cancelled")
    /\ row' = [row EXCEPT !.cancel = TRUE]
    /\ Leave(s)
    /\ UNCHANGED <<stored, checkout>> /\ InTables

-----------------------------------------------------------------------------
(* processStripeWebhook *)

\* Mutant: a subscription without a payment counts as active.
MapStripeStatusTrial(state, t) ==
    IF state.status \in {"active", "incomplete"} THEN
         IF t >= state.end THEN "EXPIRED" ELSE "ACTIVE"
    ELSE IF state.status = "incomplete_expired" THEN "EXPIRED"
    ELSE IF state.status \in {"past_due", "unpaid"} THEN "PAST_DUE"
    ELSE IF state.status = "canceled" THEN
         IF t >= state.end THEN "EXPIRED" ELSE "CANCELED"
    ELSE "none"

MapStripeStatus(state, t) ==
    IF state.status = "incomplete_expired" THEN "EXPIRED"
    ELSE IF state.status \in {"past_due", "unpaid"} THEN "PAST_DUE"
    ELSE IF state.status = "canceled" THEN
         IF t >= state.end THEN "EXPIRED" ELSE "CANCELED"
    ELSE IF state.status = "active" THEN
         IF t >= state.end THEN "EXPIRED" ELSE "ACTIVE"
    ELSE "none"

\* Mutant: a failed payment is applied to an organization without a row.
AppliesToNoRow(e, state, base, t) ==
    /\ base # NoRow => e.at >= base.at
    /\ e.kind \in {"upsert", "completed"} => MapStripeStatus(state, t) # "none"

\* Mutant: an event is applied however old it is.
AppliesAnyAge(e, state, base, t) ==
    /\ e.kind = "failed" => base # NoRow
    /\ e.kind \in {"upsert", "completed"} => MapStripeStatus(state, t) # "none"

\* reduceBillingEvent.  Every event of the organization is mapped to it, by its
\* metadata or by the customer of a checkout row.
Applies(e, state, base, t) ==
    /\ base # NoRow => e.at >= base.at
    /\ e.kind = "failed" => base # NoRow
    /\ e.kind \in {"upsert", "completed"} => MapStripeStatus(state, t) # "none"

Reduced(e, state, base, t) ==
    IF e.kind = "failed"
    THEN [status |-> "PAST_DUE", end |-> base.end, cancel |-> base.cancel, plan |-> base.plan,
          sub |-> base.sub, at |-> e.at]
    ELSE LET status == IF e.kind = "deleted" THEN "EXPIRED" ELSE MapStripeStatus(state, t) IN
         [status |-> status, end |-> state.end, plan |-> state.plan, sub |-> e.sub, at |-> e.at,
          cancel |-> IF e.kind = "deleted" THEN FALSE ELSE status = "CANCELED" \/ state.cancel]

\* The event is looked up, then the row is read.
Find(s, i, state, t) ==
    LET e == events[i]
        applied == Applies(e, state, row, t) IN
    IF i \in stored THEN Leave(s)
    ELSE Become(s, [pc |-> "write", event |-> i, applied |-> applied, base |-> row,
                    row |-> IF applied THEN Reduced(e, state, row, t) ELSE row])

\* A completed checkout does not carry its subscription: the provider is asked.
Expand(s, i) ==
    /\ At(s, "idle") /\ events[i].kind = "completed"
    /\ Become(s, [pc |-> "expanded", event |-> i, now |-> now, state |-> stripe[events[i].sub]])
    /\ UNCHANGED <<now, stripe, events, row, stored, checkout, raced>>

FindExpanded(s) ==
    /\ At(s, "expanded")
    /\ Find(s, req[s].event, req[s].state, req[s].now)
    /\ UNCHANGED <<now, stripe, events, row, stored, checkout, raced>>

FindEvent(s, i) ==
    /\ At(s, "idle") /\ events[i].kind # "completed"
    /\ Find(s, i, IF events[i].kind = "failed" THEN Unsold ELSE events[i].state, now)
    /\ UNCHANGED <<now, stripe, events, row, stored, checkout, raced>>

Save(s) ==
    LET e == events[req[s].event] IN
    /\ row' = IF req[s].applied THEN req[s].row ELSE row
    /\ checkout' = IF req[s].applied /\ e.kind = "completed"
                   THEN [checkout EXCEPT ![e.sub] = "COMPLETED"] ELSE checkout
    /\ raced' = (raced \/ (req[s].applied /\ row # req[s].base))
    /\ Leave(s)
    /\ UNCHANGED <<now, stripe, events>>

\* Mutant: the stored events have no unique key.
StoreEventAgain(s) ==
    /\ At(s, "write")
    /\ stored' = stored \cup {req[s].event}
    /\ Save(s)

\* An event stored meanwhile violates the unique key: the transaction is undone.
StoreEvent(s) ==
    /\ At(s, "write")
    /\ req[s].event \notin stored
    /\ stored' = stored \cup {req[s].event}
    /\ Save(s)

\* A request that fails or dies; the provider delivers the event again.
Abort(s) ==
    /\ ~At(s, "idle")
    /\ Leave(s)
    /\ UNCHANGED <<now, stripe, events, row, stored, checkout, raced>>

-----------------------------------------------------------------------------
Provider ==
    \/ Tick
    \/ \E k \in Subs :
        \/ PaymentStarts(k) \/ FirstPaymentFails(k) \/ Lapse(k) \/ Pay(k)
        \/ Renew(k) \/ PaymentFails(k) \/ GiveUp(k) \/ Delete(k)
        \/ CheckoutAges(k)

Clerk(s) ==
    \/ \E plan \in Plans : DecideCheckout(s, plan)
    \/ ChangePrice(s) \/ CreateSession(s) \/ StoreCheckout(s)
    \/ DecideCancellation(s) \/ CancelAtProvider(s) \/ CancelStore(s)

Hook(s) ==
    \/ \E i \in DOMAIN events : Expand(s, i) \/ FindEvent(s, i)
    \/ FindExpanded(s) \/ StoreEvent(s)

Next ==
    \/ Provider
    \/ \E s \in Clerks : Clerk(s)
    \/ \E s \in Hooks : Hook(s)
    \/ \E s \in Clerks \cup Hooks : Abort(s)

Spec == Init /\ [][Next]_vars

-----------------------------------------------------------------------------
(* Properties.                                                               *)

TypeOK ==
    /\ now \in Nat
    /\ stripe \in [Subs -> Sold \cup {Unsold}]
    /\ events \in Seq(Event)
    /\ row \in Row \cup {NoRow}
    /\ stored \in SUBSET (DOMAIN events)
    /\ checkout \in [Subs -> CheckoutStatus]
    /\ req \in [Clerks \cup Hooks -> Request]
    /\ raced \in BOOLEAN

\* Access is bought: a row that grants it is active to an end the provider
\* reported for its subscription as active; no order, repetition or overlap of
\* events makes up a period (subscriptionState.ts: "There is no trial").  The
\* exception is a checkout processed after its subscription was deleted: the row is
\* CANCELED and grants the period the subscription had, paid or not.
Reported(k, end, kind, status) ==
    \E i \in DOMAIN events :
        /\ events[i].kind = kind /\ events[i].sub = k
        /\ events[i].state.status = status /\ events[i].state.end = end
AccessIsReported ==
    HasPaidAccess(row) =>
        \/ row.status = "ACTIVE" /\ Reported(row.sub, row.end, "upsert", "active")
        \/ row.status = "CANCELED" /\ Reported(row.sub, row.end, "deleted", "canceled")

\* An event changes the row once, however often and however much at the same time
\* it is delivered: the row changes only with an event that was not stored, or by
\* the flag a cancellation sets.
EventsCountOnce ==
    [][row' # row =>
        \/ \E i \in DOMAIN events \ stored : stored' = stored \cup {i} /\ row'.at = events[i].at
        \/ row' = [row EXCEPT !.cancel = TRUE]]_vars

Settled ==
    /\ stored = DOMAIN events
    /\ \A s \in Clerks \cup Hooks : At(s, "idle")

\* An incomplete subscription is told to no row.
Tells(e) == e.kind = "upsert" => e.state.status # "incomplete"
ToldLast(k) ==
    \E i \in DOMAIN events :
        events[i].sub = k /\ Tells(events[i]) /\ \A j \in DOMAIN events : Tells(events[j]) => j <= i

\* A payment that failed is told to whatever row there is, and forgotten if there is
\* none: how it comes out is only certain for a subscription that has the row.
FailsOnly(k) ==
    /\ stripe[k].status # "incomplete"
    /\ \A i \in DOMAIN events : events[i].kind = "failed" => events[i].sub = k

\* When every event has been processed, in whatever order, the row agrees with the
\* subscription the provider told of last: the organization has access exactly if
\* that one is active, under its name, with its plan, its end and its cancellation.
\* With one subscription that is the one the organization pays.  With several it
\* need not be: an abandoned session that expires after another one was paid takes
\* the row (providerEvent.ts:248 and 350), and a cancellation of one subscription
\* may be stored in the row of the next.  Excepted are a webhook that wrote over a
\* row it had not read and failed payments of another subscription.
AgreesWhenSettled ==
    \A k \in Subs : Settled /\ ~raced /\ ToldLast(k) /\ FailsOnly(k) =>
        /\ HasPaidAccess(row) <=> stripe[k].status = "active" /\ now < stripe[k].end
        /\ HasPaidAccess(row) =>
            /\ row.sub = k /\ row.plan = stripe[k].plan /\ row.end = stripe[k].end
            /\ stripe[k].cancel => row.cancel
            /\ row.cancel => \E j \in Subs : stripe[j].cancel

\* Older events are ignored (schema.prisma:1276): the time of the row never goes
\* back, unless a webhook writes over a row that changed after it had read it.
OlderIgnored == [][row'.at >= row.at \/ raced']_vars
=============================================================================
