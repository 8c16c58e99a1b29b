--------------------------- MODULE BillingProofs ---------------------------
(***************************************************************************)
(* Theorems about the commercial subscription, for any number of sessions, *)
(* plans, requests under way, periods and events.                          *)
(***************************************************************************)
EXTENDS BillingEvents, SequenceTheorems, FiniteSetTheorems, TLAPS

Servers == Clerks \cup Hooks

\* A state the provider has told of: as active, or as deleted.
Backed(k, state) ==
    /\ state.status = "active" => Reported(k, state.end, "upsert", "active")
    /\ state.status = "canceled" => Reported(k, state.end, "deleted", "canceled")
\* A row that grants access, or would.
Granted(r) ==
    /\ r.status = "ACTIVE" => Reported(r.sub, r.end, "upsert", "active")
    /\ r.status = "CANCELED" => Reported(r.sub, r.end, "deleted", "canceled")

\* What a request has in hand is as true as the tables.
InHand(r) ==
    /\ r.pc \in {"cancel", "cancelled"} => row # NoRow
    /\ r.pc \in {"expanded", "write"} => r.event \in DOMAIN events
    /\ r.pc = "expanded" => Backed(events[r.event].sub, r.state)
    /\ r.pc = "write" /\ r.applied =>
        /\ r.row \in Row /\ Granted(r.row)
        /\ r.row.at = events[r.event].at
        /\ r.base # NoRow => r.base.at <= r.row.at

BillInv ==
    /\ TypeOK
    /\ \A i \in DOMAIN events : stripe[events[i].sub] \in Sold
    /\ \A i \in DOMAIN events :
        events[i].kind = "upsert" => events[i].state.status \notin {"payable", "canceled"}
    /\ \A k \in Subs : Backed(k, stripe[k])
    /\ Granted(row)
    /\ \A s \in Servers : InHand(req[s])

-----------------------------------------------------------------------------
(* Types of what a request carries.                                         *)

LEMMA RequestTypes ==
    ASSUME NEW r \in Request
    PROVE  /\ r.pc \in {"idle", "create", "store", "cancel", "change", "cancelled", "expanded", "write"}
           /\ r.pc \in {"create", "change"} => r.plan \in Plans
           /\ r.pc \in {"store", "cancel", "change"} => r.sub \in Subs
           /\ r.pc \in {"expanded", "write"} => r.event \in Nat
           /\ r.pc = "expanded" => r.now \in Nat /\ r.state \in Sold
           /\ r.pc = "write" => /\ r.applied \in BOOLEAN
                                /\ r.base \in Row \cup {NoRow} /\ r.row \in Row \cup {NoRow}
BY DEF Request, Idle

LEMMA BecomeTypes ==
    ASSUME TypeOK, NEW s \in Servers, NEW r \in Request, Become(s, r)
    PROVE  /\ req' \in [Servers -> Request]
           /\ req'[s] = r
           /\ \A o \in Servers : o # s => req'[o] = req[o]
BY DEF TypeOK, Become, Servers

LEMMA IdleRequest == Idle \in Request /\ Idle.pc = "idle"
BY DEF Request, Idle

LEMMA RowIsNotNoRow == NoRow \notin Row
BY DEF Row, NoRow

LEMMA EventTypes ==
    ASSUME NEW e \in Event
    PROVE  /\ e.kind \in {"completed", "failed", "upsert", "deleted"}
           /\ e.sub \in Subs /\ e.at \in Nat
           /\ e.kind \in {"upsert", "deleted"} => e.state \in Sold
BY DEF Event

-----------------------------------------------------------------------------
(* The log of events grows at its end.                                      *)

Extended == \A i \in DOMAIN events : i \in DOMAIN events' /\ events'[i] = events[i]

\* New events are about k; one of them reports its new state with the kind.
Told(k, kind) ==
    /\ events' \in Seq(Event)
    /\ Extended
    /\ \E i \in DOMAIN events' :
        events'[i].kind = kind /\ events'[i].sub = k /\ events'[i].state = stripe'[k]
    /\ \A i \in DOMAIN events' \ DOMAIN events :
        /\ events'[i].sub = k
        /\ events'[i].kind = "upsert" => kind = "upsert" /\ events'[i].state = stripe'[k]

LEMMA LastAtType ==
    ASSUME TypeOK
    PROVE  LastAt \in Nat
<1>1. CASE events = <<>>
  BY <1>1 DEF LastAt
<1>2. CASE events # <<>>
  <2>1. events \in Seq(Event) /\ Len(events) \in 1..Len(events)
    BY <1>2, EmptySeq DEF TypeOK
  <2>2. events[Len(events)] \in Event
    BY <2>1, ElementOfSeq
  <2>3. QED
    BY <1>2, <2>2, EventTypes DEF LastAt
<1>3. QED
  BY <1>1, <1>2

LEMMA ReportTells ==
    ASSUME TypeOK, NEW k \in Subs, NEW kind \in {"upsert", "deleted"}, stripe'[k] \in Sold,
           Report(kind, k)
    PROVE  Told(k, kind)
<1> DEFINE e == Full(kind, k, LastAt + 1)
<1>1. events \in Seq(Event) /\ LastAt \in Nat
  BY LastAtType DEF TypeOK
<1>2. e \in Event /\ e.kind = kind /\ e.sub = k /\ e.state = stripe'[k]
  BY <1>1 DEF Full, Event
<1>3. events' = Append(events, e)
  BY DEF Report
<1> HIDE DEF e
<1>4. events' \in Seq(Event) /\ Len(events') = Len(events) + 1
      /\ events'[Len(events) + 1] = e /\ \A i \in 1..Len(events) : events'[i] = events[i]
  BY <1>1, <1>2, <1>3, AppendProperties
<1>5. DOMAIN events = 1..Len(events) /\ DOMAIN events' = 1..Len(events') /\ Len(events) \in Nat
  BY <1>1, <1>4
<1>6. Extended
  BY <1>4, <1>5 DEF Extended
<1>7. \A i \in DOMAIN events' \ DOMAIN events : i = Len(events) + 1
  BY <1>4, <1>5
<1>8. QED
  BY <1>2, <1>4, <1>5, <1>6, <1>7 DEF Told

LEMMA TwoMore ==
    ASSUME NEW S, NEW q \in Seq(S), NEW x \in S, NEW y \in S
    PROVE  /\ q \o <<x, y>> \in Seq(S)
           /\ DOMAIN (q \o <<x, y>>) = 1..Len(q) + 2 /\ DOMAIN q = 1..Len(q)
           /\ (q \o <<x, y>>)[Len(q) + 1] = x /\ (q \o <<x, y>>)[Len(q) + 2] = y
           /\ \A i \in 1..Len(q) : (q \o <<x, y>>)[i] = q[i]
<1> DEFINE t == <<x, y>>
<1>1. t \in Seq(S) /\ Len(t) = 2 /\ t[1] = x /\ t[2] = y
  OBVIOUS
<1> HIDE DEF t
<1>2. /\ q \o t \in Seq(S) /\ Len(q \o t) = Len(q) + Len(t)
      /\ \A i \in 1..Len(q) + Len(t) : (q \o t)[i] = IF i <= Len(q) THEN q[i] ELSE t[i - Len(q)]
  BY <1>1, ConcatProperties, Zenon
<1>3. Len(q) \in Nat /\ DOMAIN q = 1..Len(q)
  OBVIOUS
<1>4. /\ q \o t \in Seq(S)
      /\ DOMAIN (q \o t) = 1..Len(q) + 2 /\ DOMAIN q = 1..Len(q)
      /\ (q \o t)[Len(q) + 1] = x /\ (q \o t)[Len(q) + 2] = y
      /\ \A i \in 1..Len(q) : (q \o t)[i] = q[i]
  BY <1>1, <1>2, <1>3
<1>5. QED
  BY <1>4 DEF t

LEMMA ReportBothTells ==
    ASSUME TypeOK, NEW k \in Subs, NEW kind \in {"completed", "failed"}, stripe'[k] \in Sold,
           ReportBoth(kind, k)
    PROVE  Told(k, "upsert")
<1>1. events \in Seq(Event) /\ LastAt \in Nat
  BY LastAtType DEF TypeOK
<1>2. PICK a \in Nat, b \in Nat :
        \/ events' = events \o <<Full("upsert", k, a), Brief(kind, k, b)>>
        \/ events' = events \o <<Brief(kind, k, b), Full("upsert", k, a)>>
  <2>1. LastAt + 1 \in Nat /\ LastAt + 2 \in Nat
    BY <1>1
  <2>2. CASE \E at \in {LastAt + 1, LastAt + 2} :
               events' = events \o <<Full("upsert", k, LastAt + 1), Brief(kind, k, at)>>
    BY <2>1, <2>2
  <2>3. CASE events' = events \o <<Brief(kind, k, LastAt + 1), Full("upsert", k, LastAt + 2)>>
    BY <2>1, <2>3
  <2>4. QED
    BY <2>2, <2>3 DEF ReportBoth
<1> DEFINE e == Full("upsert", k, a)
           f == Brief(kind, k, b)
<1>3. e \in Event /\ e.kind = "upsert" /\ e.sub = k /\ e.state = stripe'[k]
  BY DEF Full, Event
<1>4. f \in Event /\ f.kind # "upsert" /\ f.sub = k
  BY DEF Brief, Event
<1>5. events' = events \o <<e, f>> \/ events' = events \o <<f, e>>
  BY <1>2
<1> HIDE DEF e, f
<1>6. ASSUME NEW x \in Event, NEW y \in Event, events' = events \o <<x, y>>
      PROVE  /\ events' \in Seq(Event)
             /\ DOMAIN events' = 1..Len(events) + 2 /\ DOMAIN events = 1..Len(events)
             /\ events'[Len(events) + 1] = x /\ events'[Len(events) + 2] = y
             /\ \A i \in 1..Len(events) : events'[i] = events[i]
  BY <1>1, <1>6, TwoMore
<1>7. /\ events' \in Seq(Event)
      /\ DOMAIN events' = 1..Len(events) + 2 /\ DOMAIN events = 1..Len(events)
      /\ \A i \in 1..Len(events) : events'[i] = events[i]
      /\ \/ events'[Len(events) + 1] = e /\ events'[Len(events) + 2] = f
         \/ events'[Len(events) + 1] = f /\ events'[Len(events) + 2] = e
  BY <1>3, <1>4, <1>5, <1>6
<1>8. Len(events) \in Nat
  BY <1>1
<1>9. Extended
  BY <1>7, <1>8 DEF Extended
<1>10. \A i \in DOMAIN events' \ DOMAIN events : i = Len(events) + 1 \/ i = Len(events) + 2
  BY <1>7, <1>8
<1>11. Len(events) + 1 \in DOMAIN events' /\ Len(events) + 2 \in DOMAIN events'
  BY <1>7, <1>8
<1>12. QED
  BY <1>3, <1>4, <1>7, <1>9, <1>10, <1>11 DEF Told

-----------------------------------------------------------------------------
(* What holds of a growing log goes on holding.                             *)

LEMMA BackedStays ==
    ASSUME NEW k, NEW state, Extended, Backed(k, state)
    PROVE  Backed(k, state)'
BY DEF Backed, Reported, Extended

LEMMA GrantedStays ==
    ASSUME NEW r, Extended, Granted(r)
    PROVE  Granted(r)'
BY DEF Granted, Reported, Extended

LEMMA InHandStays ==
    ASSUME NEW r, Extended, row # NoRow => row' # NoRow, InHand(r)
    PROVE  InHand(r)'
<1>1. r.pc = "cancelled" => row' # NoRow
  BY DEF InHand
<1>2. r.pc \in {"expanded", "write"} =>
         r.event \in DOMAIN events' /\ events'[r.event] = events[r.event]
  BY DEF InHand, Extended
<1>3. ASSUME r.pc = "expanded"
      PROVE  Backed(events[r.event].sub, r.state)'
  <2>1. PICK k : k = events[r.event].sub
    OBVIOUS
  <2>2. Backed(k, r.state)'
    BY <1>3, <2>1, BackedStays DEF InHand
  <2>3. events'[r.event].sub = k
    BY <1>2, <1>3, <2>1
  <2>4. QED
    BY <2>2, <2>3 DEF Backed, Reported
<1>4. ASSUME r.pc = "write", r.applied
      PROVE  /\ r.row \in Row /\ Granted(r.row)'
             /\ r.row.at = events'[r.event].at
             /\ r.base # NoRow => r.base.at <= r.row.at
  BY <1>2, <1>4, GrantedStays DEF InHand
<1>5. QED
  BY <1>1, <1>2, <1>3, <1>4 DEF InHand

\* The provider changes a subscription and tells of it.
LEMMA SellStep ==
    ASSUME BillInv, NEW k \in Subs, NEW state \in Sold, state.status # "payable",
           stripe' = [stripe EXCEPT ![k] = state],
           Told(k, IF state.status = "canceled" THEN "deleted" ELSE "upsert"),
           UNCHANGED <<now, row, stored, checkout, raced>>,
           req' \in [Servers -> Request],
           \A s \in Servers : InHand(req'[s])
    PROVE  BillInv'
<1> DEFINE kind == IF state.status = "canceled" THEN "deleted" ELSE "upsert"
<1>1. /\ events' \in Seq(Event) /\ Extended
      /\ \E i \in DOMAIN events' :
            events'[i].kind = kind /\ events'[i].sub = k /\ events'[i].state = stripe'[k]
      /\ \A i \in DOMAIN events' \ DOMAIN events :
            /\ events'[i].sub = k
            /\ events'[i].kind = "upsert" => kind = "upsert" /\ events'[i].state = stripe'[k]
  BY DEF Told
<1>2. TypeOK /\ stripe \in [Subs -> Sold \cup {Unsold}]
  BY DEF BillInv, TypeOK
<1>3. stripe' \in [Subs -> Sold \cup {Unsold}] /\ stripe'[k] = state
      /\ \A j \in Subs : j # k => stripe'[j] = stripe[j]
  BY <1>2
<1>4. stored' \in SUBSET (DOMAIN events')
  BY <1>1, <1>2 DEF TypeOK, Extended
<1>5. TypeOK'
  BY <1>1, <1>2, <1>3, <1>4 DEF TypeOK, Servers
<1>6. ASSUME NEW i \in DOMAIN events'
      PROVE  /\ stripe'[events'[i].sub] \in Sold
             /\ events'[i].kind = "upsert" => events'[i].state.status \notin {"payable", "canceled"}
  <2>1. CASE i \in DOMAIN events
    <3>1. events'[i] = events[i] /\ stripe[events[i].sub] \in Sold
          /\ (events[i].kind = "upsert" => events[i].state.status \notin {"payable", "canceled"})
      BY <1>1, <2>1 DEF Extended, BillInv
    <3>2. events[i].sub \in Subs
      BY <1>2, <2>1, ElementOfSeq, EventTypes DEF TypeOK
    <3>3. QED
      BY <1>3, <3>1, <3>2
  <2>2. CASE i \notin DOMAIN events
    BY <1>1, <1>3, <2>2
  <2>3. QED
    BY <2>1, <2>2
<1>7. ASSUME NEW j \in Subs
      PROVE  Backed(j, stripe[j])'
  <2>1. CASE j = k
    BY <1>1, <1>3, <2>1 DEF Backed, Reported
  <2>2. CASE j # k
    <3>1. Backed(j, stripe[j]) /\ stripe'[j] = stripe[j]
      BY <1>3, <2>2 DEF BillInv
    <3>2. QED
      BY <1>1, <3>1 DEF Backed, Reported, Extended
  <2>3. QED
    BY <2>1, <2>2
<1>8. Granted(row)'
  BY <1>1, SMTT(60) DEF BillInv, Granted, Reported, Extended
<1>9. ASSUME NEW s \in Servers
      PROVE  InHand(req[s])'
  <2>1. PICK r : r = req'[s]
    OBVIOUS
  <2>2. InHand(r)'
    BY <1>1, <2>1, InHandStays
  <2>3. QED
    BY <2>1, <2>2 DEF InHand, Granted, Backed, Reported
<1>10. QED
  BY <1>5, <1>6, <1>7, <1>8, <1>9 DEF BillInv

\* A step that leaves the provider and its log alone.
LEMMA TableStep ==
    ASSUME BillInv, UNCHANGED <<stripe, events>>,
           now' \in Nat, raced' \in BOOLEAN,
           row' \in Row \cup {NoRow}, row # NoRow => row' # NoRow, Granted(row'),
           stored' \in SUBSET (DOMAIN events), checkout' \in [Subs -> CheckoutStatus],
           req' \in [Servers -> Request],
           \A s \in Servers : InHand(req'[s])
    PROVE  BillInv'
<1>1. Extended
  BY DEF Extended
<1>2. TypeOK'
  BY DEF BillInv, TypeOK, Servers
<1>3. Granted(row)' /\ \A k \in Subs : Backed(k, stripe[k])'
  BY DEF BillInv, Granted, Backed, Reported
<1>4. ASSUME NEW s \in Servers
      PROVE  InHand(req[s])'
  <2>1. PICK r : r = req'[s]
    OBVIOUS
  <2>2. InHand(r)'
    BY <1>1, <2>1, InHandStays
  <2>3. QED
    BY <2>1, <2>2 DEF InHand, Granted, Backed, Reported
<1>5. QED
  BY <1>2, <1>3, <1>4 DEF BillInv

-----------------------------------------------------------------------------
(* Every step keeps the invariant.                                          *)

LEMMA InitInv == Init => BillInv
<1> SUFFICES ASSUME Init PROVE BillInv
  OBVIOUS
<1>1. /\ now = 0 /\ stripe = [k \in Subs |-> Unsold] /\ events = <<>> /\ row = NoRow
      /\ stored = {} /\ checkout = [k \in Subs |-> "none"]
      /\ req = [s \in Servers |-> Idle] /\ raced = FALSE
  BY DEF Init, Servers
<1>2. events \in Seq(Event) /\ DOMAIN events = {}
  BY <1>1
<1>3. TypeOK
  BY <1>1, <1>2, IdleRequest DEF TypeOK, CheckoutStatus, Servers
<1>4. Granted(row) /\ \A k \in Subs : Backed(k, stripe[k])
  BY <1>1 DEF Granted, Backed, NoRow, Unsold
<1>5. \A s \in Servers : InHand(req[s])
  BY <1>1, IdleRequest DEF InHand
<1>6. QED
  BY <1>2, <1>3, <1>4, <1>5 DEF BillInv

LEMMA SoldTypes ==
    ASSUME TypeOK, NEW k \in Subs, stripe[k].status # "none"
    PROVE  /\ stripe[k].status \in {"payable", "incomplete", "incomplete_expired", "active", "past_due",
                                   "unpaid", "canceled"}
           /\ stripe[k].end \in Nat /\ stripe[k].cancel \in BOOLEAN /\ stripe[k].plan \in Plans
<1>1. stripe[k] \in Sold \cup {Unsold}
  BY DEF TypeOK
<1>2. stripe[k] \in Sold
  BY <1>1 DEF Unsold
<1>3. QED
  BY <1>2 DEF Sold

\* A first payment that fails is one more event, and no change.
LEMMA FirstFailure ==
    ASSUME TypeOK, NEW k \in Subs, FirstPaymentFails(k)
    PROVE  /\ UNCHANGED <<now, stripe, row, stored, checkout, req, raced>>
           /\ stripe[k].status = "incomplete" /\ stripe[k] \in Sold
           /\ events' \in Seq(Event) /\ Extended
           /\ LastAt' \in Nat /\ LastAt <= LastAt'
           /\ \A i \in DOMAIN events' \ DOMAIN events :
                events'[i].kind = "failed" /\ events'[i].sub = k /\ events'[i].at <= LastAt'
           /\ DOMAIN events' \ DOMAIN events # {}
<1>1. PICK e : e = Brief("failed", k, LastAt + 1)
  OBVIOUS
<1>2. events \in Seq(Event) /\ LastAt \in Nat
  BY LastAtType DEF TypeOK
<1>3. e \in Event /\ e.kind = "failed" /\ e.sub = k /\ e.at = LastAt + 1
  BY <1>1, <1>2 DEF Brief, Event
<1>4. events' = Append(events, e)
  BY <1>1 DEF FirstPaymentFails
<1>5. events' \in Seq(Event) /\ Len(events') = Len(events) + 1
      /\ events'[Len(events) + 1] = e /\ \A i \in 1..Len(events) : events'[i] = events[i]
  BY <1>2, <1>3, <1>4, AppendProperties
<1>6. DOMAIN events = 1..Len(events) /\ DOMAIN events' = 1..Len(events') /\ Len(events) \in Nat
  BY <1>2, <1>5
<1>7. Extended
  BY <1>5, <1>6 DEF Extended
<1>8. /\ \A i \in DOMAIN events' \ DOMAIN events : i = Len(events) + 1
      /\ Len(events) + 1 \in DOMAIN events' \ DOMAIN events
  BY <1>5, <1>6
<1>9. LastAt' = e.at
  <2>1. events' # <<>>
    BY <1>8
  <2>2. QED
    BY <1>5, <2>1 DEF LastAt
<1>10. LastAt' \in Nat /\ LastAt <= LastAt' /\ e.at <= LastAt'
  BY <1>2, <1>3, <1>9
<1>11. /\ UNCHANGED <<now, stripe, row, stored, checkout, req, raced>>
       /\ stripe[k].status = "incomplete" /\ stripe[k] \in Sold
  BY DEF FirstPaymentFails, AtApp, TypeOK, Unsold
<1>12. QED
  BY <1>3, <1>5, <1>7, <1>8, <1>10, <1>11

LEMMA FirstFailureStep ==
    ASSUME BillInv, NEW k \in Subs, FirstPaymentFails(k)
    PROVE  BillInv'
<1>1. /\ UNCHANGED <<now, stripe, row, stored, checkout, req, raced>> /\ stripe[k] \in Sold
      /\ events' \in Seq(Event) /\ Extended
      /\ \A i \in DOMAIN events' \ DOMAIN events : events'[i].kind = "failed" /\ events'[i].sub = k
  BY FirstFailure DEF BillInv
<1>2. TypeOK'
  BY <1>1 DEF BillInv, TypeOK, Extended
<1>3. ASSUME NEW i \in DOMAIN events'
      PROVE  /\ stripe'[events'[i].sub] \in Sold
             /\ events'[i].kind = "upsert" => events'[i].state.status \notin {"payable", "canceled"}
  <2>1. CASE i \in DOMAIN events
    BY <1>1, <2>1 DEF Extended, BillInv
  <2>2. CASE i \notin DOMAIN events
    BY <1>1, <2>2
  <2>3. QED
    BY <2>1, <2>2
<1>4. ASSUME NEW j \in Subs
      PROVE  Backed(j, stripe[j])'
  <2>1. PICK state : state = stripe[j]
    OBVIOUS
  <2>2. Backed(j, state)'
    BY <1>1, <2>1, BackedStays DEF BillInv
  <2>3. QED
    BY <1>1, <2>1, <2>2 DEF Backed, Reported
<1>5. Granted(row)'
  <2>1. PICK r : r = row
    OBVIOUS
  <2>2. Granted(r)'
    BY <1>1, <2>1, GrantedStays DEF BillInv
  <2>3. QED
    BY <1>1, <2>1, <2>2 DEF Granted, Reported
<1>6. ASSUME NEW s \in Servers
      PROVE  InHand(req[s])'
  <2>1. PICK r : r = req[s]
    OBVIOUS
  <2>2. InHand(r)'
    BY <1>1, <2>1, InHandStays DEF BillInv
  <2>3. QED
    BY <1>1, <2>1, <2>2 DEF InHand, Granted, Backed, Reported
<1>7. QED
  BY <1>2, <1>3, <1>4, <1>5, <1>6 DEF BillInv

LEMMA ProviderStep ==
    ASSUME BillInv, NEW k \in Subs,
           \/ PaymentStarts(k) \/ Lapse(k) \/ Pay(k)
           \/ Renew(k) \/ PaymentFails(k) \/ GiveUp(k) \/ Delete(k)
    PROVE  BillInv'
<1>1. /\ TypeOK /\ now \in Nat /\ stripe \in [Subs -> Sold \cup {Unsold}]
      /\ req \in [Servers -> Request] /\ \A s \in Servers : InHand(req[s])
  BY DEF BillInv, TypeOK, Servers
<1>2. UNCHANGED <<now, row, stored, checkout, raced>> /\ req' = req
  <2>1. AtApp
    BY DEF PaymentStarts, Lapse, Pay, Renew, PaymentFails, GiveUp, Delete
  <2>2. QED
    BY <1>1, <2>1 DEF AtApp, Sell
<1>3. ASSUME NEW state \in Sold, state.status # "payable", stripe' = [stripe EXCEPT ![k] = state],
             Told(k, IF state.status = "canceled" THEN "deleted" ELSE "upsert")
      PROVE  BillInv'
  BY <1>1, <1>2, <1>3, SellStep
<1>4. stripe[k].status # "none"
  BY DEF PaymentStarts, Lapse, Pay, Renew, PaymentFails, GiveUp, Delete, Live
<1>5. stripe[k].end \in Nat /\ stripe[k].cancel \in BOOLEAN /\ stripe[k].plan \in Plans
  BY <1>1, <1>4, SoldTypes
<1> DEFINE New(status, end, cancel) ==
      [status |-> status, end |-> end, cancel |-> cancel, plan |-> stripe[k].plan]
<1>6. ASSUME NEW status \in {"incomplete", "incomplete_expired", "active", "past_due", "unpaid", "canceled"},
             NEW end \in Nat, NEW cancel \in BOOLEAN, stripe' = [stripe EXCEPT ![k] = New(status, end, cancel)]
      PROVE  New(status, end, cancel) \in Sold /\ New(status, end, cancel).status = status
             /\ stripe'[k] \in Sold
  BY <1>1, <1>5, <1>6 DEF Sold
<1>7. CASE PaymentStarts(k)
  <2>1. stripe' = [stripe EXCEPT ![k] = New("incomplete", now + 1, FALSE)] /\ Report("upsert", k)
    BY <1>7 DEF PaymentStarts, Sell
  <2>2. now + 1 \in Nat
    BY <1>1
  <2>3. New("incomplete", now + 1, FALSE) \in Sold /\ stripe'[k] \in Sold
        /\ New("incomplete", now + 1, FALSE).status = "incomplete"
    BY <1>6, <2>1, <2>2
  <2>4. Told(k, "upsert")
    BY <1>1, <2>1, <2>3, ReportTells
  <2>5. QED
    BY <1>3, <2>1, <2>3, <2>4
<1>8. CASE Pay(k)
  <2>1. stripe' = [stripe EXCEPT ![k] = New("active", now + 1, FALSE)] /\ ReportBoth("completed", k)
    BY <1>8 DEF Pay, Sell
  <2>2. now + 1 \in Nat
    BY <1>1
  <2>3. New("active", now + 1, FALSE) \in Sold /\ stripe'[k] \in Sold
        /\ New("active", now + 1, FALSE).status = "active"
    BY <1>6, <2>1, <2>2
  <2>4. Told(k, "upsert")
    BY <1>1, <2>1, <2>3, ReportBothTells
  <2>5. QED
    BY <1>3, <2>1, <2>3, <2>4
<1>9. CASE Renew(k)
  <2>1. stripe' = [stripe EXCEPT ![k] = New("active", now + 1, FALSE)] /\ Report("upsert", k)
    BY <1>9 DEF Renew, Sell
  <2>2. now + 1 \in Nat
    BY <1>1
  <2>3. New("active", now + 1, FALSE) \in Sold /\ stripe'[k] \in Sold
        /\ New("active", now + 1, FALSE).status = "active"
    BY <1>6, <2>1, <2>2
  <2>4. Told(k, "upsert")
    BY <1>1, <2>1, <2>3, ReportTells
  <2>5. QED
    BY <1>3, <2>1, <2>3, <2>4
<1>10. CASE PaymentFails(k)
  <2>1. stripe' = [stripe EXCEPT ![k] = New("past_due", now + 1, FALSE)] /\ ReportBoth("failed", k)
    BY <1>10 DEF PaymentFails, Sell
  <2>2. now + 1 \in Nat
    BY <1>1
  <2>3. New("past_due", now + 1, FALSE) \in Sold /\ stripe'[k] \in Sold
        /\ New("past_due", now + 1, FALSE).status = "past_due"
    BY <1>6, <2>1, <2>2
  <2>4. Told(k, "upsert")
    BY <1>1, <2>1, <2>3, ReportBothTells
  <2>5. QED
    BY <1>3, <2>1, <2>3, <2>4
<1>11. CASE Delete(k)
  <2>1. stripe' = [stripe EXCEPT ![k] = New("canceled", stripe[k].end, stripe[k].cancel)]
        /\ Report("deleted", k)
    BY <1>11 DEF Delete, Sell
  <2>3. New("canceled", stripe[k].end, stripe[k].cancel) \in Sold /\ stripe'[k] \in Sold
        /\ New("canceled", stripe[k].end, stripe[k].cancel).status = "canceled"
    BY <1>5, <1>6, <2>1
  <2>4. Told(k, "deleted")
    BY <1>1, <2>1, <2>3, ReportTells
  <2>5. QED
    BY <1>3, <2>1, <2>3, <2>4
<1>12. CASE Lapse(k)
  <2>1. stripe' = [stripe EXCEPT ![k] = New("incomplete_expired", stripe[k].end, FALSE)]
        /\ Report("upsert", k)
    BY <1>12 DEF Lapse, Sell
  <2>3. New("incomplete_expired", stripe[k].end, FALSE) \in Sold /\ stripe'[k] \in Sold
        /\ New("incomplete_expired", stripe[k].end, FALSE).status = "incomplete_expired"
    BY <1>5, <1>6, <2>1
  <2>4. Told(k, "upsert")
    BY <1>1, <2>1, <2>3, ReportTells
  <2>5. QED
    BY <1>3, <2>1, <2>3, <2>4
<1>13. CASE GiveUp(k)
  <2>1. stripe' = [stripe EXCEPT ![k] = New("unpaid", stripe[k].end, stripe[k].cancel)]
        /\ Report("upsert", k)
    BY <1>13 DEF GiveUp, Sell
  <2>3. New("unpaid", stripe[k].end, stripe[k].cancel) \in Sold /\ stripe'[k] \in Sold
        /\ New("unpaid", stripe[k].end, stripe[k].cancel).status = "unpaid"
    BY <1>5, <1>6, <2>1
  <2>4. Told(k, "upsert")
    BY <1>1, <2>1, <2>3, ReportTells
  <2>5. QED
    BY <1>3, <2>1, <2>3, <2>4
<1>14. QED
  BY <1>7, <1>8, <1>9, <1>10, <1>11, <1>12, <1>13

LEMMA InvTypes ==
    ASSUME BillInv
    PROVE  /\ TypeOK /\ now \in Nat /\ raced \in BOOLEAN
           /\ stripe \in [Subs -> Sold \cup {Unsold}] /\ row \in Row \cup {NoRow}
           /\ stored \in SUBSET (DOMAIN events) /\ checkout \in [Subs -> CheckoutStatus]
           /\ req \in [Servers -> Request]
           /\ \A s \in Servers : InHand(req[s])
           /\ Granted(row)
BY DEF BillInv, TypeOK, Servers

\* A request takes a step that writes nothing.
LEMMA ReqStep ==
    ASSUME BillInv, NEW s \in Servers, NEW r \in Request, InHand(r), Become(s, r),
           UNCHANGED <<now, stripe, events, row, stored, checkout, raced>>
    PROVE  BillInv'
<1>1. /\ req' \in [Servers -> Request] /\ req'[s] = r
      /\ \A o \in Servers : o # s => req'[o] = req[o]
  BY BecomeTypes, InvTypes
<1>2. \A o \in Servers : InHand(req'[o])
  BY <1>1, InvTypes
<1>3. QED
  BY <1>1, <1>2, InvTypes, TableStep

LEMMA IdleInHand == InHand(Idle)
BY IdleRequest DEF InHand

LEMMA RowOfAccess ==
    ASSUME TypeOK, HasPaidAccess(row) \/ row # NoRow
    PROVE  row \in Row /\ row # NoRow /\ row.sub \in Subs
<1>1. row \in Row \cup {NoRow} /\ now \in Nat
  BY DEF TypeOK
<1>2. row # NoRow
  BY <1>1 DEF HasPaidAccess, NoRow
<1>3. QED
  BY <1>1, <1>2 DEF Row

LEMMA DecideStep ==
    ASSUME BillInv, NEW s \in Servers,
           (\E plan \in Plans : DecideCheckout(s, plan)) \/ DecideCancellation(s)
    PROVE  BillInv'
<1>1. UNCHANGED <<now, stripe, events, row, stored, checkout, raced>>
  BY DEF DecideCheckout, DecideCancellation
<1>2. PICK r : /\ Become(s, r)
               /\ \/ \E plan \in Plans : r = [pc |-> "create", plan |-> plan]
                  \/ /\ row.sub \in Subs /\ row # NoRow
                     /\ \/ \E plan \in Plans : r = [pc |-> "change", sub |-> row.sub, plan |-> plan]
                        \/ r = [pc |-> "cancel", sub |-> row.sub]
  BY InvTypes, RowOfAccess DEF DecideCheckout, DecideCancellation
<1>3. r \in Request /\ r.pc \in {"create", "change", "cancel"}
  BY <1>2 DEF Request
<1>4. InHand(r)
  BY <1>2, <1>3 DEF InHand
<1>5. QED
  BY <1>1, <1>2, <1>3, <1>4, ReqStep

\* A request changes a subscription at the provider, or finds that it cannot.
LEMMA CallStep ==
    ASSUME BillInv, NEW s \in Servers, ChangePrice(s) \/ CancelAtProvider(s)
    PROVE  BillInv'
<1> DEFINE k == req[s].sub
<1>1. k \in Subs /\ TypeOK
  <2>1. req[s] \in Request /\ req[s].pc \in {"change", "cancel"}
    BY InvTypes DEF ChangePrice, CancelAtProvider, At
  <2>2. QED
    BY <2>1, InvTypes, RequestTypes
<1>2. CASE UNCHANGED <<stripe, events>> /\ Leave(s)
  <2>1. UNCHANGED <<now, stripe, events, row, stored, checkout, raced>> /\ Become(s, Idle)
    BY <1>2 DEF ChangePrice, CancelAtProvider, AtProvider, Leave
  <2>2. QED
    BY <2>1, IdleRequest, IdleInHand, ReqStep
<1>3. CASE \E cancel \in BOOLEAN, plan \in Plans, r \in {Idle, [pc |-> "cancelled"]} :
               /\ Live(k) /\ Sell(k, stripe[k].status, stripe[k].end, cancel, plan)
               /\ Report("upsert", k) /\ Become(s, r)
               /\ r # Idle => row # NoRow
  <2>1. PICK cancel \in BOOLEAN, plan \in Plans, r \in {Idle, [pc |-> "cancelled"]} :
               /\ Live(k) /\ Sell(k, stripe[k].status, stripe[k].end, cancel, plan)
               /\ Report("upsert", k) /\ Become(s, r)
               /\ r # Idle => row # NoRow
    BY <1>3
  <2> DEFINE state == [status |-> stripe[k].status, end |-> stripe[k].end, cancel |-> cancel, plan |-> plan]
  <2>2. state \in Sold /\ state.status \notin {"payable", "canceled"}
    BY <1>1, <2>1, SoldTypes DEF Sold, Live
  <2>3. stripe' = [stripe EXCEPT ![k] = state] /\ stripe'[k] \in Sold
    BY <1>1, <2>1, <2>2, InvTypes DEF Sell
  <2> HIDE DEF state
  <2>4. Told(k, "upsert")
    BY <1>1, <2>1, <2>3, ReportTells
  <2>5. UNCHANGED <<now, row, stored, checkout, raced>>
    BY DEF ChangePrice, CancelAtProvider, AtProvider
  <2>6. r \in Request /\ InHand(r)
    <3>1. CASE r = Idle
      BY <3>1, IdleRequest, IdleInHand
    <3>2. CASE r = [pc |-> "cancelled"]
      BY <2>1, <3>2 DEF Request, InHand, Idle
    <3>3. QED
      BY <3>1, <3>2
  <2>7. /\ req' \in [Servers -> Request]
        /\ \A o \in Servers : InHand(req'[o])
    BY <1>1, <2>1, <2>6, BecomeTypes, InvTypes
  <2>8. QED
    BY <1>1, <2>2, <2>3, <2>4, <2>5, <2>7, SellStep
<1>4. CASE ChangePrice(s)
  <2>1. CASE Live(k)
    <3>1. /\ Sell(k, stripe[k].status, stripe[k].end, stripe[k].cancel, req[s].plan)
          /\ Report("upsert", k) /\ Become(s, Idle)
      BY <1>4, <2>1 DEF ChangePrice, Leave
    <3>2. stripe[k].cancel \in BOOLEAN
      BY <1>1, <2>1, SoldTypes DEF Live
    <3>3. req[s].plan \in Plans
      BY <1>4, InvTypes, RequestTypes DEF ChangePrice, At
    <3>4. QED
      BY <1>3, <2>1, <3>1, <3>2, <3>3
  <2>2. CASE ~Live(k)
    BY <1>2, <1>4, <2>2 DEF ChangePrice
  <2>3. QED
    BY <2>1, <2>2
<1>5. CASE CancelAtProvider(s)
  <2>1. CASE Live(k)
    <3>1. /\ Sell(k, stripe[k].status, stripe[k].end, TRUE, stripe[k].plan)
          /\ Report("upsert", k) /\ Become(s, [pc |-> "cancelled"])
      BY <1>5, <2>1 DEF CancelAtProvider
    <3>2. stripe[k].plan \in Plans
      BY <1>1, <2>1, SoldTypes DEF Live
    <3>3. row # NoRow
      BY <1>5, InvTypes DEF CancelAtProvider, At, InHand
    <3>4. QED
      BY <1>3, <2>1, <3>1, <3>2, <3>3
  <2>2. CASE ~Live(k)
    BY <1>2, <1>5, <2>2 DEF CancelAtProvider
  <2>3. QED
    BY <2>1, <2>2
<1>6. QED
  BY <1>4, <1>5

LEMMA CreateStep ==
    ASSUME BillInv, NEW s \in Servers, CreateSession(s)
    PROVE  BillInv'
<1>1. PICK k \in Subs :
         /\ stripe[k] = Unsold
         /\ Sell(k, "payable", 0, FALSE, req[s].plan)
         /\ Become(s, [pc |-> "store", sub |-> k])
  BY DEF CreateSession
<1> DEFINE state == [status |-> "payable", end |-> 0, cancel |-> FALSE, plan |-> req[s].plan]
           r == [pc |-> "store", sub |-> k]
<1>2. req[s].plan \in Plans
  BY InvTypes, RequestTypes DEF CreateSession, At
<1>3. state \in Sold /\ state.status = "payable"
  BY <1>2 DEF Sold
<1>4. stripe' = [stripe EXCEPT ![k] = state]
  BY <1>1 DEF Sell
<1>5. r \in Request /\ InHand(r)
  BY DEF Request, InHand
<1> HIDE DEF state, r
<1>6. stripe' \in [Subs -> Sold \cup {Unsold}] /\ stripe'[k] = state
      /\ \A j \in Subs : j # k => stripe'[j] = stripe[j]
  BY <1>3, <1>4, InvTypes
<1>7. UNCHANGED <<events, now, row, stored, checkout, raced>>
  BY DEF CreateSession, AtProvider
<1>8. req' \in [Servers -> Request] /\ \A o \in Servers : InHand(req'[o])
  BY <1>1, <1>5, BecomeTypes, InvTypes DEF r
<1>9. TypeOK'
  BY <1>6, <1>7, <1>8 DEF BillInv, TypeOK, Servers
<1>10. \A i \in DOMAIN events : events[i].sub \in Subs
  BY InvTypes, ElementOfSeq, EventTypes DEF TypeOK
<1>11. \A i \in DOMAIN events : stripe'[events[i].sub] \in Sold
  BY <1>1, <1>3, <1>6, <1>10 DEF BillInv
<1>12. ASSUME NEW j \in Subs
       PROVE  Backed(j, stripe[j])'
  BY <1>3, <1>6, <1>7 DEF BillInv, Backed, Reported
<1>13. \A o \in Servers : InHand(req[o])'
  BY <1>7, <1>8 DEF InHand, Granted, Backed, Reported
<1>14. QED
  BY <1>7, <1>9, <1>11, <1>12, <1>13 DEF BillInv, Granted, Reported

LEMMA StoreStep ==
    ASSUME BillInv, NEW s \in Servers, StoreCheckout(s) \/ CancelStore(s)
    PROVE  BillInv'
<1>1. /\ req' \in [Servers -> Request] /\ \A o \in Servers : InHand(req'[o])
  BY IdleRequest, IdleInHand, BecomeTypes, InvTypes DEF StoreCheckout, CancelStore, Leave
<1>2. UNCHANGED <<now, stripe, events, stored, raced>>
  BY DEF StoreCheckout, CancelStore, InTables
<1>3. CASE StoreCheckout(s)
  <2>1. checkout' \in [Subs -> CheckoutStatus]
    BY <1>3, InvTypes DEF StoreCheckout, CheckoutStatus
  <2>2. row' = row
    BY <1>3 DEF StoreCheckout
  <2>3. QED
    BY <1>1, <1>2, <2>1, <2>2, InvTypes, TableStep
<1>4. CASE CancelStore(s)
  <2>1. checkout' = checkout /\ row' = [row EXCEPT !.cancel = TRUE]
    BY <1>4 DEF CancelStore
  <2>2. row \in Row /\ Granted(row)
    BY <1>4, InvTypes DEF CancelStore, At, InHand
  <2>3. row' \in Row /\ row'.status = row.status /\ row'.sub = row.sub /\ row'.end = row.end
    BY <2>1, <2>2 DEF Row
  <2>4. Granted(row') /\ row' # NoRow
    BY <2>2, <2>3, RowIsNotNoRow DEF Granted
  <2>5. QED
    BY <1>1, <1>2, <2>1, <2>3, <2>4, InvTypes, TableStep
<1>5. QED
  BY <1>3, <1>4

LEMMA ClockStep ==
    ASSUME BillInv, Tick \/ \E k \in Subs : CheckoutAges(k)
    PROVE  BillInv'
<1>1. UNCHANGED <<stripe, events, row, stored, req, raced>> /\ now' \in Nat
      /\ checkout' \in [Subs -> CheckoutStatus]
  BY InvTypes DEF Tick, CheckoutAges, InTables, CheckoutStatus
<1>2. QED
  BY <1>1, InvTypes, TableStep

-----------------------------------------------------------------------------
(* The webhook.                                                             *)

LEMMA MapTypes ==
    ASSUME NEW state \in Sold, NEW t
    PROVE  /\ MapStripeStatus(state, t) \in {"ACTIVE", "PAST_DUE", "CANCELED", "EXPIRED", "none"}
           /\ MapStripeStatus(state, t) = "ACTIVE" => state.status = "active"
           /\ MapStripeStatus(state, t) = "CANCELED" => state.status = "canceled"
BY DEF MapStripeStatus

\* What an event makes of a row is a row, as true as what it carries.
LEMMA ReducedIsTrue ==
    ASSUME NEW e \in Event, NEW state, NEW base \in Row \cup {NoRow}, NEW t,
           Applies(e, state, base, t),
           e.kind # "failed" => state \in Sold,
           e.kind \in {"upsert", "completed"} => Backed(e.sub, state)
    PROVE  LET r == Reduced(e, state, base, t) IN
           /\ r \in Row /\ Granted(r) /\ r.at = e.at
           /\ base # NoRow => base.at <= r.at
<1> DEFINE r == Reduced(e, state, base, t)
<1>1. e.sub \in Subs /\ e.at \in Nat /\ e.kind \in {"completed", "failed", "upsert", "deleted"}
  BY EventTypes
<1>2. base # NoRow => base \in Row /\ base.at <= e.at
  BY <1>1 DEF Applies, Row
<1>3. CASE e.kind = "failed"
  <2>1. base \in Row
    BY <1>2, <1>3 DEF Applies
  <2>2. r = [status |-> "PAST_DUE", end |-> base.end, cancel |-> base.cancel, plan |-> base.plan,
             sub |-> base.sub, at |-> e.at]
    BY <1>3 DEF Reduced
  <2>3. r \in Row /\ r.status = "PAST_DUE" /\ r.at = e.at
    BY <1>1, <2>1, <2>2 DEF Row
  <2>4. QED
    BY <1>2, <2>3 DEF Granted
<1>4. CASE e.kind # "failed"
  <2> DEFINE status == IF e.kind = "deleted" THEN "EXPIRED" ELSE MapStripeStatus(state, t)
             cancel == IF e.kind = "deleted" THEN FALSE ELSE status = "CANCELED" \/ state.cancel
  <2>1. state \in Sold /\ state.cancel \in BOOLEAN /\ state.end \in Nat /\ state.plan \in Plans
    BY <1>4 DEF Sold
  <2>2. r = [status |-> status, end |-> state.end, plan |-> state.plan, sub |-> e.sub, at |-> e.at,
             cancel |-> cancel]
    BY <1>4 DEF Reduced
  <2>3. /\ status \in {"ACTIVE", "PAST_DUE", "CANCELED", "EXPIRED"}
        /\ status = "ACTIVE" => e.kind # "deleted" /\ state.status = "active"
        /\ status = "CANCELED" => e.kind # "deleted" /\ state.status = "canceled"
    BY <1>1, <1>4, <2>1, MapTypes DEF Applies
  <2>4. cancel \in BOOLEAN
    BY <2>1
  <2> HIDE DEF status, cancel
  <2>5. r \in Row /\ r.at = e.at /\ r.status = status /\ r.sub = e.sub /\ r.end = state.end
    BY <1>1, <2>1, <2>2, <2>3, <2>4 DEF Row
  <2>6. Granted(r)
    BY <1>1, <1>4, <2>3, <2>5 DEF Granted, Backed
  <2>7. QED
    BY <1>2, <2>5, <2>6
<1>5. QED
  BY <1>3, <1>4

LEMMA FindStep ==
    ASSUME BillInv, NEW s \in Servers, NEW i \in DOMAIN events, NEW state, NEW t,
           events[i].kind # "failed" => state \in Sold,
           events[i].kind \in {"upsert", "completed"} => Backed(events[i].sub, state),
           Find(s, i, state, t),
           UNCHANGED <<now, stripe, events, row, stored, checkout, raced>>
    PROVE  BillInv'
<1> DEFINE e == events[i]
           applied == Applies(e, state, row, t)
           r == [pc |-> "write", event |-> i, applied |-> applied, base |-> row,
                 row |-> IF applied THEN Reduced(e, state, row, t) ELSE row]
<1>1. e \in Event /\ i \in Nat /\ row \in Row \cup {NoRow}
  BY InvTypes, ElementOfSeq DEF TypeOK
<1>2. CASE i \in stored
  BY <1>2, IdleRequest, IdleInHand, ReqStep DEF Find, Leave
<1>3. CASE i \notin stored
  <2>1. Become(s, r)
    BY <1>3 DEF Find
  <2>2. applied \in BOOLEAN
    BY DEF Applies
  <2>3. applied => LET x == Reduced(e, state, row, t) IN
            /\ x \in Row /\ Granted(x) /\ x.at = e.at
            /\ row # NoRow => row.at <= x.at
    BY <1>1, ReducedIsTrue
  <2> DEFINE x == IF applied THEN Reduced(e, state, row, t) ELSE row
  <2>4. x \in Row \cup {NoRow}
    BY <1>1, <2>3
  <2>5. applied => /\ x \in Row /\ Granted(x) /\ x.at = e.at
                   /\ row # NoRow => row.at <= x.at
    BY <2>3
  <2>6. r = [pc |-> "write", event |-> i, applied |-> applied, base |-> row, row |-> x]
    OBVIOUS
  <2> HIDE DEF applied, x, r
  <2>7. r \in Request
    BY <1>1, <2>2, <2>4, <2>6 DEF Request
  <2>8. InHand(r)
    BY <2>5, <2>6 DEF InHand
  <2>9. QED
    BY <2>1, <2>7, <2>8, ReqStep
<1>4. QED
  BY <1>2, <1>3

LEMMA HookStep ==
    ASSUME BillInv, NEW s \in Servers,
           FindExpanded(s) \/ \E i \in DOMAIN events : Expand(s, i) \/ FindEvent(s, i)
    PROVE  BillInv'
<1>1. UNCHANGED <<now, stripe, events, row, stored, checkout, raced>>
  BY DEF FindExpanded, Expand, FindEvent
<1>2. CASE FindExpanded(s)
  <2>1. /\ req[s].pc = "expanded" /\ req[s].event \in DOMAIN events /\ req[s].state \in Sold
        /\ Backed(events[req[s].event].sub, req[s].state)
    BY <1>2, InvTypes, RequestTypes DEF FindExpanded, At, InHand
  <2>2. Find(s, req[s].event, req[s].state, req[s].now)
    BY <1>2 DEF FindExpanded
  <2>3. QED
    BY <1>1, <2>1, <2>2, FindStep
<1>3. ASSUME NEW i \in DOMAIN events, Expand(s, i)
      PROVE  BillInv'
  <2> DEFINE r == [pc |-> "expanded", event |-> i, now |-> now, state |-> stripe[events[i].sub]]
  <2>1. Become(s, r)
    BY <1>3 DEF Expand
  <2>2. /\ i \in Nat /\ now \in Nat
        /\ stripe[events[i].sub] \in Sold /\ Backed(events[i].sub, stripe[events[i].sub])
    BY InvTypes, ElementOfSeq, EventTypes DEF BillInv, TypeOK
  <2>3. r \in Request /\ InHand(r)
    BY <2>2 DEF Request, InHand
  <2> HIDE DEF r
  <2>4. QED
    BY <1>1, <2>1, <2>3, ReqStep
<1>4. ASSUME NEW i \in DOMAIN events, FindEvent(s, i)
      PROVE  BillInv'
  <2> DEFINE e == events[i]
             state == IF e.kind = "failed" THEN Unsold ELSE e.state
  <2>1. e \in Event /\ e.kind \in {"failed", "upsert", "deleted"}
    BY <1>4, InvTypes, ElementOfSeq, EventTypes DEF TypeOK, FindEvent
  <2>2. e.kind # "failed" => state \in Sold
    BY <2>1, EventTypes
  <2>3. e.kind \in {"upsert", "completed"} => Backed(e.sub, state)
    <3>1. ASSUME e.kind = "upsert" PROVE Backed(e.sub, e.state)
      BY <3>1 DEF BillInv, Backed, Reported
    <3>2. QED
      BY <2>1, <3>1
  <2>4. Find(s, i, state, now)
    BY <1>4 DEF FindEvent
  <2> HIDE DEF state
  <2>5. QED
    BY <1>1, <2>2, <2>3, <2>4, FindStep
<1>5. QED
  BY <1>2, <1>3, <1>4

\* What a webhook that commits has in hand.
LEMMA Stored ==
    ASSUME BillInv, NEW s \in Servers, StoreEvent(s)
    PROVE  /\ req[s].event \in DOMAIN events \ stored /\ stored' = stored \cup {req[s].event}
           /\ req[s].applied \in BOOLEAN
           /\ row' = IF req[s].applied THEN req[s].row ELSE row
           /\ raced' = (raced \/ (req[s].applied /\ row # req[s].base))
           /\ req[s].applied =>
                /\ req[s].row \in Row /\ Granted(req[s].row)
                /\ req[s].row.at = events[req[s].event].at
                /\ req[s].base # NoRow => req[s].base.at <= req[s].row.at
<1>1. req[s].pc = "write" /\ InHand(req[s]) /\ req[s] \in Request
  BY InvTypes DEF StoreEvent, At
<1>2. QED
  BY <1>1, RequestTypes DEF StoreEvent, Save, InHand

LEMMA StoreEventStep ==
    ASSUME BillInv, NEW s \in Servers, StoreEvent(s)
    PROVE  BillInv'
<1>1. UNCHANGED <<now, stripe, events>> /\ Become(s, Idle)
  BY DEF StoreEvent, Save, Leave
<1>2. /\ req' \in [Servers -> Request] /\ \A o \in Servers : InHand(req'[o])
  BY <1>1, IdleRequest, IdleInHand, BecomeTypes, InvTypes
<1>3. checkout' \in [Subs -> CheckoutStatus]
  BY InvTypes DEF StoreEvent, Save, CheckoutStatus
<1>4. row' \in Row \cup {NoRow} /\ (row # NoRow => row' # NoRow) /\ Granted(row')
  BY Stored, InvTypes, RowIsNotNoRow
<1>5. stored' \in SUBSET (DOMAIN events) /\ raced' \in BOOLEAN
  BY Stored, InvTypes
<1>6. QED
  BY <1>1, <1>2, <1>3, <1>4, <1>5, InvTypes, TableStep

LEMMA AbortStep ==
    ASSUME BillInv, NEW s \in Servers, Abort(s)
    PROVE  BillInv'
BY IdleRequest, IdleInHand, ReqStep DEF Abort, Leave

\* Next, by what a step changes.
LEMMA NextCases ==
    ASSUME Next
    PROVE  \/ \E k \in Subs :
                \/ PaymentStarts(k) \/ Lapse(k) \/ Pay(k)
                \/ Renew(k) \/ PaymentFails(k) \/ GiveUp(k) \/ Delete(k)
           \/ \E k \in Subs : FirstPaymentFails(k)
           \/ Tick \/ \E k \in Subs : CheckoutAges(k)
           \/ \E s \in Servers :
                \/ (\E plan \in Plans : DecideCheckout(s, plan)) \/ DecideCancellation(s)
                \/ ChangePrice(s) \/ CancelAtProvider(s)
                \/ CreateSession(s)
                \/ StoreCheckout(s) \/ CancelStore(s)
                \/ FindExpanded(s) \/ \E i \in DOMAIN events : Expand(s, i) \/ FindEvent(s, i)
                \/ StoreEvent(s)
                \/ Abort(s)
BY DEF Next, Provider, Clerk, Hook, Servers

LEMMA NextInv == BillInv /\ [Next]_vars => BillInv'
<1> SUFFICES ASSUME BillInv, [Next]_vars PROVE BillInv'
  OBVIOUS
<1>1. CASE UNCHANGED vars
  BY <1>1, InvTypes, TableStep DEF vars
<1>2. CASE Next
  BY <1>2, NextCases, ProviderStep, FirstFailureStep, ClockStep, DecideStep, CallStep, CreateStep, StoreStep,
     HookStep, StoreEventStep, AbortStep
<1>3. QED
  BY <1>1, <1>2

\* The row is only written by a webhook and by a cancellation.
LEMMA RowWriters ==
    ASSUME [Next]_vars, row' # row
    PROVE  \E s \in Servers : StoreEvent(s) \/ CancelStore(s)
<1>1. Next
  BY DEF vars
<1>2. QED
  BY <1>1, NextCases
     DEF PaymentStarts, FirstPaymentFails, Lapse, Pay, Renew, PaymentFails, GiveUp, Delete, Tick, CheckoutAges, AtApp, AtProvider,
         InTables, DecideCheckout, DecideCancellation, ChangePrice, CancelAtProvider, CreateSession,
         StoreCheckout, FindExpanded, Expand, FindEvent, Abort

-----------------------------------------------------------------------------
(* What the row and the provider agree on.  Of the subscription that was told  *)
(* last, the latest change is told by an event l that is younger than all     *)
(* earlier ones: a row as young as l reflects the provider, and once l is     *)
(* stored the row is as young.                                                *)

BoughtStatuses == {"active", "past_due", "unpaid", "canceled"}
Cancelled(k) == stripe[k].status \in BoughtStatuses /\ stripe[k].cancel

\* The subscription the row has to agree with.
Agreed(k) == ToldLast(k) /\ FailsOnly(k)

\* A row tells what the state of the subscription is; the end of a period needs
\* no event.
Reflects(r, k) ==
    CASE stripe[k].status = "active" ->
            \/ /\ r.status = "ACTIVE" /\ r.sub = k /\ r.end = stripe[k].end /\ r.plan = stripe[k].plan
               /\ stripe[k].cancel => r.cancel
               /\ r.cancel => \E j \in Subs : Cancelled(j)
            \/ r.status = "EXPIRED" /\ now >= stripe[k].end
      [] stripe[k].status \in {"past_due", "unpaid"} -> r.status = "PAST_DUE"
      [] OTHER -> r.status = "EXPIRED"

\* An event of the change that led to the state.
Fits(e, state) ==
    CASE e.kind = "completed" -> state.status = "active"
      [] e.kind = "failed" -> state.status = "past_due"
      [] e.kind = "deleted" -> e.state = state /\ state.status = "canceled"
      [] OTHER -> e.state = state

\* What a webhook request makes of an event of that change.
KeepsUp(r, k, at) ==
    /\ r.pc = "expanded" /\ events[r.event].at >= at => r.state = stripe[k]
    /\ r.pc = "write" /\ r.applied /\ events[r.event].at >= at => Reflects(r.row, k)

Reached(at) == row # NoRow /\ row.at >= at

\* While no webhook wrote over a row it had not read.
Unraced(k, l) ==
    LET at == events[l].at IN
    /\ Reached(at) => Reflects(row, k)
    /\ l \in stored => Reached(at)
    /\ \A s \in Servers :
        At(s, "write") /\ req[s].event = l /\ ~req[s].applied => Reached(at)

Latest(k, l) ==
    LET e == events[l] IN
    /\ e.kind \in {"upsert", "deleted"} /\ e.sub = k /\ e.state = stripe[k]
    /\ stripe[k].status # "incomplete"
    /\ \A i \in DOMAIN events : Tells(events[i]) /\ events[i].at >= e.at =>
            events[i].sub = k /\ Fits(events[i], stripe[k])
    /\ \A s \in Servers : KeepsUp(req[s], k, e.at)
    /\ ~raced => Unraced(k, l)

Known(r) ==
    /\ r.pc = "expanded" => events[r.event].kind = "completed" /\ r.now <= now
    /\ r.pc = "cancelled" => \E k \in Subs : Cancelled(k)

AgreeInv ==
    /\ \A i \in DOMAIN events : events[i].at <= LastAt
    /\ row # NoRow => row.at <= LastAt
    /\ \A s \in Servers : Known(req[s])
    /\ \A k \in Subs : Agreed(k) => \E l \in DOMAIN events : Latest(k, l)

LEMMA EventIs ==
    ASSUME BillInv, NEW i \in DOMAIN events
    PROVE  /\ events[i] \in Event /\ i \in Nat /\ events[i].at \in Nat /\ events[i].sub \in Subs
           /\ events[i].kind \in {"completed", "failed", "upsert", "deleted"}
           /\ events[i].kind \in {"upsert", "deleted"} => events[i].state \in Sold
BY InvTypes, ElementOfSeq, EventTypes DEF TypeOK

LEMMA RowIs ==
    ASSUME BillInv, row # NoRow
    PROVE  row \in Row /\ row.at \in Nat
BY InvTypes DEF Row

LEMMA LatestState ==
    ASSUME BillInv, NEW k \in Subs, NEW l \in DOMAIN events, Latest(k, l)
    PROVE  /\ stripe[k].status \in BoughtStatuses \cup {"incomplete_expired"}
           /\ stripe[k].end \in Nat /\ stripe[k].cancel \in BOOLEAN /\ stripe[k] \in Sold
<1>1. /\ events[l] \in Event /\ events[l].kind \in {"upsert", "deleted"} /\ events[l].state = stripe[k]
      /\ stripe[k].status # "incomplete" /\ events[l].at \in Nat
      /\ Tells(events[l]) /\ events[l].at >= events[l].at => Fits(events[l], stripe[k])
  BY EventIs DEF Latest
<1>2. stripe[k] \in Sold
  BY <1>1, EventIs
<1>3. Fits(events[l], stripe[k])
  BY <1>1 DEF Tells
<1>4. stripe[k].status # "payable"
  <2>1. CASE events[l].kind = "upsert"
    BY <1>1, <2>1 DEF BillInv
  <2>2. CASE events[l].kind = "deleted"
    BY <1>3, <2>2 DEF Fits
  <2>3. QED
    BY <1>1, <2>1, <2>2
<1>5. QED
  BY <1>1, <1>2, <1>4 DEF Sold, BoughtStatuses

-----------------------------------------------------------------------------
(* A change and the events that tell it.                                    *)

\* The new events are about k; one of them carries its state and is younger than
\* all that were there.
Dated(k) ==
    /\ Extended
    /\ \A i \in DOMAIN events, l \in DOMAIN events' \ DOMAIN events : ~(l <= i)
    /\ LastAt' \in Nat /\ LastAt <= LastAt'
    /\ \A i \in DOMAIN events' \ DOMAIN events :
        /\ events'[i].at <= LastAt' /\ events'[i].sub = k
        /\ Fits(events'[i], stripe'[k])
    /\ \E l \in DOMAIN events' \ DOMAIN events :
        /\ events'[l].kind \in {"upsert", "deleted"} /\ events'[l].state = stripe'[k]
        /\ events'[l].at \in Nat /\ events'[l].at > LastAt

LEMMA ReportDated ==
    ASSUME BillInv, NEW k \in Subs, NEW kind \in {"upsert", "deleted"}, stripe'[k] \in Sold,
           kind = "deleted" => stripe'[k].status = "canceled",
           Report(kind, k)
    PROVE  Dated(k)
<1>1. PICK e : e = Full(kind, k, LastAt + 1)
  OBVIOUS
<1>2. events \in Seq(Event) /\ LastAt \in Nat
  BY InvTypes, LastAtType DEF TypeOK
<1>3. e \in Event /\ e.kind = kind /\ e.sub = k /\ e.state = stripe'[k] /\ e.at = LastAt + 1
  BY <1>1, <1>2 DEF Full, Event
<1>4. events' = Append(events, e)
  BY <1>1 DEF Report
<1>5. events' \in Seq(Event) /\ Len(events') = Len(events) + 1
      /\ events'[Len(events) + 1] = e /\ \A i \in 1..Len(events) : events'[i] = events[i]
  BY <1>2, <1>3, <1>4, AppendProperties
<1>6. DOMAIN events = 1..Len(events) /\ DOMAIN events' = 1..Len(events') /\ Len(events) \in Nat
  BY <1>2, <1>5
<1>7. Extended
  BY <1>5, <1>6 DEF Extended
<1>8. \A i \in DOMAIN events' \ DOMAIN events : i = Len(events) + 1
  BY <1>5, <1>6
<1>9. Len(events) + 1 \in DOMAIN events' \ DOMAIN events
  BY <1>5, <1>6
<1>10. LastAt' = e.at
  <2>1. events' # <<>>
    BY <1>9
  <2>2. QED
    BY <1>5, <2>1 DEF LastAt
<1>11. Fits(e, stripe'[k])
  BY <1>3 DEF Fits
<1>12. LastAt + 1 \in Nat /\ LastAt + 1 > LastAt /\ LastAt <= LastAt + 1
  BY <1>2
<1>13. \A i \in DOMAIN events' \ DOMAIN events :
         /\ events'[i].at <= LastAt' /\ events'[i].sub = k
         /\ Fits(events'[i], stripe'[k])
  <2>1. e.at <= e.at
    BY <1>2, <1>3
  <2>2. QED
    BY <1>3, <1>5, <1>8, <1>10, <1>11, <2>1
<1>14. \E l \in DOMAIN events' \ DOMAIN events :
         /\ events'[l].kind \in {"upsert", "deleted"} /\ events'[l].state = stripe'[k]
         /\ events'[l].at \in Nat /\ events'[l].at > LastAt
  BY <1>3, <1>5, <1>9, <1>12
<1>15. LastAt' \in Nat /\ LastAt <= LastAt'
  BY <1>2, <1>3, <1>10, <1>12
<1>16. \A i \in DOMAIN events, l \in DOMAIN events' \ DOMAIN events : ~(l <= i)
  BY <1>6, <1>8
<1>17. QED
  BY <1>7, <1>13, <1>14, <1>15, <1>16 DEF Dated

LEMMA ReportBothDated ==
    ASSUME BillInv, NEW k \in Subs, NEW kind \in {"completed", "failed"}, stripe'[k] \in Sold,
           stripe'[k].status = IF kind = "completed" THEN "active" ELSE "past_due",
           ReportBoth(kind, k)
    PROVE  Dated(k)
<1>1. events \in Seq(Event) /\ LastAt \in Nat
  BY InvTypes, LastAtType DEF TypeOK
<1>2. ASSUME NEW x \in Event, NEW y \in Event, events' = events \o <<x, y>>,
             x.sub = k, y.sub = k, Fits(x, stripe'[k]), Fits(y, stripe'[k]),
             x.at > LastAt, x.at <= y.at,
             \E z \in {x, y} : z.kind = "upsert" /\ z.state = stripe'[k]
      PROVE  Dated(k)
  <2>1. /\ events' \in Seq(Event)
        /\ DOMAIN events' = 1..Len(events) + 2 /\ DOMAIN events = 1..Len(events)
        /\ events'[Len(events) + 1] = x /\ events'[Len(events) + 2] = y
        /\ \A i \in 1..Len(events) : events'[i] = events[i]
    BY <1>1, <1>2, TwoMore
  <2>2. Len(events) \in Nat
    BY <1>1
  <2>3. Len(events') = Len(events) + 2
    <3>1. DOMAIN events' = 1..Len(events') /\ Len(events') \in Nat
      BY <2>1
    <3>2. QED
      BY <2>1, <2>2, <3>1
  <2>4. Extended
    BY <2>1, <2>2 DEF Extended
  <2>5. \A i \in DOMAIN events' \ DOMAIN events : i = Len(events) + 1 \/ i = Len(events) + 2
    BY <2>1, <2>2
  <2>6. /\ Len(events) + 1 \in DOMAIN events' \ DOMAIN events
        /\ Len(events) + 2 \in DOMAIN events' \ DOMAIN events
    BY <2>1, <2>2
  <2>7. LastAt' = y.at
    <3>1. events' # <<>>
      BY <2>6
    <3>2. QED
      BY <2>1, <2>3, <3>1 DEF LastAt
  <2>8. x.at \in Nat /\ y.at \in Nat
    BY EventTypes
  <2>9. LastAt' \in Nat /\ LastAt <= LastAt' /\ y.at > LastAt /\ y.at <= LastAt'
    BY <1>1, <1>2, <2>7, <2>8
  <2>10. \A i \in DOMAIN events' \ DOMAIN events :
           /\ events'[i].at <= LastAt' /\ events'[i].sub = k
           /\ Fits(events'[i], stripe'[k])
    BY <1>2, <2>1, <2>5, <2>7, <2>8
  <2>11. \E l \in DOMAIN events' \ DOMAIN events :
           /\ events'[l].kind \in {"upsert", "deleted"} /\ events'[l].state = stripe'[k]
           /\ events'[l].at \in Nat /\ events'[l].at > LastAt
    BY <1>2, <2>1, <2>6, <2>8, <2>9, ZenonT(60)
  <2>12. \A i \in DOMAIN events, j \in DOMAIN events' \ DOMAIN events : ~(j <= i)
    BY <2>1, <2>2, <2>5
  <2>13. QED
    BY <2>4, <2>9, <2>10, <2>11, <2>12 DEF Dated
<1>3. ASSUME NEW a \in Nat
      PROVE  LET e == Full("upsert", k, a)
                 f == Brief(kind, k, a) IN
             /\ e \in Event /\ e.kind = "upsert" /\ e.sub = k /\ e.state = stripe'[k] /\ e.at = a
             /\ f \in Event /\ f.sub = k /\ f.at = a
             /\ Fits(e, stripe'[k]) /\ Fits(f, stripe'[k])
  BY DEF Full, Brief, Event, Fits
<1>4. LastAt + 1 \in Nat /\ LastAt + 2 \in Nat
  BY <1>1
<1>5. CASE \E at \in {LastAt + 1, LastAt + 2} :
             events' = events \o <<Full("upsert", k, LastAt + 1), Brief(kind, k, at)>>
  <2>1. PICK a, b \in {LastAt + 1, LastAt + 2} :
          a = LastAt + 1 /\ events' = events \o <<Full("upsert", k, a), Brief(kind, k, b)>>
    BY <1>5
  <2>2. PICK x, y : x = Full("upsert", k, a) /\ y = Brief(kind, k, b)
    OBVIOUS
  <2>3. a \in Nat /\ b \in Nat /\ a > LastAt /\ a <= b
    BY <1>1, <1>4, <2>1
  <2>4. /\ x \in Event /\ x.kind = "upsert" /\ x.sub = k /\ x.state = stripe'[k] /\ x.at = a
        /\ y \in Event /\ y.sub = k /\ y.at = b
        /\ Fits(x, stripe'[k]) /\ Fits(y, stripe'[k])
    BY <1>3, <2>2, <2>3
  <2>5. QED
    BY <1>2, <2>1, <2>2, <2>3, <2>4
<1>6. CASE events' = events \o <<Brief(kind, k, LastAt + 1), Full("upsert", k, LastAt + 2)>>
  <2>1. PICK a, b : a = LastAt + 1 /\ b = LastAt + 2
    OBVIOUS
  <2>2. PICK x, y : x = Brief(kind, k, a) /\ y = Full("upsert", k, b)
    OBVIOUS
  <2>3. a \in Nat /\ b \in Nat /\ a > LastAt /\ a <= b
    BY <1>1, <1>4, <2>1
  <2>4. /\ x \in Event /\ x.sub = k /\ x.at = a
        /\ y \in Event /\ y.kind = "upsert" /\ y.sub = k /\ y.state = stripe'[k] /\ y.at = b
        /\ Fits(x, stripe'[k]) /\ Fits(y, stripe'[k])
    BY <1>3, <2>2, <2>3
  <2>5. QED
    BY <1>2, <1>6, <2>1, <2>2, <2>3, <2>4
<1>7. QED
  BY <1>5, <1>6 DEF ReportBoth

-----------------------------------------------------------------------------
(* Every step keeps the agreement.                                          *)

\* What a change makes of the state of a subscription.
Stays(old, new) ==
    old.status \in BoughtStatuses => new.status \in BoughtStatuses /\ (old.cancel => new.cancel)

LEMMA ChangeAgrees ==
    ASSUME BillInv, AgreeInv, NEW k \in Subs, NEW state \in Sold, state.status # "incomplete",
           stripe' = [stripe EXCEPT ![k] = state], Stays(stripe[k], state), Dated(k),
           UNCHANGED <<now, row, stored, raced>>,
           \A s \in Servers :
              \/ req'[s] = req[s]
              \/ req'[s] = Idle
              \/ req'[s] = [pc |-> "cancelled"] /\ state.status \in BoughtStatuses /\ state.cancel
    PROVE  AgreeInv'
<1>1. /\ stripe'[k] = state
      /\ \A j \in Subs : j # k => stripe'[j] = stripe[j]
  BY InvTypes
<1>2. /\ \A j \in Subs : Cancelled(j) => Cancelled(j)'
      /\ state.status \in BoughtStatuses /\ state.cancel => Cancelled(k)'
  BY <1>1 DEF Cancelled, Stays
<1>3. /\ \A i \in DOMAIN events : i \in DOMAIN events' /\ events'[i] = events[i]
      /\ \A i \in DOMAIN events, l \in DOMAIN events' \ DOMAIN events : ~(l <= i)
      /\ LastAt \in Nat /\ LastAt' \in Nat /\ LastAt <= LastAt'
      /\ \A i \in DOMAIN events' \ DOMAIN events :
            /\ events'[i].at <= LastAt' /\ events'[i].sub = k
            /\ Fits(events'[i], state)
  BY <1>1, InvTypes, LastAtType DEF Dated, Extended
<1>4. \A i \in DOMAIN events : events[i].at \in Nat /\ events[i].at <= LastAt
  BY EventIs DEF AgreeInv
<1>5. ASSUME NEW i \in DOMAIN events'
      PROVE  events'[i].at <= LastAt'
  BY <1>3, <1>4
<1>6. row # NoRow => row.at \in Nat /\ row.at <= LastAt
  BY RowIs DEF AgreeInv
<1>7. row' # NoRow => row'.at <= LastAt'
  BY <1>3, <1>6
<1>8. \A s \in Servers : req[s].pc \in {"expanded", "write"} => req[s].event \in DOMAIN events
  BY InvTypes DEF InHand
<1>9. ASSUME NEW s \in Servers PROVE Known(req[s])'
  <2>1. CASE req'[s] = req[s]
    <3>1. Known(req[s])
      BY DEF AgreeInv
    <3>2. req[s].pc = "expanded" => events'[req[s].event] = events[req[s].event]
      BY <1>3, <1>8
    <3>3. QED
      BY <1>2, <2>1, <3>1, <3>2 DEF Known
  <2>2. CASE req'[s] = Idle
    BY <2>2, IdleRequest DEF Known
  <2>3. CASE req'[s] = [pc |-> "cancelled"] /\ state.status \in BoughtStatuses /\ state.cancel
    BY <1>2, <2>3 DEF Known
  <2>4. QED
    BY <2>1, <2>2, <2>3
<1>10. \A s \in Servers : req'[s].pc \in {"expanded", "write"} => req'[s] = req[s]
  BY IdleRequest
<1>11. PICK l \in DOMAIN events' \ DOMAIN events :
          /\ events'[l].kind \in {"upsert", "deleted"} /\ events'[l].state = state
          /\ events'[l].at \in Nat /\ events'[l].at > LastAt
  BY <1>1 DEF Dated
<1>12. events'[l].sub = k /\ Tells(events'[l])
  BY <1>3, <1>11 DEF Tells
<1>13. Latest(k, l)'
  <2>1. PICK at : at = events'[l].at
    OBVIOUS
  <2>2. \A i \in DOMAIN events : ~(events[i].at >= at)
    BY <1>3, <1>4, <1>11, <2>1
  <2>3. ~Reached(at)'
    BY <1>3, <1>6, <1>11, <2>1 DEF Reached
  <2>4. \A i \in DOMAIN events' :
          Tells(events'[i]) /\ events'[i].at >= at => events'[i].sub = k /\ Fits(events'[i], state)
    BY <1>3, <2>2
  <2>5. ASSUME NEW s \in Servers PROVE KeepsUp(req[s], k, at)'
    BY <1>3, <1>8, <1>10, <2>2 DEF KeepsUp
  <2>6. Unraced(k, l)'
    <3>1. l \notin stored'
      BY InvTypes
    <3>2. \A s \in Servers : ~(At(s, "write") /\ req[s].event = l)'
      BY <1>8, <1>10 DEF At
    <3>3. QED
      BY <2>1, <2>3, <3>1, <3>2 DEF Unraced, Reached, At
  <2>7. QED
    BY <1>1, <1>11, <1>12, <2>1, <2>4, <2>5, <2>6 DEF Latest, KeepsUp
<1>14. ASSUME NEW j \in Subs, Agreed(j)'
       PROVE  j = k
  <2>1. PICK i \in DOMAIN events' : events'[i].sub = j /\ l <= i
    BY <1>12, <1>14 DEF Agreed, ToldLast
  <2>2. i \notin DOMAIN events
    BY <1>3, <2>1
  <2>3. QED
    BY <1>3, <2>1, <2>2
<1>15. \A j \in Subs : Agreed(j)' => \E m \in DOMAIN events' : Latest(j, m)'
  BY <1>13, <1>14
<1>16. QED
  BY <1>5, <1>7, <1>9, <1>15 DEF AgreeInv

\* Time passes, a session is made or a first payment is attempted: nothing is told of
\* the subscription the row has to agree with.
LEMMA AsideAgrees ==
    ASSUME BillInv, AgreeInv, now' \in Nat, now <= now',
           Extended, LastAt' \in Nat, LastAt <= LastAt',
           \A i \in DOMAIN events' \ DOMAIN events : events'[i].at <= LastAt',
           \A j \in Subs : Cancelled(j) => Cancelled(j)',
           \A j \in Subs : Agreed(j)' =>
              /\ Agreed(j) /\ stripe'[j] = stripe[j]
              /\ \A i \in DOMAIN events' \ DOMAIN events : ~Tells(events'[i]),
           UNCHANGED <<row, stored, raced>>,
           \A s \in Servers : req'[s] = req[s] \/ req'[s].pc \in {"idle", "store"}
    PROVE  AgreeInv'
<1>1. /\ now \in Nat /\ LastAt \in Nat
      /\ \A i \in DOMAIN events : i \in DOMAIN events' /\ events'[i] = events[i]
  BY InvTypes, LastAtType DEF Extended
<1>2. \A i \in DOMAIN events : events[i].at \in Nat /\ events[i].at <= LastAt
  BY EventIs DEF AgreeInv
<1>3. \A i \in DOMAIN events' : events'[i].at <= LastAt'
  BY <1>1, <1>2
<1>4. row' # NoRow => row'.at <= LastAt'
  BY <1>1, RowIs DEF AgreeInv
<1>5. \A s \in Servers : req[s].pc \in {"expanded", "write"} =>
         req[s].event \in DOMAIN events /\ events'[req[s].event] = events[req[s].event]
  BY <1>1, InvTypes DEF InHand
<1>6. ASSUME NEW s \in Servers PROVE Known(req[s])'
  <2>1. CASE req'[s] = req[s]
    <3>1. Known(req[s])
      BY DEF AgreeInv
    <3>2. req[s].pc = "expanded" => req[s].now \in Nat
      BY InvTypes, RequestTypes
    <3>3. req[s].pc = "expanded" => req[s].now <= now'
      BY <1>1, <3>1, <3>2 DEF Known
    <3>4. QED
      BY <1>5, <2>1, <3>1, <3>3 DEF Known
  <2>2. CASE req'[s].pc \in {"idle", "store"}
    BY <2>2 DEF Known
  <2>3. QED
    BY <2>1, <2>2
<1>7. ASSUME NEW k \in Subs, Agreed(k)'
      PROVE  \E l \in DOMAIN events' : Latest(k, l)'
  <2>1. /\ Agreed(k) /\ stripe'[k] = stripe[k]
        /\ \A i \in DOMAIN events' \ DOMAIN events : ~Tells(events'[i])
    BY <1>7
  <2>2. PICK l \in DOMAIN events : Latest(k, l)
    BY <2>1 DEF AgreeInv
  <2>3. PICK at : at = events[l].at
    OBVIOUS
  <2>4. l \in DOMAIN events' /\ events'[l] = events[l] /\ events'[l].at = at
    BY <1>1, <2>3
  <2>5. ASSUME NEW r, Reflects(r, k)
        PROVE  Reflects(r, k)'
    <3>1. stripe[k].status = "active" => stripe[k].end \in Nat
      BY <2>2, LatestState
    <3>2. stripe[k].status = "active" /\ now >= stripe[k].end => now' >= stripe[k].end
      BY <1>1, <3>1
    <3>3. (\E j \in Subs : Cancelled(j)) => \E j \in Subs : Cancelled(j)'
      OBVIOUS
    <3>4. QED
      BY <2>1, <2>5, <3>2, <3>3 DEF Reflects
  <2>6. \A i \in DOMAIN events' :
          Tells(events'[i]) /\ events'[i].at >= at => events'[i].sub = k /\ Fits(events'[i], stripe[k])
    BY <1>1, <2>1, <2>2, <2>3 DEF Latest
  <2>7. ASSUME NEW s \in Servers PROVE KeepsUp(req[s], k, at)'
    <3>1. KeepsUp(req[s], k, at)
      BY <2>2, <2>3 DEF Latest
    <3>2. PICK r : r = req'[s].row
      OBVIOUS
    <3>3. Reflects(r, k) => Reflects(r, k)'
      BY <2>5
    <3>4. Reflects(req'[s].row, k) => Reflects(req[s].row, k)'
      BY <3>2, <3>3 DEF Reflects
    <3>5. QED
      BY <1>5, <2>1, <3>1, <3>4 DEF KeepsUp
  <2>8. ~raced => Unraced(k, l)'
    <3>1. ~raced => Unraced(k, l)
      BY <2>2 DEF Latest
    <3>2. PICK r : r = row
      OBVIOUS
    <3>3. Reflects(r, k) => Reflects(r, k)'
      BY <2>5
    <3>4. Reflects(row, k) => Reflects(row, k)'
      BY <3>2, <3>3 DEF Reflects
    <3>5. \A s \in Servers : req'[s].pc = "write" => req'[s] = req[s]
      OBVIOUS
    <3>6. QED
      BY <2>3, <2>4, <3>1, <3>4, <3>5 DEF Unraced, Reached, At
  <2>9. QED
    BY <2>1, <2>2, <2>3, <2>4, <2>6, <2>7, <2>8 DEF Latest, KeepsUp
<1>8. QED
  BY <1>3, <1>4, <1>6, <1>7 DEF AgreeInv

LEMMA LogStays ==
    ASSUME BillInv, AgreeInv, events' = events
    PROVE  /\ Extended /\ LastAt' = LastAt /\ LastAt' \in Nat /\ LastAt <= LastAt'
           /\ DOMAIN events' \ DOMAIN events = {}
<1>1. LastAt \in Nat /\ LastAt' = LastAt
  BY InvTypes, LastAtType DEF LastAt
<1>2. QED
  BY <1>1 DEF Extended

LEMMA QuietAgrees ==
    ASSUME BillInv, AgreeInv, NEW s \in Servers, NEW r \in Request, Become(s, r), Known(r),
           UNCHANGED <<now, stripe, events, row, stored, raced>>,
           \A k \in Subs, l \in DOMAIN events : Latest(k, l) =>
              /\ KeepsUp(r, k, events[l].at)
              /\ ~raced /\ r.pc = "write" /\ r.event = l /\ ~r.applied => Reached(events[l].at)
    PROVE  AgreeInv'
<1>1. /\ req'[s] = r
      /\ \A o \in Servers : o # s => req'[o] = req[o]
  BY BecomeTypes, InvTypes
<1>2. /\ LastAt' = LastAt
      /\ \A k : (Agreed(k)' <=> Agreed(k)) /\ (Cancelled(k)' <=> Cancelled(k))
  BY DEF LastAt, Agreed, ToldLast, FailsOnly, Cancelled
<1>3. ASSUME NEW o \in Servers PROVE Known(req[o])'
  <2>1. Known(req'[o])
    BY <1>1 DEF AgreeInv
  <2>2. QED
    BY <1>2, <2>1 DEF Known
<1>4. ASSUME NEW k \in Subs, Agreed(k)
      PROVE  \E l \in DOMAIN events : Latest(k, l)'
  <2>1. PICK l \in DOMAIN events : Latest(k, l)
    BY <1>4 DEF AgreeInv
  <2>2. ASSUME NEW o \in Servers PROVE KeepsUp(req[o], k, events[l].at)'
    <3>1. KeepsUp(req'[o], k, events[l].at)
      BY <1>1, <1>4, <2>1 DEF Latest
    <3>2. QED
      BY <3>1 DEF KeepsUp, Reflects, Cancelled
  <2>3. ~raced => Unraced(k, l)'
    <3>1. ~raced => \A o \in Servers :
            req'[o].pc = "write" /\ req'[o].event = l /\ ~req'[o].applied => Reached(events[l].at)
      BY <1>1, <1>4, <2>1 DEF Latest, Unraced, At
    <3>2. QED
      BY <2>1, <3>1 DEF Latest, Unraced, Reached, Reflects, Cancelled, At
  <2>4. QED
    BY <2>1, <2>2, <2>3 DEF Latest
<1>5. QED
  BY <1>2, <1>3, <1>4 DEF AgreeInv

\* A request that has read nothing of an event.
LEMMA PlainAgrees ==
    ASSUME BillInv, AgreeInv, NEW s \in Servers, NEW r \in Request, Become(s, r),
           r.pc \notin {"expanded", "write", "cancelled"},
           UNCHANGED <<now, stripe, events, row, stored, raced>>
    PROVE  AgreeInv'
BY QuietAgrees DEF Known, KeepsUp

LEMMA GoneAgrees ==
    ASSUME BillInv, AgreeInv, NEW s \in Servers, Leave(s),
           UNCHANGED <<now, stripe, events, row, stored, raced>>
    PROVE  AgreeInv'
BY IdleRequest, PlainAgrees DEF Leave

LEMMA ProviderAgrees ==
    ASSUME BillInv, AgreeInv, NEW k \in Subs,
           \/ PaymentStarts(k) \/ Lapse(k) \/ Pay(k)
           \/ Renew(k) \/ PaymentFails(k) \/ GiveUp(k) \/ Delete(k)
    PROVE  AgreeInv'
<1>1. /\ TypeOK /\ now \in Nat /\ stripe[k] \in Sold \cup {Unsold}
  BY InvTypes
<1>2. UNCHANGED <<now, row, stored, checkout, raced>> /\ req' = req
  <2>1. AtApp
    BY DEF PaymentStarts, Lapse, Pay, Renew, PaymentFails, GiveUp, Delete
  <2>2. QED
    BY <2>1 DEF AtApp
<1>3. ASSUME NEW state \in Sold, stripe' = [stripe EXCEPT ![k] = state],
             state.status # "incomplete", Stays(stripe[k], state), Dated(k)
      PROVE  AgreeInv'
  BY <1>2, <1>3, ChangeAgrees
<1>4. stripe[k].status # "none"
  BY DEF PaymentStarts, Lapse, Pay, Renew, PaymentFails, GiveUp, Delete, Live
<1>5. stripe[k].end \in Nat /\ stripe[k].cancel \in BOOLEAN /\ stripe[k].plan \in Plans
  BY <1>1, <1>4, SoldTypes
<1>6. CASE PaymentStarts(k)
  <2>1. PICK state : state = [status |-> "incomplete", end |-> now + 1, cancel |-> FALSE,
                              plan |-> stripe[k].plan]
    OBVIOUS
  <2>2. /\ stripe' = [stripe EXCEPT ![k] = state] /\ Report("upsert", k)
        /\ stripe[k].status = "payable" /\ now + 1 \in Nat
    BY <1>1, <1>6, <2>1 DEF PaymentStarts, Sell
  <2>3. state \in Sold /\ state.status = "incomplete" /\ stripe'[k] = state
    <3>1. state.status = "incomplete"
      BY <2>1
    <3>2. state \in Sold
      BY <1>5, <2>1, <2>2 DEF Sold
    <3>3. stripe'[k] = state
      BY <2>2, InvTypes
    <3>4. QED
      BY <3>1, <3>2, <3>3
  <2>4. Dated(k)
    BY <2>2, <2>3, ReportDated
  <2>5. /\ Extended /\ LastAt' \in Nat /\ LastAt <= LastAt'
        /\ \A i \in DOMAIN events' \ DOMAIN events : events'[i].at <= LastAt'
    BY <2>4 DEF Dated
  <2>6. \A i \in DOMAIN events' \ DOMAIN events : ~Tells(events'[i])
    <3>1. events \in Seq(Event) /\ LastAt \in Nat
      BY <1>1, LastAtType DEF TypeOK
    <3>2. PICK e : e = Full("upsert", k, LastAt + 1)
      OBVIOUS
    <3>3. e \in Event /\ e.kind = "upsert" /\ e.state = state
      BY <2>3, <3>1, <3>2 DEF Full, Event
    <3>4. events' = Append(events, e)
      BY <2>2, <3>2 DEF Report
    <3>5. \A i \in DOMAIN events' \ DOMAIN events : events'[i] = e
      BY <3>1, <3>3, <3>4, AppendProperties
    <3>6. QED
      BY <2>3, <3>3, <3>5 DEF Tells
  <2>7. \A j \in Subs : j # k => stripe'[j] = stripe[j]
    BY <2>2, InvTypes
  <2>8. \A j \in Subs : Cancelled(j) => Cancelled(j)'
    BY <2>2, <2>7 DEF Cancelled, BoughtStatuses
  <2>9. ASSUME NEW j \in Subs, Agreed(j)'
        PROVE  Agreed(j) /\ stripe'[j] = stripe[j]
    <3>1. j # k
      BY <2>3, <2>9 DEF Agreed, FailsOnly
    <3>2. ToldLast(j)
      BY <2>5, <2>6, <2>9 DEF Agreed, ToldLast, Extended
    <3>3. FailsOnly(j)
      BY <2>5, <2>7, <2>9, <3>1 DEF Agreed, FailsOnly, Extended
    <3>4. QED
      BY <2>7, <3>1, <3>2, <3>3 DEF Agreed
  <2>10. QED
    BY <1>1, <1>2, <2>5, <2>6, <2>8, <2>9, AsideAgrees
<1>7. CASE Pay(k)
  <2>1. PICK state : state = [status |-> "active", end |-> now + 1, cancel |-> FALSE,
                              plan |-> stripe[k].plan]
    OBVIOUS
  <2>2. /\ stripe' = [stripe EXCEPT ![k] = state] /\ ReportBoth("completed", k)
        /\ stripe[k].status \in {"payable", "incomplete"} /\ now + 1 \in Nat
    BY <1>1, <1>7, <2>1 DEF Pay, Sell
  <2>3. state \in Sold /\ state.status = "active" /\ stripe'[k] = state
    <3>1. state.status = "active"
      BY <2>1
    <3>2. state \in Sold
      BY <1>5, <2>1, <2>2 DEF Sold
    <3>3. stripe'[k] = state
      BY <2>2, InvTypes
    <3>4. QED
      BY <3>1, <3>2, <3>3
  <2>4. Dated(k) /\ Stays(stripe[k], state)
    BY <2>2, <2>3, ReportBothDated DEF Stays, BoughtStatuses
  <2>5. QED
    BY <1>3, <2>2, <2>3, <2>4
<1>8. CASE Renew(k)
  <2>1. PICK state : state = [status |-> "active", end |-> now + 1, cancel |-> FALSE,
                              plan |-> stripe[k].plan]
    OBVIOUS
  <2>2. /\ stripe' = [stripe EXCEPT ![k] = state] /\ Report("upsert", k)
        /\ ~stripe[k].cancel /\ now + 1 \in Nat
    BY <1>1, <1>8, <2>1 DEF Renew, Sell
  <2>3. state \in Sold /\ state.status = "active" /\ stripe'[k] = state
    <3>1. state.status = "active"
      BY <2>1
    <3>2. state \in Sold
      BY <1>5, <2>1, <2>2 DEF Sold
    <3>3. stripe'[k] = state
      BY <2>2, InvTypes
    <3>4. QED
      BY <3>1, <3>2, <3>3
  <2>4. Dated(k) /\ Stays(stripe[k], state)
    BY <2>2, <2>3, ReportDated DEF Stays, BoughtStatuses
  <2>5. QED
    BY <1>3, <2>2, <2>3, <2>4
<1>9. CASE PaymentFails(k)
  <2>1. PICK state : state = [status |-> "past_due", end |-> now + 1, cancel |-> FALSE,
                              plan |-> stripe[k].plan]
    OBVIOUS
  <2>2. /\ stripe' = [stripe EXCEPT ![k] = state] /\ ReportBoth("failed", k)
        /\ ~stripe[k].cancel /\ now + 1 \in Nat
    BY <1>1, <1>9, <2>1 DEF PaymentFails, Sell
  <2>3. state \in Sold /\ state.status = "past_due" /\ stripe'[k] = state
    <3>1. state.status = "past_due"
      BY <2>1
    <3>2. state \in Sold
      BY <1>5, <2>1, <2>2 DEF Sold
    <3>3. stripe'[k] = state
      BY <2>2, InvTypes
    <3>4. QED
      BY <3>1, <3>2, <3>3
  <2>4. Dated(k) /\ Stays(stripe[k], state)
    BY <2>2, <2>3, ReportBothDated DEF Stays, BoughtStatuses
  <2>5. QED
    BY <1>3, <2>2, <2>3, <2>4
<1>10. CASE Delete(k)
  <2>1. PICK state : state = [status |-> "canceled", end |-> stripe[k].end,
                              cancel |-> stripe[k].cancel, plan |-> stripe[k].plan]
    OBVIOUS
  <2>2. stripe' = [stripe EXCEPT ![k] = state] /\ Report("deleted", k)
    BY <1>10, <2>1 DEF Delete, Sell
  <2>3. /\ state \in Sold /\ state.status = "canceled" /\ stripe'[k] = state
        /\ state.cancel = stripe[k].cancel
    <3>1. state.status = "canceled" /\ state.cancel = stripe[k].cancel
      BY <2>1
    <3>2. state \in Sold
      BY <1>5, <2>1 DEF Sold
    <3>3. stripe'[k] = state
      BY <2>2, InvTypes
    <3>4. QED
      BY <3>1, <3>2, <3>3
  <2>4. Dated(k) /\ Stays(stripe[k], state)
    BY <2>2, <2>3, ReportDated DEF Stays, BoughtStatuses
  <2>5. QED
    BY <1>3, <2>2, <2>3, <2>4
<1>11. CASE Lapse(k)
  <2>1. PICK state : state = [status |-> "incomplete_expired", end |-> stripe[k].end,
                              cancel |-> FALSE, plan |-> stripe[k].plan]
    OBVIOUS
  <2>2. /\ stripe' = [stripe EXCEPT ![k] = state] /\ Report("upsert", k)
        /\ stripe[k].status = "incomplete"
    BY <1>11, <2>1 DEF Lapse, Sell
  <2>3. /\ state \in Sold /\ state.status = "incomplete_expired" /\ stripe'[k] = state
        /\ state.cancel = FALSE
    <3>1. state.status = "incomplete_expired" /\ state.cancel = FALSE
      BY <2>1
    <3>2. state \in Sold
      BY <1>5, <2>1 DEF Sold
    <3>3. stripe'[k] = state
      BY <2>2, InvTypes
    <3>4. QED
      BY <3>1, <3>2, <3>3
  <2>4. Dated(k) /\ Stays(stripe[k], state)
    BY <2>2, <2>3, ReportDated DEF Stays, BoughtStatuses
  <2>5. QED
    BY <1>3, <2>2, <2>3, <2>4
<1>12. CASE GiveUp(k)
  <2>1. PICK state : state = [status |-> "unpaid", end |-> stripe[k].end,
                              cancel |-> stripe[k].cancel, plan |-> stripe[k].plan]
    OBVIOUS
  <2>2. /\ stripe' = [stripe EXCEPT ![k] = state] /\ Report("upsert", k)
        /\ stripe[k].status = "past_due"
    BY <1>12, <2>1 DEF GiveUp, Sell
  <2>3. /\ state \in Sold /\ state.status = "unpaid" /\ stripe'[k] = state
        /\ state.cancel = stripe[k].cancel
    <3>1. state.status = "unpaid" /\ state.cancel = stripe[k].cancel
      BY <2>1
    <3>2. state \in Sold
      BY <1>5, <2>1 DEF Sold
    <3>3. stripe'[k] = state
      BY <2>2, InvTypes
    <3>4. QED
      BY <3>1, <3>2, <3>3
  <2>4. Dated(k) /\ Stays(stripe[k], state)
    BY <2>2, <2>3, ReportDated DEF Stays, BoughtStatuses
  <2>5. QED
    BY <1>3, <2>2, <2>3, <2>4
<1>13. QED
  BY <1>6, <1>7, <1>8, <1>9, <1>10, <1>11, <1>12

\* A first payment that fails leaves no subscription the row has to agree with.
LEMMA FirstFailureAgrees ==
    ASSUME BillInv, AgreeInv, NEW k \in Subs, FirstPaymentFails(k)
    PROVE  AgreeInv'
<1>1. /\ UNCHANGED <<now, stripe, row, stored, checkout, req, raced>>
      /\ stripe[k].status = "incomplete"
      /\ Extended /\ LastAt' \in Nat /\ LastAt <= LastAt'
      /\ \A i \in DOMAIN events' \ DOMAIN events :
            events'[i].kind = "failed" /\ events'[i].sub = k /\ events'[i].at <= LastAt'
      /\ DOMAIN events' \ DOMAIN events # {}
  BY InvTypes, FirstFailure
<1>2. PICK i \in DOMAIN events' : events'[i].kind = "failed" /\ events'[i].sub = k
  BY <1>1
<1>3. \A j \in Subs : ~Agreed(j)'
  BY <1>1, <1>2 DEF Agreed, FailsOnly
<1>4. \A j \in Subs : Cancelled(j) => Cancelled(j)'
  BY <1>1 DEF Cancelled
<1>5. QED
  BY <1>1, <1>3, <1>4, InvTypes, AsideAgrees

LEMMA CallAgrees ==
    ASSUME BillInv, AgreeInv, NEW s \in Servers, ChangePrice(s) \/ CancelAtProvider(s)
    PROVE  AgreeInv'
<1>1. PICK k : k = req[s].sub
  OBVIOUS
<1>2. k \in Subs /\ UNCHANGED <<now, row, stored, raced>>
  <2>1. req[s] \in Request /\ req[s].pc \in {"change", "cancel"}
    BY InvTypes DEF ChangePrice, CancelAtProvider, At
  <2>2. QED
    BY <1>1, <2>1, RequestTypes DEF ChangePrice, CancelAtProvider, AtProvider
<1>3. CASE ~Live(k)
  BY <1>1, <1>2, <1>3, GoneAgrees DEF ChangePrice, CancelAtProvider
<1>4. ASSUME Live(k), NEW cancel \in BOOLEAN, NEW plan \in Plans,
             stripe[k].cancel => cancel,
             Sell(k, stripe[k].status, stripe[k].end, cancel, plan), Report("upsert", k),
             NEW r \in Request, Become(s, r), r = Idle \/ (cancel /\ r = [pc |-> "cancelled"])
      PROVE  AgreeInv'
  <2>1. PICK state : state = [status |-> stripe[k].status, end |-> stripe[k].end,
                              cancel |-> cancel, plan |-> plan]
    OBVIOUS
  <2>2. /\ stripe[k].status \in {"active", "past_due", "unpaid"} /\ stripe[k].end \in Nat
        /\ stripe' = [stripe EXCEPT ![k] = state]
    BY <1>2, <1>4, <2>1, InvTypes, SoldTypes DEF Live, Sell
  <2>3. /\ state \in Sold /\ state.status = stripe[k].status /\ state.cancel = cancel
        /\ stripe'[k] = state
    BY <1>2, <1>4, <2>1, <2>2, InvTypes DEF Sold
  <2>4. Dated(k) /\ Stays(stripe[k], state)
    BY <1>2, <1>4, <2>2, <2>3, ReportDated DEF Stays, BoughtStatuses
  <2>5. req'[s] = r /\ \A o \in Servers : o # s => req'[o] = req[o]
    BY <1>4, InvTypes, BecomeTypes
  <2>6. state.status \in BoughtStatuses
    BY <2>2, <2>3 DEF BoughtStatuses
  <2>7. \A o \in Servers :
              \/ req'[o] = req[o]
              \/ req'[o] = Idle
              \/ req'[o] = [pc |-> "cancelled"] /\ state.status \in BoughtStatuses /\ state.cancel
    BY <1>4, <2>3, <2>5, <2>6
  <2>8. QED
    BY <1>2, <2>2, <2>3, <2>4, <2>7, ChangeAgrees
<1>5. CASE Live(k) /\ ChangePrice(s)
  <2>1. /\ Sell(k, stripe[k].status, stripe[k].end, stripe[k].cancel, req[s].plan)
        /\ Report("upsert", k) /\ Become(s, Idle)
    BY <1>1, <1>5 DEF ChangePrice, Leave
  <2>2. stripe[k].cancel \in BOOLEAN /\ req[s].plan \in Plans
    BY <1>2, <1>5, InvTypes, SoldTypes, RequestTypes DEF Live, ChangePrice, At
  <2>3. QED
    BY <1>4, <1>5, <2>1, <2>2, IdleRequest
<1>6. CASE Live(k) /\ CancelAtProvider(s)
  <2>1. /\ Sell(k, stripe[k].status, stripe[k].end, TRUE, stripe[k].plan)
        /\ Report("upsert", k) /\ Become(s, [pc |-> "cancelled"])
    BY <1>1, <1>6 DEF CancelAtProvider
  <2>2. stripe[k].plan \in Plans /\ [pc |-> "cancelled"] \in Request
    BY <1>2, <1>6, InvTypes, SoldTypes DEF Live, Request
  <2>3. QED
    BY <1>4, <1>6, <2>1, <2>2
<1>7. QED
  BY <1>3, <1>5, <1>6

LEMMA CreateAgrees ==
    ASSUME BillInv, AgreeInv, NEW s \in Servers, CreateSession(s) \/ StoreCheckout(s)
    PROVE  AgreeInv'
<1>1. CASE CreateSession(s)
  <2>1. PICK k \in Subs :
           /\ stripe[k] = Unsold
           /\ Sell(k, "payable", 0, FALSE, req[s].plan)
           /\ Become(s, [pc |-> "store", sub |-> k])
    BY <1>1 DEF CreateSession
  <2>2. PICK state : state = [status |-> "payable", end |-> 0, cancel |-> FALSE, plan |-> req[s].plan]
    OBVIOUS
  <2>3. stripe' = [stripe EXCEPT ![k] = state] /\ state.status = "payable"
        /\ stripe[k].status = "none"
    BY <2>1, <2>2 DEF Sell, Unsold
  <2>4. stripe'[k].status = "payable" /\ \A j \in Subs : j # k => stripe'[j] = stripe[j]
    BY <2>3, InvTypes
  <2>5. \A j \in Subs : Cancelled(j) => Cancelled(j)'
    BY <2>3, <2>4 DEF Cancelled, BoughtStatuses
  <2>6. \A o \in Servers : req'[o] = req[o] \/ req'[o].pc \in {"idle", "store"}
    BY <2>1, InvTypes DEF Become
  <2>7. UNCHANGED <<now, events, row, stored, raced>>
    BY <1>1 DEF CreateSession, AtProvider
  <2>8. ASSUME NEW j \in Subs, Agreed(j)'
        PROVE  Agreed(j) /\ stripe'[j] = stripe[j]
    <3>1. PICK i \in DOMAIN events : events[i].sub = j
      BY <2>7, <2>8 DEF Agreed, ToldLast
    <3>2. stripe[j] \in Sold
      BY <3>1 DEF BillInv
    <3>3. j # k
      BY <2>3, <3>2 DEF Sold
    <3>4. QED
      BY <2>4, <2>7, <2>8, <3>3 DEF Agreed, ToldLast, FailsOnly
  <2>9. QED
    BY <2>5, <2>6, <2>7, <2>8, LogStays, InvTypes, AsideAgrees
<1>2. CASE StoreCheckout(s)
  <2>1. UNCHANGED <<now, stripe, events, row, stored, raced>> /\ Leave(s)
    BY <1>2 DEF StoreCheckout, InTables
  <2>2. QED
    BY <2>1, GoneAgrees
<1>3. QED
  BY <1>1, <1>2

LEMMA ClockAgrees ==
    ASSUME BillInv, AgreeInv, Tick \/ (\E k \in Subs : CheckoutAges(k)) \/ UNCHANGED vars
    PROVE  AgreeInv'
<1>1. UNCHANGED <<stripe, events, row, stored, req, raced>> /\ now' \in Nat /\ now <= now'
  BY InvTypes DEF Tick, CheckoutAges, InTables, vars
<1>2. /\ \A j \in Subs : Agreed(j)' => Agreed(j)
      /\ \A j \in Subs : Cancelled(j) => Cancelled(j)'
  BY <1>1 DEF Agreed, ToldLast, FailsOnly, Cancelled
<1>3. QED
  BY <1>1, <1>2, LogStays, AsideAgrees

LEMMA DecideAgrees ==
    ASSUME BillInv, AgreeInv, NEW s \in Servers,
           (\E plan \in Plans : DecideCheckout(s, plan)) \/ DecideCancellation(s)
    PROVE  AgreeInv'
<1>1. UNCHANGED <<now, stripe, events, row, stored, checkout, raced>>
  BY DEF DecideCheckout, DecideCancellation
<1>2. PICK r : /\ Become(s, r)
               /\ \/ \E plan \in Plans : r = [pc |-> "create", plan |-> plan]
                  \/ /\ row.sub \in Subs
                     /\ \/ \E plan \in Plans : r = [pc |-> "change", sub |-> row.sub, plan |-> plan]
                        \/ r = [pc |-> "cancel", sub |-> row.sub]
  BY InvTypes, RowOfAccess DEF DecideCheckout, DecideCancellation
<1>3. r \in Request /\ r.pc \in {"create", "change", "cancel"}
  BY <1>2 DEF Request
<1>4. QED
  BY <1>1, <1>2, <1>3, PlainAgrees

LEMMA AbortAgrees ==
    ASSUME BillInv, AgreeInv, NEW s \in Servers, Abort(s)
    PROVE  AgreeInv'
BY GoneAgrees DEF Abort

LEMMA CancelAgrees ==
    ASSUME BillInv, AgreeInv, NEW s \in Servers, CancelStore(s)
    PROVE  AgreeInv'
<1>1. /\ UNCHANGED <<now, stripe, events, stored, raced>> /\ Become(s, Idle)
      /\ row' = [row EXCEPT !.cancel = TRUE] /\ row # NoRow
      /\ \E k \in Subs : Cancelled(k)
  BY InvTypes DEF CancelStore, InTables, Leave, At, InHand, AgreeInv, Known
<1>2. /\ row \in Row /\ row' \in Row /\ row' # NoRow /\ row'.at = row.at /\ row'.cancel = TRUE
      /\ row'.status = row.status /\ row'.sub = row.sub /\ row'.end = row.end /\ row'.plan = row.plan
  BY <1>1, RowIs, RowIsNotNoRow DEF Row
<1>3. /\ req'[s] = Idle
      /\ \A o \in Servers : o # s => req'[o] = req[o]
  BY <1>1, IdleRequest, BecomeTypes, InvTypes
<1>4. /\ LastAt' = LastAt
      /\ \A k : (Agreed(k)' <=> Agreed(k)) /\ (Cancelled(k)' <=> Cancelled(k))
  BY <1>1 DEF LastAt, Agreed, ToldLast, FailsOnly, Cancelled
<1>5. ASSUME NEW o \in Servers PROVE Known(req[o])'
  <2>1. Known(req'[o])
    BY <1>3, IdleRequest DEF AgreeInv, Known
  <2>2. QED
    BY <1>1, <1>4, <2>1 DEF Known
<1>6. ASSUME NEW k \in Subs, Agreed(k)
      PROVE  \E l \in DOMAIN events : Latest(k, l)'
  <2>1. PICK l \in DOMAIN events : Latest(k, l)
    BY <1>6 DEF AgreeInv
  <2>3. Reflects(row, k) => Reflects(row', k)
    BY <1>1, <1>2 DEF Reflects
  <2>4. ASSUME NEW o \in Servers PROVE KeepsUp(req[o], k, events[l].at)'
    <3>1. KeepsUp(req'[o], k, events[l].at)
      BY <1>3, <2>1, IdleRequest DEF Latest, KeepsUp
    <3>2. QED
      BY <1>1, <3>1 DEF KeepsUp, Reflects, Cancelled
  <2>5. ~raced => Unraced(k, l)'
    <3>1. ~raced => Unraced(k, l)
      BY <2>1 DEF Latest
    <3>2. Reflects(row, k) => Reflects(row, k)'
      BY <1>1, <2>3 DEF Reflects, Cancelled
    <3>3. Reached(events[l].at)' <=> Reached(events[l].at)
      BY <1>1, <1>2 DEF Reached
    <3>4. \A o \in Servers : req'[o].pc = "write" => req'[o] = req[o]
      BY <1>3, IdleRequest
    <3>5. QED
      BY <1>1, <3>1, <3>2, <3>3, <3>4 DEF Unraced, Reached, At
  <2>6. QED
    BY <1>1, <2>1, <2>4, <2>5 DEF Latest
<1>7. row' # NoRow => row'.at <= LastAt
  BY <1>1, <1>2 DEF AgreeInv
<1>8. QED
  BY <1>1, <1>4, <1>5, <1>6, <1>7 DEF AgreeInv

\* What a webhook makes of an event of the latest change reflects that change.
LEMMA ReducedReflects ==
    ASSUME BillInv, NEW k \in Subs, NEW l \in DOMAIN events, Latest(k, l),
           NEW i \in DOMAIN events, Tells(events[i]), events[i].at >= events[l].at,
           NEW state, events[i].kind = "completed" => state = stripe[k],
           events[i].kind \in {"upsert", "deleted"} => state = events[i].state,
           NEW t \in Nat, t <= now, Applies(events[i], state, row, t)
    PROVE  Reflects(Reduced(events[i], state, row, t), k)
<1>1. PICK e, x : e = events[i] /\ x = Reduced(e, state, row, t)
  OBVIOUS
<1>2. /\ Fits(e, stripe[k]) /\ e.sub = k /\ e.kind \in {"completed", "failed", "upsert", "deleted"}
      /\ e.kind = "upsert" => e.state.status # "canceled"
  BY <1>1, EventIs DEF Latest, BillInv
<1>3. /\ stripe[k].status \in BoughtStatuses \cup {"incomplete_expired"} /\ stripe[k].end \in Nat
      /\ stripe[k].cancel \in BOOLEAN /\ now \in Nat
  BY LatestState, InvTypes
<1>4. CASE e.kind = "failed"
  <2>1. x.status = "PAST_DUE" /\ stripe[k].status = "past_due"
    BY <1>1, <1>2, <1>4 DEF Reduced, Fits
  <2>2. QED
    BY <1>1, <2>1 DEF Reflects
<1>5. CASE e.kind = "deleted"
  <2>1. x.status = "EXPIRED" /\ stripe[k].status = "canceled"
    BY <1>1, <1>2, <1>5 DEF Reduced, Fits
  <2>2. QED
    BY <1>1, <2>1 DEF Reflects
<1>6. CASE e.kind \in {"upsert", "completed"}
  <2>1. state = stripe[k] /\ stripe[k].status # "canceled"
    BY <1>1, <1>2, <1>6 DEF Fits
  <2>2. PICK status : status = MapStripeStatus(state, t)
    OBVIOUS
  <2>3. x = [status |-> status, end |-> state.end, plan |-> state.plan, sub |-> e.sub, at |-> e.at,
             cancel |-> status = "CANCELED" \/ state.cancel]
    BY <1>1, <1>6, <2>2 DEF Reduced
  <2>4. CASE stripe[k].status \in {"past_due", "unpaid"}
    <3>1. status = "PAST_DUE"
      BY <2>1, <2>2, <2>4 DEF MapStripeStatus
    <3>2. QED
      BY <1>1, <2>3, <2>4, <3>1 DEF Reflects
  <2>5. CASE stripe[k].status = "incomplete_expired"
    <3>1. status = "EXPIRED"
      BY <2>1, <2>2, <2>5 DEF MapStripeStatus
    <3>2. QED
      BY <1>1, <2>3, <2>5, <3>1 DEF Reflects
  <2>6. CASE stripe[k].status = "active" /\ t >= stripe[k].end
    <3>1. status = "EXPIRED"
      BY <2>1, <2>2, <2>6 DEF MapStripeStatus
    <3>2. now >= stripe[k].end
      BY <1>3, <2>6
    <3>3. QED
      BY <1>1, <2>3, <2>6, <3>1, <3>2 DEF Reflects
  <2>7. CASE stripe[k].status = "active" /\ ~(t >= stripe[k].end)
    <3>1. status = "ACTIVE"
      BY <2>1, <2>2, <2>7 DEF MapStripeStatus
    <3>2. (status = "CANCELED" \/ state.cancel) = stripe[k].cancel
      BY <1>3, <2>1, <3>1
    <3>3. /\ x.status = "ACTIVE" /\ x.sub = k /\ x.end = stripe[k].end /\ x.plan = stripe[k].plan
          /\ x.cancel = stripe[k].cancel
      BY <1>2, <2>1, <2>3, <3>1, <3>2
    <3>4. stripe[k].cancel => Cancelled(k)
      BY <2>7 DEF Cancelled, BoughtStatuses
    <3>5. QED
      BY <1>1, <2>7, <3>3, <3>4 DEF Reflects
  <2>8. QED
    BY <1>3, <2>1, <2>4, <2>5, <2>6, <2>7 DEF BoughtStatuses
<1>7. QED
  BY <1>2, <1>4, <1>5, <1>6

LEMMA AppliedTells ==
    ASSUME NEW i \in DOMAIN events, NEW state, NEW t,
           events[i].kind = "upsert" => state = events[i].state,
           Applies(events[i], state, row, t)
    PROVE  Tells(events[i])
BY DEF Applies, Tells, MapStripeStatus

\* The event of the latest change is left out only for a row that is younger.
LEMMA LatestApplies ==
    ASSUME BillInv, NEW k \in Subs, NEW l \in DOMAIN events, Latest(k, l),
           NEW t, ~Applies(events[l], events[l].state, row, t)
    PROVE  Reached(events[l].at)
<1>1. /\ events[l].kind \in {"upsert", "deleted"} /\ events[l].state = stripe[k]
      /\ stripe[k].status \in BoughtStatuses \cup {"incomplete_expired"}
      /\ events[l].at \in Nat
  BY EventIs, LatestState DEF Latest
<1>2. MapStripeStatus(stripe[k], t) # "none"
  BY <1>1 DEF MapStripeStatus, BoughtStatuses
<1>3. row # NoRow /\ ~(events[l].at >= row.at)
  BY <1>1, <1>2 DEF Applies
<1>4. row.at \in Nat
  BY <1>3, RowIs
<1>5. QED
  BY <1>1, <1>3, <1>4 DEF Reached

LEMMA FindAgrees ==
    ASSUME BillInv, BillInv', AgreeInv, NEW s \in Servers, NEW i \in DOMAIN events, NEW state,
           NEW t \in Nat, t <= now, Find(s, i, state, t),
           events[i].kind \in {"upsert", "deleted"} => state = events[i].state,
           events[i].kind = "completed" => \A k \in Subs, l \in DOMAIN events :
              Latest(k, l) /\ events[i].at >= events[l].at => state = stripe[k],
           UNCHANGED <<now, stripe, events, row, stored, checkout, raced>>
    PROVE  AgreeInv'
<1>1. CASE i \in stored
  BY <1>1, GoneAgrees DEF Find
<1>2. CASE i \notin stored
  <2>1. PICK applied, x : /\ applied = Applies(events[i], state, row, t)
                          /\ x = IF applied THEN Reduced(events[i], state, row, t) ELSE row
    OBVIOUS
  <2>2. PICK r : r = [pc |-> "write", event |-> i, applied |-> applied, base |-> row, row |-> x]
    OBVIOUS
  <2>3. Become(s, r)
    BY <1>2, <2>1, <2>2 DEF Find
  <2>4. r \in Request
    BY <2>3, InvTypes DEF Become, BillInv, TypeOK, Servers
  <2>5. ASSUME NEW k \in Subs, NEW l \in DOMAIN events, Latest(k, l)
        PROVE  /\ KeepsUp(r, k, events[l].at)
               /\ ~raced /\ r.pc = "write" /\ r.event = l /\ ~r.applied => Reached(events[l].at)
    <3>1. ASSUME applied, events[i].at >= events[l].at
          PROVE  Reflects(x, k)
      <4>1. Tells(events[i])
        BY <2>1, <3>1, AppliedTells
      <4>2. QED
        BY <2>1, <2>5, <3>1, <4>1, ReducedReflects
    <3>2. ASSUME i = l, ~applied
          PROVE  Reached(events[l].at)
      <4>1. state = events[l].state
        BY <2>5, <3>2 DEF Latest
      <4>2. QED
        BY <2>1, <2>5, <3>2, <4>1, LatestApplies
    <3>3. QED
      BY <2>2, <3>1, <3>2 DEF KeepsUp
  <2>6. Known(r)
    BY <2>2 DEF Known
  <2>7. QED
    BY <2>3, <2>4, <2>5, <2>6, QuietAgrees
<1>3. QED
  BY <1>1, <1>2

LEMMA HookAgrees ==
    ASSUME BillInv, BillInv', AgreeInv, NEW s \in Servers,
           FindExpanded(s) \/ \E i \in DOMAIN events : Expand(s, i) \/ FindEvent(s, i)
    PROVE  AgreeInv'
<1>1. UNCHANGED <<now, stripe, events, row, stored, checkout, raced>> /\ now \in Nat
  BY InvTypes DEF FindExpanded, Expand, FindEvent
<1>2. CASE FindExpanded(s)
  <2>1. /\ req[s].pc = "expanded" /\ req[s].event \in DOMAIN events /\ req[s].now \in Nat
        /\ events[req[s].event].kind = "completed" /\ req[s].now <= now
    BY <1>2, InvTypes, RequestTypes DEF FindExpanded, At, InHand, AgreeInv, Known
  <2>2. Find(s, req[s].event, req[s].state, req[s].now)
    BY <1>2 DEF FindExpanded
  <2>3. \A k \in Subs, l \in DOMAIN events :
           Latest(k, l) /\ events[req[s].event].at >= events[l].at
              => req[s].state = stripe[k]
    BY <2>1 DEF Latest, KeepsUp
  <2>4. QED
    BY <1>1, <2>1, <2>2, <2>3, FindAgrees
<1>3. ASSUME NEW i \in DOMAIN events, Expand(s, i)
      PROVE  AgreeInv'
  <2>1. PICK r : r = [pc |-> "expanded", event |-> i, now |-> now, state |-> stripe[events[i].sub]]
    OBVIOUS
  <2>2. Become(s, r) /\ events[i].kind = "completed"
    BY <1>3, <2>1 DEF Expand
  <2>3. r \in Request
    BY <2>2, InvTypes DEF Become, BillInv, TypeOK, Servers
  <2>4. Tells(events[i])
    BY <2>2 DEF Tells
  <2>5. ASSUME NEW k \in Subs, NEW l \in DOMAIN events, Latest(k, l)
        PROVE  KeepsUp(r, k, events[l].at)
    BY <2>1, <2>4, <2>5 DEF KeepsUp, Latest
  <2>6. Known(r)
    BY <1>1, <2>1, <2>2 DEF Known
  <2>7. r.pc # "write"
    BY <2>1
  <2>8. QED
    BY <1>1, <2>2, <2>3, <2>5, <2>6, <2>7, QuietAgrees
<1>4. ASSUME NEW i \in DOMAIN events, FindEvent(s, i)
      PROVE  AgreeInv'
  <2>1. PICK state : state = IF events[i].kind = "failed" THEN Unsold ELSE events[i].state
    OBVIOUS
  <2>2. events[i].kind # "completed" /\ Find(s, i, state, now)
    BY <1>4, <2>1 DEF FindEvent
  <2>3. events[i].kind \in {"upsert", "deleted"} => state = events[i].state
    BY <2>1
  <2>4. now <= now
    BY <1>1
  <2>5. QED
    BY <1>1, <2>2, <2>3, <2>4, FindAgrees
<1>5. QED
  BY <1>2, <1>3, <1>4

LEMMA StoreEventAgrees ==
    ASSUME BillInv, AgreeInv, NEW s \in Servers, StoreEvent(s)
    PROVE  AgreeInv'
<1>1. PICK i, new : i = req[s].event /\ new = req[s].row
  OBVIOUS
<1>2. /\ i \in DOMAIN events \ stored /\ stored' = stored \cup {i}
      /\ req[s].applied \in BOOLEAN
      /\ row' = IF req[s].applied THEN new ELSE row
      /\ raced' = (raced \/ (req[s].applied /\ row # req[s].base))
      /\ req[s].applied => /\ new \in Row /\ new.at = events[i].at
                           /\ req[s].base # NoRow => req[s].base.at <= new.at
  BY <1>1, Stored
<1>3. /\ UNCHANGED <<now, stripe, events>> /\ Become(s, Idle) /\ req[s].pc = "write"
  BY DEF StoreEvent, Save, Leave, At
<1>4. /\ req'[s] = Idle
      /\ \A o \in Servers : o # s => req'[o] = req[o]
  BY <1>3, IdleRequest, BecomeTypes, InvTypes
<1>5. /\ LastAt' = LastAt
      /\ \A k : (Agreed(k)' <=> Agreed(k)) /\ (Cancelled(k)' <=> Cancelled(k))
  BY <1>3 DEF LastAt, Agreed, ToldLast, FailsOnly, Cancelled
<1>6. ASSUME NEW o \in Servers PROVE Known(req[o])'
  <2>1. Known(req'[o])
    BY <1>4, IdleRequest DEF AgreeInv, Known
  <2>2. QED
    BY <1>3, <1>5, <2>1 DEF Known
<1>7. row' # NoRow => row'.at <= LastAt
  BY <1>2 DEF AgreeInv
<1>8. ~raced' => ~raced /\ (req[s].applied => row = req[s].base)
  BY <1>2
<1>9. req[s].applied => row' # NoRow /\ row' = new /\ new.at \in Nat
  BY <1>2, RowIsNotNoRow DEF Row
<1>10. ASSUME NEW k \in Subs, Agreed(k)
       PROVE  \E l \in DOMAIN events : Latest(k, l)'
  <2>1. PICK l \in DOMAIN events : Latest(k, l)
    BY <1>10 DEF AgreeInv
  <2>2. PICK at : at = events[l].at
    OBVIOUS
  <2>3. at \in Nat
    BY <2>2, EventIs
  <2>4. ASSUME NEW o \in Servers PROVE KeepsUp(req[o], k, events[l].at)'
    <3>1. KeepsUp(req'[o], k, events[l].at)
      BY <1>4, <2>1, IdleRequest DEF Latest, KeepsUp
    <3>2. QED
      BY <1>3, <3>1 DEF KeepsUp, Reflects, Cancelled
  <2>5. ASSUME ~raced'
        PROVE  Unraced(k, l)'
    <3>1. Unraced(k, l) /\ (req[s].applied => row = req[s].base)
      BY <1>8, <2>1, <2>5 DEF Latest
    <3>2. Reached(at) => Reached(at)'
      <4>1. CASE ~req[s].applied
        BY <1>2, <4>1 DEF Reached
      <4>2. CASE req[s].applied
        <5>1. ASSUME Reached(at) PROVE Reached(at)'
          <6>1. row # NoRow /\ row.at >= at /\ row.at \in Nat /\ row.at <= new.at
            BY <1>2, <3>1, <4>2, <5>1, RowIs DEF Reached
          <6>2. new.at >= at
            BY <1>9, <2>3, <4>2, <6>1
          <6>3. QED
            BY <1>9, <4>2, <6>2 DEF Reached
        <5>2. QED
          BY <5>1
      <4>3. QED
        BY <4>1, <4>2
    <3>3. Reached(at)' => Reflects(row', k)
      <4>1. CASE ~req[s].applied
        BY <1>2, <2>2, <3>1, <4>1 DEF Reached, Unraced
      <4>2. CASE req[s].applied
        <5>1. KeepsUp(req[s], k, at)
          BY <2>1, <2>2 DEF Latest
        <5>2. QED
          BY <1>1, <1>2, <1>3, <1>9, <4>2, <5>1 DEF Reached, KeepsUp
      <4>3. QED
        BY <4>1, <4>2
    <3>4. l \in stored' => Reached(at)'
      <4>1. CASE l \in stored
        BY <2>2, <3>1, <3>2, <4>1 DEF Unraced
      <4>2. CASE l = i /\ req[s].applied
        BY <1>2, <1>9, <2>2, <2>3, <4>2 DEF Reached
      <4>3. CASE l = i /\ ~req[s].applied
        BY <1>1, <1>3, <2>2, <3>1, <3>2, <4>3 DEF Unraced, At
      <4>4. QED
        BY <1>2, <4>1, <4>2, <4>3
    <3>5. \A o \in Servers :
            req'[o].pc = "write" /\ req'[o].event = l /\ ~req'[o].applied => Reached(at)'
      BY <1>4, <2>2, <3>1, <3>2, IdleRequest DEF Unraced, At
    <3>6. QED
      BY <1>3, <2>2, <3>3, <3>4, <3>5 DEF Unraced, Reached, Reflects, Cancelled, At
  <2>6. QED
    BY <1>3, <2>1, <2>4, <2>5 DEF Latest
<1>11. QED
  BY <1>3, <1>5, <1>6, <1>7, <1>10 DEF AgreeInv

LEMMA NextAgrees == BillInv /\ BillInv' /\ AgreeInv /\ [Next]_vars => AgreeInv'
<1> SUFFICES ASSUME BillInv, BillInv', AgreeInv, [Next]_vars PROVE AgreeInv'
  OBVIOUS
<1>1. CASE UNCHANGED vars
  BY <1>1, ClockAgrees
<1>2. CASE Next
  BY <1>2, NextCases, ProviderAgrees, FirstFailureAgrees, ClockAgrees, DecideAgrees, CallAgrees, CreateAgrees,
     CancelAgrees, HookAgrees, StoreEventAgrees, AbortAgrees
<1>3. QED
  BY <1>1, <1>2

LEMMA InitAgrees == Init => AgreeInv
<1> SUFFICES ASSUME Init PROVE AgreeInv
  OBVIOUS
<1>1. /\ stripe = [k \in Subs |-> Unsold] /\ events = <<>> /\ row = NoRow
      /\ req = [s \in Servers |-> Idle]
  BY DEF Init, Servers
<1>2. DOMAIN events = {}
  BY <1>1
<1>3. \A k \in Subs : ~Agreed(k)
  BY <1>2 DEF Agreed, ToldLast
<1>4. \A s \in Servers : Known(req[s])
  BY <1>1, IdleRequest DEF Known
<1>5. QED
  BY <1>1, <1>2, <1>3, <1>4 DEF AgreeInv

\* A settled row that reflects the provider grants what was bought.
LEMMA ReflectsGrants ==
    ASSUME BillInv, NEW k \in Subs, NEW l \in DOMAIN events, Latest(k, l), Reflects(row, k)
    PROVE  /\ HasPaidAccess(row) <=> stripe[k].status = "active" /\ now < stripe[k].end
           /\ HasPaidAccess(row) =>
                /\ row.sub = k /\ row.plan = stripe[k].plan /\ row.end = stripe[k].end
                /\ stripe[k].cancel => row.cancel
                /\ row.cancel => \E j \in Subs : stripe[j].cancel
<1>1. stripe[k].end \in Nat /\ now \in Nat
  BY InvTypes, LatestState
<1>2. CASE stripe[k].status = "active"
  <2>1. CASE /\ row.status = "ACTIVE" /\ row.sub = k /\ row.end = stripe[k].end
             /\ row.plan = stripe[k].plan
             /\ stripe[k].cancel => row.cancel
             /\ row.cancel => \E j \in Subs : Cancelled(j)
    BY <1>1, <1>2, <2>1 DEF HasPaidAccess, Cancelled
  <2>2. CASE row.status = "EXPIRED" /\ now >= stripe[k].end
    BY <1>1, <1>2, <2>2 DEF HasPaidAccess
  <2>3. QED
    BY <1>2, <2>1, <2>2 DEF Reflects
<1>3. CASE stripe[k].status # "active"
  BY <1>3 DEF Reflects, HasPaidAccess
<1>4. QED
  BY <1>2, <1>3

LEMMA AgreeInvAgrees == BillInv /\ AgreeInv => AgreesWhenSettled
<1> SUFFICES ASSUME BillInv, AgreeInv, NEW k \in Subs, Settled, ~raced, ToldLast(k), FailsOnly(k)
             PROVE  /\ HasPaidAccess(row) <=> stripe[k].status = "active" /\ now < stripe[k].end
                    /\ HasPaidAccess(row) =>
                        /\ row.sub = k /\ row.plan = stripe[k].plan /\ row.end = stripe[k].end
                        /\ stripe[k].cancel => row.cancel
                        /\ row.cancel => \E j \in Subs : stripe[j].cancel
  BY DEF AgreesWhenSettled
<1>1. PICK l \in DOMAIN events : Latest(k, l)
  BY DEF AgreeInv, Agreed
<1>2. Reflects(row, k)
  BY <1>1 DEF Settled, Latest, Unraced, Reached
<1>3. QED
  BY <1>1, <1>2, ReflectsGrants

-----------------------------------------------------------------------------
(* Theorems.                                                                *)

THEOREM BillInvariant == Spec => []BillInv
<1>1. Init => BillInv
  BY InitInv
<1>2. BillInv /\ [Next]_vars => BillInv'
  BY NextInv
<1>3. QED
  BY <1>1, <1>2, PTL DEF Spec

\* Every variable keeps its type, and only events the provider reported are stored.
THEOREM TypeCorrect == Spec => []TypeOK
<1>1. BillInv => TypeOK
  BY DEF BillInv
<1>2. QED
  BY <1>1, BillInvariant, PTL

\* Access is bought (reduceBillingEvent): a row that grants access is backed by a
\* report of the provider about its subscription and its end.
THEOREM AccessCorrect == Spec => []AccessIsReported
<1>1. BillInv => AccessIsReported
  BY DEF BillInv, Granted, AccessIsReported, HasPaidAccess
<1>2. QED
  BY <1>1, BillInvariant, PTL

\* An event changes the row once (the unique key of commercial_billing_events),
\* however many webhook requests process it at the same time.
THEOREM EventsOnce == Spec => EventsCountOnce
<1> DEFINE Once == row' # row =>
        \/ \E i \in DOMAIN events \ stored : stored' = stored \cup {i} /\ row'.at = events[i].at
        \/ row' = [row EXCEPT !.cancel = TRUE]
<1>1. BillInv /\ [Next]_vars => [Once]_vars
  <2> SUFFICES ASSUME BillInv, [Next]_vars, row' # row
               PROVE  Once
    OBVIOUS
  <2>1. PICK s \in Servers : StoreEvent(s) \/ CancelStore(s)
    BY RowWriters
  <2>2. CASE StoreEvent(s)
    BY <2>2, Stored
  <2>3. CASE CancelStore(s)
    BY <2>3 DEF CancelStore
  <2>4. QED
    BY <2>1, <2>2, <2>3
<1>2. QED
  BY <1>1, BillInvariant, PTL DEF Spec, EventsCountOnce

\* When every event has been processed, in whatever order, however often and however
\* much at the same time, the row agrees with the subscription the provider told of
\* last, with any number of sessions, periods, events and requests
\* (reduceBillingEvent).  That subscription need not be the one the organization
\* pays: the code has one row, and an abandoned session that expires later takes it.
\* Nothing is said where a webhook wrote over a row that changed after it had read
\* it, nor where a payment of another subscription failed.
THEOREM AgreementCorrect == Spec => []AgreesWhenSettled
<1>1. Init => AgreeInv
  BY InitAgrees
<1>2. BillInv /\ BillInv' /\ AgreeInv /\ [Next]_vars => AgreeInv'
  BY NextAgrees
<1>3. Spec => []AgreeInv
  BY <1>1, <1>2, BillInvariant, PTL DEF Spec
<1>4. BillInv /\ AgreeInv => AgreesWhenSettled
  BY AgreeInvAgrees
<1>5. QED
  BY <1>3, <1>4, BillInvariant, PTL

\* Older events are ignored (schema.prisma:1276): the time of the row never goes
\* back, unless a webhook writes over a row it had not read.
THEOREM OlderCorrect == Spec => OlderIgnored
<1>1. BillInv /\ [Next]_vars => [row'.at >= row.at \/ raced']_vars
  <2> SUFFICES ASSUME BillInv, [Next]_vars
               PROVE  row'.at >= row.at \/ raced'
    OBVIOUS
  <2>1. row \in Row \cup {NoRow} /\ row.at \in Nat /\ NoRow.at = 0
    BY InvTypes DEF Row, NoRow
  <2>2. CASE row' = row
    BY <2>1, <2>2
  <2>3. CASE row' # row
    <3>1. PICK s \in Servers : StoreEvent(s) \/ CancelStore(s)
      BY <2>3, RowWriters
    <3>2. CASE StoreEvent(s)
      <4>1. req[s].applied /\ row' = req[s].row /\ (raced' \/ row = req[s].base)
            /\ row' \in Row /\ (req[s].base # NoRow => req[s].base.at <= row'.at)
        BY <2>3, <3>2, Stored
      <4>2. row'.at \in Nat
        BY <4>1 DEF Row
      <4>3. QED
        BY <2>1, <4>1, <4>2
    <3>3. CASE CancelStore(s)
      <4>1. row' = [row EXCEPT !.cancel = TRUE]
        BY <3>3 DEF CancelStore
      <4>2. row'.at = row.at
        BY <2>1, <4>1 DEF Row, NoRow
      <4>3. QED
        BY <2>1, <4>2
    <3>4. QED
      BY <3>1, <3>2, <3>3
  <2>4. QED
    BY <2>2, <2>3
<1>2. QED
  BY <1>1, BillInvariant, PTL DEF Spec, OlderIgnored
=============================================================================
