---------------------------- MODULE FinanceProofs ----------------------------
(***************************************************************************)
(* Theorems about delivery notes and invoices, for any number of notes,    *)
(* customers, keys, requests under way and lines.                          *)
(***************************************************************************)
EXTENDS FinanceBilling, FiniteSetTheorems, TLAPS

Billing == {"bill", "insert", "keyed", "locked", "read", "assembled", "numbered"}
Keyed == {"keyed", "locked", "read", "assembled", "numbered"}
Editing == {"update", "scanned", "cleared", "delete", "deleted", "counted", "renumbered"}

\* What a request has in hand agrees with the tables.
InHand(r) ==
    /\ r.pc \in Editing => r.note \in Existing
    /\ r.pc \in {"counted", "renumbered"} => IsFiniteSet(r.rest)
    /\ r.pc = "numberedNote" => r.number = next.note
    /\ r.pc \in Billing => r.bill.hash.ids # {}
    /\ r.pc \in Keyed => \A k \in keys : k.key # r.bill.key
    /\ r.pc = "numbered" => r.invoice.number = next.invoice

\* Two requests hold neither the same number nor the same key.
Apart(r, o) ==
    /\ r.pc = "numberedNote" => o.pc # "numberedNote"
    /\ r.pc = "numbered" => o.pc # "numbered"
    /\ r.pc \in Keyed /\ o.pc \in Keyed => r.bill.key # o.bill.key

FiniteLines == \A n \in Notes : IsFiniteSet(note[n].lines)
Below ==
    /\ \A l \in links : l[2] < next.invoice
    /\ \A k \in keys : k.number < next.invoice

FinInv ==
    /\ TypeOK
    /\ FiniteLines
    /\ Below
    /\ NotesNumbered
    /\ KeyNamesInvoice
    /\ \A s \in Slots : InHand(req[s])
    /\ \A s, o \in Slots : s # o => Apart(req[s], req[o])

-----------------------------------------------------------------------------
(* Types.                                                                   *)

LEMMA RequestTypes ==
    ASSUME NEW r \in Request
    PROVE  /\ r.pc \in {"idle", "numberedNote"} \cup Editing \cup Billing
           /\ r.pc = "numberedNote" => r.number \in DocNumber
           /\ r.pc \in Editing => r.note \in Notes
           /\ r.pc \in {"scanned", "cleared"} => r.lines \in SUBSET LineId
           /\ r.pc \in {"delete", "deleted", "counted", "renumbered"} => r.line \in LineId
           /\ r.pc \in {"counted", "renumbered"} => r.rest \in SUBSET Line
           /\ r.pc \in Billing => r.bill \in Bill
           /\ r.pc \in {"read", "assembled"} => r.customer \in Customers /\ r.total \in SUBSET LineId
           /\ r.pc = "assembled" => r.lines \in SUBSET LineId
           /\ r.pc = "numbered" => r.invoice \in Invoice
BY DEF Request, Idle, Editing, Billing

LEMMA BillTypes ==
    ASSUME NEW b \in Bill
    PROVE  b.key \in KeySet /\ b.hash \in HashSet /\ b.hash.ids \in SUBSET Notes
BY DEF Bill, HashSet

LEMMA NoteTypes ==
    ASSUME NEW x \in Note
    PROVE  /\ x.lines \in SUBSET Line /\ x.total \in SUBSET LineId
           /\ x.status \in DraftStatuses \cup {"ABGERECHNET", "none"}
           /\ x.status # "none" => x.number \in DocNumber /\ x.customer \in Customers
BY DEF Note, NoNote

LEMMA MakeNote ==
    ASSUME NEW status \in DraftStatuses \cup {"ABGERECHNET"}, NEW number \in DocNumber,
           NEW customer \in Customers, NEW lines \in SUBSET Line, NEW total \in SUBSET LineId
    PROVE  LET x == [status |-> status, number |-> number, customer |-> customer,
                     lines |-> lines, total |-> total] IN
           x \in Note /\ x.status # "none" /\ x.number = number /\ x.lines = lines
BY DEF Note, DraftStatuses

LEMMA InvTypes ==
    ASSUME FinInv
    PROVE  /\ note \in [Notes -> Note] /\ invoices \in SUBSET Invoice
           /\ links \in SUBSET (Notes \X DocNumber) /\ keys \in SUBSET KeyRow
           /\ next \in [note : DocNumber, invoice : DocNumber]
           /\ next.note \in DocNumber /\ next.invoice \in DocNumber
           /\ made \in Nat /\ req \in [Slots -> Request]
           /\ \A s \in Slots : InHand(req[s])
BY DEF FinInv, TypeOK

LEMMA IdsTypes ==
    ASSUME NEW lines \in SUBSET Line
    PROVE  Ids(lines) \in SUBSET LineId
BY DEF Ids, Line

LEMMA NewLinesTypes ==
    ASSUME made \in Nat, NEW k \in Nat
    PROVE  /\ NewLines(k) \in SUBSET Line /\ IsFiniteSet(NewLines(k))
           /\ made + k \in Nat
<1>1. \A i \in 1..k : i \in Nat /\ made + i \in Nat
  OBVIOUS
<1>2. NewLines(k) \in SUBSET Line
  BY <1>1 DEF NewLines, Line, LineId
<1>3. IsFiniteSet(NewLines(k))
  <2> DEFINE f == [i \in 1..k |-> [id |-> made + i, pos |-> i]]
  <2>1. IsFiniteSet(1..k)
    BY FS_Interval
  <2>2. f \in Surjection(1..k, NewLines(k))
    BY DEF NewLines, Surjection
  <2>3. QED
    BY <2>1, <2>2, FS_Surjection
<1>4. QED
  BY <1>2, <1>3

LEMMA RankTypes ==
    ASSUME NEW lines \in SUBSET Line, IsFiniteSet(lines), NEW l
    PROVE  Rank(l, lines) \in Nat
<1> DEFINE before == {k \in lines : k.pos < l.pos \/ (k.pos = l.pos /\ k.id < l.id)}
<1>1. before \subseteq lines
  OBVIOUS
<1>2. IsFiniteSet(before)
  BY <1>1, FS_Subset
<1>3. Cardinality(before) \in Nat
  BY <1>2, FS_CardinalityType
<1> QED
  BY <1>3 DEF Rank

-----------------------------------------------------------------------------
(* Steps that write nothing.                                                *)

LEMMA BecomeTypes ==
    ASSUME FinInv, NEW s \in Slots, NEW r \in Request, Become(s, r)
    PROVE  /\ req' \in [Slots -> Request]
           /\ req'[s] = r
           /\ \A o \in Slots : o # s => req'[o] = req[o]
BY InvTypes DEF Become

LEMMA IdleRequest == Idle \in Request /\ Idle.pc = "idle"
BY DEF Request, Idle

LEMMA IdleInHand == InHand(Idle) /\ \A o : Apart(Idle, o) /\ Apart(o, Idle)
BY IdleRequest DEF InHand, Apart, Editing, Billing, Keyed

LEMMA InitInv == Init => FinInv
<1> SUFFICES ASSUME Init PROVE FinInv
  OBVIOUS
<1>1. /\ note = [n \in Notes |-> NoNote] /\ invoices = {} /\ links = {} /\ keys = {}
      /\ next = [note |-> 1, invoice |-> 1] /\ made = 0 /\ req = [s \in Slots |-> Idle]
  BY DEF Init
<1>2. NoNote \in Note /\ NoNote.status = "none" /\ NoNote.lines = {}
  BY DEF Note, NoNote
<1>3. TypeOK
  BY <1>1, <1>2, IdleRequest DEF TypeOK, DocNumber
<1>4. FiniteLines
  BY <1>1, <1>2, FS_EmptySet DEF FiniteLines
<1>5. Existing = {} /\ next.note = 1
  BY <1>1, <1>2 DEF Existing
<1>6. NotesNumbered
  BY <1>5 DEF NotesNumbered
<1>7. Below /\ KeyNamesInvoice
  BY <1>1 DEF Below, KeyNamesInvoice
<1>8. QED
  BY <1>1, <1>3, <1>4, <1>6, <1>7, IdleInHand DEF FinInv

LEMMA ReqStep ==
    ASSUME FinInv, NEW s \in Slots, NEW r \in Request, Become(s, r), Unwritten,
           InHand(r), \A o \in Slots : o # s => Apart(r, req[o])
    PROVE  FinInv'
<1>1. /\ req' \in [Slots -> Request] /\ req'[s] = r
      /\ \A o \in Slots : o # s => req'[o] = req[o]
  BY BecomeTypes
<1>2. UNCHANGED <<note, invoices, links, keys, next, made>>
  BY DEF Unwritten
<1>3. TypeOK'
  BY <1>1, <1>2 DEF FinInv, TypeOK
<1>4. FiniteLines' /\ Below' /\ NotesNumbered' /\ KeyNamesInvoice'
  BY <1>2 DEF FinInv, FiniteLines, Below, NotesNumbered, KeyNamesInvoice, Existing
<1>5. ASSUME NEW o \in Slots
      PROVE  InHand(req[o])'
  BY <1>1, <1>2, InvTypes DEF InHand, Existing
<1>6. ASSUME NEW p \in Slots, NEW o \in Slots, p # o
      PROVE  Apart(req[p], req[o])'
  <2>1. Apart(req[p], req[o]) /\ Apart(req[o], req[p])
    BY <1>6 DEF FinInv
  <2>2. QED
    BY <1>1, <1>6, <2>1 DEF Apart
<1>7. QED
  BY <1>3, <1>4, <1>5, <1>6 DEF FinInv

\* A request that holds neither a number nor a key.
LEMMA PlainStep ==
    ASSUME FinInv, NEW s \in Slots, NEW r \in Request, Become(s, r), Unwritten, InHand(r),
           r.pc \in Editing \cup {"idle", "bill", "insert"}
    PROVE  FinInv'
<1>1. \A o : Apart(r, o)
  BY DEF Apart, Editing, Keyed
<1>2. QED
  BY <1>1, ReqStep

LEMMA LeaveStep ==
    ASSUME FinInv, NEW s \in Slots, Leave(s), Unwritten
    PROVE  FinInv'
BY IdleRequest, IdleInHand, PlainStep DEF Leave

LEMMA UpdateStep ==
    ASSUME FinInv, NEW s \in Slots,
           (\E n \in Notes : UpdateNote(s, n)) \/ ScanLines(s) \/ ClearLines(s)
    PROVE  FinInv'
<1>1. CASE \E n \in Notes : UpdateNote(s, n)
  <2>1. PICK n \in Notes : UpdateNote(s, n)
    BY <1>1
  <2> DEFINE r == [pc |-> "update", note |-> n]
  <2>2. Become(s, r) /\ Unwritten /\ n \in Existing
    BY <2>1 DEF UpdateNote, Editable, Existing
  <2>3. r \in Request /\ r.pc = "update" /\ InHand(r)
    BY <2>2 DEF Request, InHand, Editing, Billing, Keyed
  <2>4. QED
    BY <2>2, <2>3, PlainStep DEF Editing
<1>2. CASE ScanLines(s) \/ ClearLines(s)
  <2>1. /\ Unwritten /\ req[s].note \in Notes /\ req[s].note \in Existing
        /\ req[s].pc = "scanned" => req[s].lines \in SUBSET LineId
    BY <1>2, InvTypes, RequestTypes DEF ScanLines, ClearLines, At, InHand, Editing
  <2>2. Ids(note[req[s].note].lines) \in SUBSET LineId
    BY <2>1, InvTypes, NoteTypes, IdsTypes
  <2>3. PICK pc \in {"scanned", "cleared"}, lines \in SUBSET LineId :
           Become(s, [pc |-> pc, note |-> req[s].note, lines |-> lines])
    BY <1>2, <2>1, <2>2 DEF ScanLines, ClearLines, At
  <2> DEFINE r == [pc |-> pc, note |-> req[s].note, lines |-> lines]
  <2>4. r \in Request /\ r.pc \in {"scanned", "cleared"} /\ InHand(r)
    BY <2>1 DEF Request, InHand, Editing, Billing, Keyed
  <2>5. QED
    BY <2>1, <2>3, <2>4, PlainStep DEF Editing
<1>3. QED
  BY <1>1, <1>2

LEMMA DeleteStep ==
    ASSUME FinInv, NEW s \in Slots,
           (\E n \in Notes : DeleteLine(s, n)) \/ TakeLine(s) \/ CountRest(s) \/ Renumber(s)
    PROVE  FinInv'
<1>1. CASE \E n \in Notes : DeleteLine(s, n)
  <2>1. PICK n \in Notes : DeleteLine(s, n)
    BY <1>1
  <2> PICK l \in note[n].lines : Become(s, [pc |-> "delete", note |-> n, line |-> l.id])
    BY <2>1 DEF DeleteLine
  <2> DEFINE r == [pc |-> "delete", note |-> n, line |-> l.id]
  <2>2. l.id \in LineId /\ n \in Existing /\ Unwritten
    BY <2>1, InvTypes, NoteTypes DEF DeleteLine, Line, Editable, Existing
  <2>3. r \in Request /\ r.pc = "delete" /\ InHand(r)
    BY <2>2 DEF Request, InHand, Editing, Billing, Keyed
  <2>4. QED
    BY <2>2, <2>3, PlainStep DEF Editing
<1>2. CASE TakeLine(s) \/ CountRest(s) \/ Renumber(s)
  <2>1. /\ Unwritten /\ req[s].note \in Notes /\ req[s].note \in Existing
        /\ req[s].line \in LineId
        /\ req[s].pc = "counted" => req[s].rest \in SUBSET Line /\ IsFiniteSet(req[s].rest)
    BY <1>2, InvTypes, RequestTypes DEF TakeLine, CountRest, Renumber, At, InHand, Editing
  <2>2. CASE Leave(s)
    BY <2>1, <2>2, LeaveStep
  <2>3. CASE TakeLine(s) /\ ~Leave(s)
    <3> DEFINE r == [pc |-> "deleted", note |-> req[s].note, line |-> req[s].line]
    <3>1. Become(s, r)
      BY <2>3 DEF TakeLine
    <3>2. r \in Request /\ r.pc = "deleted" /\ InHand(r)
      BY <2>1 DEF Request, InHand, Editing, Billing, Keyed
    <3>3. QED
      BY <2>1, <3>1, <3>2, PlainStep DEF Editing
  <2>4. ASSUME NEW rest \in SUBSET Line, IsFiniteSet(rest), NEW pc \in {"counted", "renumbered"},
               Become(s, [pc |-> pc, note |-> req[s].note, line |-> req[s].line, rest |-> rest])
        PROVE  FinInv'
    <3> DEFINE r == [pc |-> pc, note |-> req[s].note, line |-> req[s].line, rest |-> rest]
    <3>1. r \in Request /\ r.pc \in {"counted", "renumbered"} /\ InHand(r)
      BY <2>1, <2>4 DEF Request, InHand, Editing, Billing, Keyed
    <3>2. QED
      BY <2>1, <2>4, <3>1, PlainStep DEF Editing
  <2>5. CASE CountRest(s) /\ ~Leave(s)
    <3> DEFINE rest == {l \in note[req[s].note].lines : l.id # req[s].line}
    <3>1. Become(s, [pc |-> "counted", note |-> req[s].note, line |-> req[s].line, rest |-> rest])
      BY <2>5 DEF CountRest
    <3>2. IsFiniteSet(note[req[s].note].lines) /\ rest \subseteq note[req[s].note].lines
      BY <2>1 DEF FinInv, FiniteLines
    <3>3. IsFiniteSet(rest)
      BY <3>2, FS_Subset
    <3>4. rest \in SUBSET Line
      BY <2>1, <3>2, InvTypes, NoteTypes
    <3>5. QED
      BY <2>4, <3>1, <3>3, <3>4
  <2>6. CASE Renumber(s) /\ ~Leave(s)
    <3>1. Become(s, [pc |-> "renumbered", note |-> req[s].note, line |-> req[s].line,
                     rest |-> req[s].rest])
      BY <2>6 DEF Renumber
    <3>2. QED
      BY <2>1, <2>4, <2>6, <3>1 DEF Renumber, At
  <2>7. QED
    BY <1>2, <2>2, <2>3, <2>5, <2>6
<1>3. QED
  BY <1>1, <1>2

LEMMA AskStep ==
    ASSUME FinInv, NEW s \in Slots, BillNotes(s) \/ FindKey(s)
    PROVE  FinInv'
<1>1. CASE BillNotes(s)
  <2>1. PICK order \in {"selected", "found"}, ids \in SUBSET Existing :
           /\ ids # {}
           /\ \E key \in KeyNames \cup {Hash(order, ids)} :
                Become(s, [pc |-> "bill", bill |-> [key |-> key, hash |-> Hash(order, ids)]])
    BY <1>1 DEF BillNotes
  <2>2. PICK hash : hash = Hash(order, ids)
    OBVIOUS
  <2>3. PICK key \in KeyNames \cup {hash} :
           Become(s, [pc |-> "bill", bill |-> [key |-> key, hash |-> hash]])
    BY <2>1, <2>2
  <2>4. ids \in SUBSET Notes
    BY DEF Existing
  <2>5. hash \in HashSet /\ hash.ids # {}
    BY <2>1, <2>2, <2>4 DEF Hash, HashSet
  <2>6. PICK b : b = [key |-> key, hash |-> hash]
    OBVIOUS
  <2>7. b \in Bill /\ b.hash.ids # {}
    BY <2>3, <2>5, <2>6 DEF Bill, KeySet
  <2> DEFINE r == [pc |-> "bill", bill |-> b]
  <2>8. r \in Request /\ r.pc = "bill" /\ InHand(r)
    BY <2>7 DEF Request, InHand, Editing, Billing, Keyed
  <2>9. QED
    BY <1>1, <2>3, <2>6, <2>8, PlainStep DEF BillNotes
<1>2. CASE FindKey(s)
  <2>1. CASE Leave(s)
    BY <1>2, <2>1, LeaveStep DEF FindKey
  <2>2. CASE ~Leave(s)
    <3> DEFINE r == [pc |-> "insert", bill |-> req[s].bill]
    <3>1. Become(s, r) /\ Unwritten
      BY <1>2, <2>2 DEF FindKey
    <3>2. req[s].bill \in Bill /\ req[s].bill.hash.ids # {}
      BY <1>2, InvTypes, RequestTypes DEF FindKey, At, InHand, Billing
    <3>3. r \in Request /\ r.pc = "insert" /\ InHand(r)
      BY <3>2 DEF Request, InHand, Editing, Billing, Keyed
    <3>4. QED
      BY <3>1, <3>3, PlainStep
  <2>3. QED
    BY <2>1, <2>2
<1>3. QED
  BY <1>1, <1>2

\* A request that holds a number or a key.
LEMMA NumberNoteStep ==
    ASSUME FinInv, NEW s \in Slots, NumberNote(s)
    PROVE  FinInv'
<1> DEFINE r == [pc |-> "numberedNote", number |-> next.note]
<1>1. Become(s, r) /\ Unwritten /\ \A o \in Slots : req[o].pc # "numberedNote"
  BY DEF NumberNote, At
<1>2. r \in Request /\ r.pc = "numberedNote" /\ InHand(r)
  BY InvTypes DEF Request, InHand, Editing, Billing, Keyed
<1>3. \A o \in Slots : o # s => Apart(r, req[o])
  BY <1>1, <1>2 DEF Apart, Keyed
<1>4. QED
  BY <1>1, <1>2, <1>3, ReqStep

LEMMA InsertStep ==
    ASSUME FinInv, NEW s \in Slots, InsertKey(s)
    PROVE  FinInv'
<1> DEFINE r == [pc |-> "keyed", bill |-> req[s].bill]
<1>1. CASE Leave(s)
  BY <1>1, LeaveStep DEF InsertKey
<1>2. CASE ~Leave(s)
  <2>1. Become(s, r) /\ Unwritten /\ \A k \in keys : k.key # req[s].bill.key
    BY <1>2 DEF InsertKey
  <2>2. req[s].bill \in Bill /\ req[s].bill.hash.ids # {}
    BY InvTypes, RequestTypes DEF InsertKey, At, InHand, Billing
  <2>3. r \in Request /\ r.pc = "keyed" /\ InHand(r)
    BY <2>1, <2>2 DEF Request, InHand, Editing, Billing, Keyed
  <2>4. ASSUME NEW o \in Slots, o # s
        PROVE  Apart(r, req[o])
    BY <2>4 DEF InsertKey, HeldKeys, Apart, Keyed
  <2>5. QED
    BY <2>1, <2>3, <2>4, ReqStep
<1>3. QED
  BY <1>1, <1>2

\* A request that goes on with the key it holds.
LEMMA KeyedStep ==
    ASSUME FinInv, NEW s \in Slots, NEW r \in Request, Become(s, r), Unwritten,
           r.pc \in {"locked", "read", "assembled"}, req[s].pc \in Keyed, r.bill = req[s].bill
    PROVE  FinInv'
<1>1. InHand(r)
  BY InvTypes DEF InHand, Editing, Billing, Keyed
<1>2. \A o \in Slots : o # s => Apart(r, req[o])
  BY DEF FinInv, Apart, Keyed
<1>3. QED
  BY <1>1, <1>2, ReqStep

LEMMA ReadStep ==
    ASSUME FinInv, NEW s \in Slots, LockNotes(s) \/ ReadNotes(s) \/ ReadLines(s)
    PROVE  FinInv'
<1>1. Unwritten /\ req[s] \in Request /\ req[s].pc \in {"keyed", "locked", "read"}
  BY InvTypes DEF LockNotes, ReadNotes, ReadLines, At
<1>2. /\ req[s].bill \in Bill /\ req[s].bill.hash.ids \in SUBSET Notes
      /\ req[s].pc = "read" => req[s].customer \in Customers /\ req[s].total \in SUBSET LineId
  BY <1>1, RequestTypes, BillTypes DEF Billing
<1>3. CASE Leave(s)
  BY <1>1, <1>3, LeaveStep
<1>4. CASE LockNotes(s)
  <2> DEFINE r == [pc |-> "locked", bill |-> req[s].bill]
  <2>1. Become(s, r) /\ r \in Request
    BY <1>2, <1>4 DEF LockNotes, Request
  <2>2. QED
    BY <1>1, <2>1, KeyedStep DEF Keyed
<1>5. CASE ReadNotes(s) /\ ~Leave(s)
  <2> DEFINE sum == UNION {note[n].total : n \in req[s].bill.hash.ids}
  <2>1. PICK c \in Customers :
           Become(s, [pc |-> "read", bill |-> req[s].bill, customer |-> c, total |-> sum])
    BY <1>5 DEF ReadNotes
  <2>2. sum \in SUBSET LineId
    BY <1>2, InvTypes, NoteTypes
  <2> HIDE DEF sum
  <2> DEFINE r == [pc |-> "read", bill |-> req[s].bill, customer |-> c, total |-> sum]
  <2>3. r \in Request
    BY <1>2, <2>2 DEF Request
  <2>4. QED
    BY <1>1, <2>1, <2>3, KeyedStep DEF Keyed
<1>6. CASE ReadLines(s) /\ ~Leave(s)
  <2> DEFINE lines == UNION {Ids(note[n].lines) : n \in req[s].bill.hash.ids}
  <2>1. Become(s, [pc |-> "assembled", bill |-> req[s].bill, customer |-> req[s].customer,
                   lines |-> lines, total |-> req[s].total])
    BY <1>6 DEF ReadLines
  <2>2. lines \in SUBSET LineId
    BY <1>2, InvTypes, NoteTypes, IdsTypes
  <2> HIDE DEF lines
  <2> DEFINE r == [pc |-> "assembled", bill |-> req[s].bill, customer |-> req[s].customer,
                   lines |-> lines, total |-> req[s].total]
  <2>3. r \in Request
    BY <1>2, <1>6, <2>2 DEF Request, ReadLines, At
  <2>4. QED
    BY <1>1, <2>1, <2>3, KeyedStep DEF Keyed
<1>7. QED
  BY <1>3, <1>4, <1>5, <1>6

LEMMA NumberInvoiceStep ==
    ASSUME FinInv, NEW s \in Slots, NumberInvoice(s)
    PROVE  FinInv'
<1>1. PICK i : i = [number |-> next.invoice, customer |-> req[s].customer,
                    lines |-> req[s].lines, total |-> req[s].total]
  OBVIOUS
<1> DEFINE r == [pc |-> "numbered", bill |-> req[s].bill, invoice |-> i]
<1>2. req[s].pc = "assembled" /\ req[s] \in Request
  BY InvTypes DEF NumberInvoice, At
<1>3. Become(s, r) /\ Unwritten /\ \A o \in Slots : req[o].pc # "numbered"
  BY <1>1 DEF NumberInvoice, At
<1>4. i \in Invoice /\ req[s].bill \in Bill
  BY <1>1, <1>2, RequestTypes, InvTypes DEF Invoice, Billing
<1>5. r \in Request /\ r.pc = "numbered"
  BY <1>4 DEF Request
<1>6. InHand(r)
  BY <1>1, <1>2, InvTypes DEF InHand, Editing, Billing, Keyed
<1>7. ASSUME NEW o \in Slots, o # s
      PROVE  Apart(r, req[o])
  <2>1. Apart(req[s], req[o])
    BY <1>7 DEF FinInv
  <2>2. QED
    BY <1>2, <1>3, <2>1 DEF Apart, Keyed
<1>8. QED
  BY <1>3, <1>5, <1>6, <1>7, ReqStep

-----------------------------------------------------------------------------
(* Steps that commit.                                                       *)

LEMMA LeftApart ==
    ASSUME FinInv, NEW s \in Slots, Leave(s)
    PROVE  /\ req' \in [Slots -> Request] /\ req'[s] = Idle
           /\ \A o \in Slots : o # s => req'[o] = req[o]
           /\ \A o, p \in Slots : o # p => Apart(req[o], req[p])'
<1>1. /\ req' \in [Slots -> Request] /\ req'[s] = Idle
      /\ \A o \in Slots : o # s => req'[o] = req[o]
  BY IdleRequest, BecomeTypes DEF Leave
<1>2. ASSUME NEW o \in Slots, NEW p \in Slots, o # p
      PROVE  Apart(req'[o], req'[p])
  BY <1>1, <1>2, IdleInHand DEF FinInv
<1>3. \A o, p \in Slots : Apart(req[o], req[p])' <=> Apart(req'[o], req'[p])
  BY DEF Apart
<1>4. QED
  BY <1>1, <1>2, <1>3

\* A transaction that writes a note and its lines.
LEMMA NoteStep ==
    ASSUME FinInv, NEW s \in Slots, NEW n \in Existing, NEW x \in Note,
           x.status # "none", x.number = note[n].number, IsFiniteSet(x.lines),
           note' = [note EXCEPT ![n] = x], UNCHANGED <<invoices, links, keys, next>>,
           made' \in Nat, Leave(s)
    PROVE  FinInv'
<1>1. /\ n \in Notes /\ note' \in [Notes -> Note] /\ note'[n] = x
      /\ \A m \in Notes : m # n => note'[m] = note[m]
  BY InvTypes DEF Existing
<1>2. Existing' = Existing /\ \A m \in Existing : note'[m].number = note[m].number
  BY <1>1 DEF Existing
<1>3. TypeOK'
  BY <1>1, LeftApart DEF FinInv, TypeOK
<1>4. FiniteLines'
  BY <1>1 DEF FinInv, FiniteLines
<1>5. NotesNumbered'
  <2>1. {note[m].number : m \in Existing}' = {note[m].number : m \in Existing}
    BY <1>2
  <2>2. QED
    BY <1>2, <2>1 DEF FinInv, NotesNumbered
<1>6. Below' /\ KeyNamesInvoice'
  BY DEF FinInv, Below, KeyNamesInvoice
<1>7. ASSUME NEW o \in Slots
      PROVE  InHand(req[o])'
  <2>1. InHand(req'[o])
    BY LeftApart, InvTypes, IdleInHand
  <2>2. QED
    BY <1>2, <2>1 DEF InHand
<1>8. QED
  BY <1>3, <1>4, <1>5, <1>6, <1>7, LeftApart DEF FinInv

LEMMA WriteNoteStep ==
    ASSUME FinInv, NEW s \in Slots, WriteNote(s)
    PROVE  FinInv'
<1> DEFINE n == req[s].note
           kept == {l \in note[n].lines : l.id \notin req[s].lines}
<1>1. n \in Existing /\ n \in Notes /\ note[n] \in Note /\ note[n].status # "none"
  BY InvTypes DEF WriteNote, At, InHand, Editing, Existing
<1>2. kept \in SUBSET Line /\ IsFiniteSet(kept)
  <2>1. note[n].lines \in SUBSET Line /\ IsFiniteSet(note[n].lines)
    BY <1>1, NoteTypes DEF FinInv, FiniteLines
  <2>2. QED
    BY <2>1, FS_Subset
<1>3. PICK k \in 1..MaxPerNote, status \in DraftStatuses, c \in Customers :
        /\ note' = [note EXCEPT ![n] =
                       [status |-> status, number |-> note[n].number, customer |-> c,
                        lines |-> kept \cup NewLines(k), total |-> Ids(NewLines(k))]]
        /\ made' = made + k
  BY DEF WriteNote
<1> HIDE DEF kept
<1>4. /\ NewLines(k) \in SUBSET Line /\ IsFiniteSet(NewLines(k)) /\ made' \in Nat
      /\ Ids(NewLines(k)) \in SUBSET LineId
  BY <1>3, InvTypes, NewLinesTypes, IdsTypes
<1>5. PICK lines : lines = kept \cup NewLines(k)
  OBVIOUS
<1>6. lines \in SUBSET Line /\ IsFiniteSet(lines)
  BY <1>2, <1>4, <1>5, FS_Union
<1>7. PICK x : x = [status |-> status, number |-> note[n].number, customer |-> c,
                    lines |-> lines, total |-> Ids(NewLines(k))]
  OBVIOUS
<1>8. x \in Note /\ x.status # "none" /\ x.number = note[n].number /\ x.lines = lines
  BY <1>1, <1>4, <1>6, <1>7, NoteTypes, MakeNote
<1>9. note' = [note EXCEPT ![n] = x]
  BY <1>3, <1>5, <1>7
<1>10. UNCHANGED <<invoices, links, keys, next>> /\ Leave(s)
  BY DEF WriteNote
<1>11. QED
  BY <1>1, <1>4, <1>6, <1>8, <1>9, <1>10, NoteStep

LEMMA WriteTotalStep ==
    ASSUME FinInv, NEW s \in Slots, WriteTotal(s)
    PROVE  FinInv'
<1> DEFINE n == req[s].note
           rest == req[s].rest
           left == {l \in note[n].lines : l.id # req[s].line}
           moved == {l \in left : l.id \in Ids(Moved(rest))}
           placed == {[id |-> l.id, pos |-> Rank(l, rest)] : l \in Moved(rest)}
<1>1. n \in Existing /\ n \in Notes /\ note[n] \in Note /\ note[n].status # "none"
      /\ rest \in SUBSET Line /\ IsFiniteSet(rest)
  BY InvTypes, RequestTypes DEF WriteTotal, At, InHand, Editing, Existing
<1>2. left \ moved \in SUBSET Line /\ IsFiniteSet(left \ moved)
  <2>1. note[n].lines \in SUBSET Line /\ IsFiniteSet(note[n].lines)
    BY <1>1, NoteTypes DEF FinInv, FiniteLines
  <2>2. left \ moved \subseteq note[n].lines
    OBVIOUS
  <2>3. QED
    BY <2>1, <2>2, FS_Subset
<1>3. placed \in SUBSET Line /\ IsFiniteSet(placed)
  <2>1. Moved(rest) \subseteq rest /\ IsFiniteSet(Moved(rest))
    BY <1>1, FS_Subset DEF Moved
  <2>2. \A l \in Moved(rest) : l.id \in LineId /\ Rank(l, rest) \in Nat
    BY <1>1, <2>1, RankTypes DEF Line
  <2>3. placed \in SUBSET Line
    BY <2>2 DEF Line
  <2> DEFINE f == [l \in Moved(rest) |-> [id |-> l.id, pos |-> Rank(l, rest)]]
  <2>4. f \in Surjection(Moved(rest), placed)
    BY DEF Surjection
  <2>5. QED
    BY <2>1, <2>3, <2>4, FS_Surjection
<1>4. note' = [note EXCEPT ![n] =
                   [status |-> note[n].status, number |-> note[n].number,
                    customer |-> note[n].customer, total |-> Ids(rest),
                    lines |-> (left \ moved) \cup placed]]
  BY DEF WriteTotal
<1>5. PICK lines : lines = (left \ moved) \cup placed
  OBVIOUS
<1>6. lines \in SUBSET Line /\ IsFiniteSet(lines)
  BY <1>2, <1>3, <1>5, FS_Union
<1>7. PICK x : x = [status |-> note[n].status, number |-> note[n].number,
                    customer |-> note[n].customer, lines |-> lines, total |-> Ids(rest)]
  OBVIOUS
<1>8. x \in Note /\ x.status # "none" /\ x.number = note[n].number /\ x.lines = lines
  <2>1. Ids(rest) \in SUBSET LineId
    BY <1>1, IdsTypes
  <2>2. /\ note[n].status \in DraftStatuses \cup {"ABGERECHNET"}
        /\ note[n].number \in DocNumber /\ note[n].customer \in Customers
    BY <1>1, NoteTypes
  <2>3. QED
    BY <1>6, <1>7, <2>1, <2>2, MakeNote
<1>9. note' = [note EXCEPT ![n] = x]
  BY <1>4, <1>5, <1>7
<1>10. UNCHANGED <<invoices, links, keys, next>> /\ Leave(s) /\ made' \in Nat
  BY InvTypes DEF WriteTotal
<1>11. QED
  BY <1>1, <1>6, <1>8, <1>9, <1>10, NoteStep

LEMMA CreateNoteStep ==
    ASSUME FinInv, NEW s \in Slots, CreateNote(s)
    PROVE  FinInv'
<1>1. PICK n \in Notes \ Existing, k \in 1..MaxPerNote, status \in DraftStatuses, c \in Customers :
        /\ note' = [note EXCEPT ![n] = Draft(req[s].number, k, status, c)]
        /\ made' = made + k
  BY DEF CreateNote
<1>2. req[s].pc = "numberedNote" /\ req[s].number = next.note /\ next.note \in DocNumber
      /\ next.invoice \in DocNumber
  BY InvTypes DEF CreateNote, At, InHand
<1>3. /\ NewLines(k) \in SUBSET Line /\ IsFiniteSet(NewLines(k)) /\ made' \in Nat
      /\ Ids(NewLines(k)) \in SUBSET LineId
  BY <1>1, InvTypes, NewLinesTypes, IdsTypes
<1>4. PICK x : x = Draft(next.note, k, status, c)
  OBVIOUS
<1>5. x \in Note /\ x.status # "none" /\ x.number = next.note /\ IsFiniteSet(x.lines)
  BY <1>2, <1>3, <1>4, MakeNote DEF Draft
<1>6. /\ note' \in [Notes -> Note] /\ note'[n] = x
      /\ \A m \in Notes : m # n => note'[m] = note[m]
  BY <1>1, <1>2, <1>4, <1>5, InvTypes
<1>7. next' = [note |-> next.note + 1, invoice |-> next.invoice]
      /\ next' \in [note : DocNumber, invoice : DocNumber]
      /\ next'.note = next.note + 1 /\ next'.invoice = next.invoice
  BY <1>2 DEF CreateNote, DocNumber
<1>8. UNCHANGED <<invoices, links, keys>> /\ Leave(s)
  BY DEF CreateNote
<1>9. Existing' = Existing \cup {n} /\ \A m \in Existing : note'[m] = note[m]
  BY <1>5, <1>6 DEF Existing
<1>10. TypeOK'
  BY <1>3, <1>6, <1>7, <1>8, LeftApart DEF FinInv, TypeOK
<1>11. FiniteLines'
  BY <1>5, <1>6 DEF FinInv, FiniteLines
<1>12. NotesNumbered'
  <2>1. {note[m].number : m \in Existing}' = {note[m].number : m \in Existing} \cup {next.note}
    BY <1>5, <1>6, <1>9
  <2>2. 1..(next.note - 1) \cup {next.note} = 1..next.note /\ next.note \notin 1..(next.note - 1)
    BY <1>2 DEF DocNumber
  <2>3. {note[m].number : m \in Existing} = 1..(next.note - 1)
        /\ \A m, o \in Existing : note[m].number = note[o].number => m = o
    BY DEF FinInv, NotesNumbered
  <2>4. \A m \in Existing : note[m].number \in 1..(next.note - 1)
    BY <2>3
  <2>5. next'.note - 1 = next.note
    BY <1>2, <1>7 DEF DocNumber
  <2>6. \A m, o \in Existing' : note'[m].number = note'[o].number => m = o
    BY <1>5, <1>6, <1>9, <2>2, <2>3, <2>4
  <2>7. {note[m].number : m \in Existing}' = 1..(next'.note - 1)
    BY <2>1, <2>2, <2>3, <2>5
  <2>8. QED
    BY <2>6, <2>7 DEF NotesNumbered
<1>13. Below' /\ KeyNamesInvoice'
  BY <1>7, <1>8 DEF FinInv, Below, KeyNamesInvoice
<1>14. ASSUME NEW o \in Slots
       PROVE  InHand(req[o])'
  <2>1. CASE o = s
    BY <2>1, <1>8, LeftApart, IdleRequest DEF InHand, Editing, Billing, Keyed
  <2>2. CASE o # s
    <3>1. req'[o] = req[o] /\ InHand(req[o]) /\ Apart(req[s], req[o])
      BY <1>8, <2>2, LeftApart, InvTypes DEF FinInv
    <3>2. req[o].pc # "numberedNote"
      BY <1>2, <3>1 DEF Apart
    <3>3. QED
      BY <1>7, <1>8, <1>9, <3>1, <3>2 DEF InHand
  <2>3. QED
    BY <2>1, <2>2
<1>15. QED
  BY <1>8, <1>10, <1>11, <1>12, <1>13, <1>14, LeftApart DEF FinInv

\* The notes an invoice bills, and the invoices of a note, in a set of links.
NotesOf(L, number) == {l[1] : l \in {m \in L : m[2] = number}}
NumbersOf(L, n) == {l[2] : l \in {m \in L : m[1] = n}}
NewLinks(ids, number) == {<<n, number>> : n \in ids}
LinkSets == SUBSET (Notes \X DocNumber)
LinksBelow(L, number) == \A l \in L : l[2] < number

LEMMA LinksTypes ==
    ASSUME NEW ids \in SUBSET Notes, NEW number \in DocNumber
    PROVE  /\ NewLinks(ids, number) \in SUBSET (Notes \X DocNumber)
           /\ \A l \in NewLinks(ids, number) : l[2] = number /\ l[1] \in ids
           /\ {l[1] : l \in NewLinks(ids, number)} = ids
<1>1. NewLinks(ids, number) \in SUBSET (Notes \X DocNumber)
  BY DEF NewLinks
<1>2. \A l \in NewLinks(ids, number) : l[2] = number /\ l[1] \in ids
  BY DEF NewLinks
<1>3. ASSUME NEW n \in ids
      PROVE  n \in {l[1] : l \in NewLinks(ids, number)}
  <2>1. <<n, number>> \in NewLinks(ids, number)
    BY DEF NewLinks
  <2>2. <<n, number>>[1] = n
    OBVIOUS
  <2>3. QED
    BY <2>1, <2>2
<1>4. {l[1] : l \in NewLinks(ids, number)} = ids
  BY <1>2, <1>3
<1>5. QED
  BY <1>1, <1>2, <1>4

LEMMA NotesOfNew ==
    ASSUME NEW L \in LinkSets, NEW ids \in SUBSET Notes, NEW number \in DocNumber,
           LinksBelow(L, number), NEW sum, sum = L \cup NewLinks(ids, number)
    PROVE  NotesOf(sum, number) = ids
<1>1. \A l \in L : l[2] \in Nat /\ l[2] # number
  BY DEF DocNumber, LinkSets, LinksBelow
<1>2. {m \in sum : m[2] = number} = NewLinks(ids, number)
  BY <1>1, LinksTypes
<1>3. QED
  BY <1>2, LinksTypes DEF NotesOf

LEMMA NotesOfOld ==
    ASSUME NEW L, NEW ids \in SUBSET Notes, NEW number \in DocNumber,
           NEW sum, sum = L \cup NewLinks(ids, number), NEW other, other # number
    PROVE  NotesOf(sum, other) = NotesOf(L, other)
<1>1. {m \in sum : m[2] = other} = {m \in L : m[2] = other}
  BY LinksTypes
<1>2. QED
  BY <1>1 DEF NotesOf

LEMMA NumbersOfNew ==
    ASSUME NEW L \in LinkSets, NEW ids \in SUBSET Notes, NEW number \in DocNumber,
           NEW sum, sum = L \cup NewLinks(ids, number), NEW n \in Notes
    PROVE  /\ n \in ids => NumbersOf(sum, n) = NumbersOf(L, n) \cup {number}
           /\ n \notin ids => NumbersOf(sum, n) = NumbersOf(L, n)
<1>1. \A l \in NewLinks(ids, number) : l[2] = number /\ l[1] \in ids
  BY DEF NewLinks
<1>2. ASSUME n \in ids
      PROVE  NumbersOf(sum, n) = NumbersOf(L, n) \cup {number}
  <2>1. <<n, number>> \in NewLinks(ids, number) /\ <<n, number>>[1] = n /\ <<n, number>>[2] = number
    BY <1>2 DEF NewLinks
  <2>2. QED
    BY <1>1, <1>2, <2>1 DEF NumbersOf
<1>3. ASSUME n \notin ids
      PROVE  NumbersOf(sum, n) = NumbersOf(L, n)
  <2>1. {m \in sum : m[1] = n} = {m \in L : m[1] = n}
    BY <1>1, <1>3
  <2>2. QED
    BY <2>1 DEF NumbersOf
<1>4. QED
  BY <1>2, <1>3

\* A transaction that makes the invoice of its notes.
Makes(s) ==
    LET bill == req[s].bill
        ids == bill.hash.ids
        number == req[s].invoice.number IN
    /\ req[s].pc = "numbered"
    /\ ~Linked(ids) /\ \A n \in ids : note[n].status = "OPEN"
    /\ invoices' = invoices \cup {req[s].invoice}
    /\ links' = links \cup NewLinks(ids, number)
    /\ note' = Marked(ids)
    /\ keys' = keys \cup {[key |-> bill.key, hash |-> bill.hash, number |-> number]}
    /\ next' = [note |-> next.note, invoice |-> number + 1]
    /\ made' = made
    /\ Leave(s)

LEMMA CommitCases ==
    ASSUME NEW s \in Slots, CommitBill(s)
    PROVE  Makes(s) \/ (Unwritten /\ Leave(s))
BY DEF CommitBill, Makes, At, NewLinks

LEMMA MakesTypes ==
    ASSUME FinInv, NEW s \in Slots, Makes(s)
    PROVE  LET bill == req[s].bill
               ids == bill.hash.ids IN
           /\ bill \in Bill /\ bill.key \in KeySet /\ bill.hash \in HashSet
           /\ ids \in SUBSET Notes /\ ids # {}
           /\ \A k \in keys : k.key # bill.key
           /\ req[s].invoice \in Invoice /\ req[s].invoice.number = next.invoice
           /\ next.note \in DocNumber /\ next.invoice \in DocNumber
           /\ links' = links \cup NewLinks(ids, next.invoice)
           /\ next' = [note |-> next.note, invoice |-> next.invoice + 1]
           /\ next'.note = next.note /\ next'.invoice = next.invoice + 1
<1>1. req[s] \in Request /\ req[s].pc = "numbered" /\ InHand(req[s])
  BY InvTypes DEF Makes
<1>2. req[s].bill \in Bill /\ req[s].invoice \in Invoice
  BY <1>1, RequestTypes DEF Billing
<1>3. req[s].invoice.number = next.invoice /\ req[s].bill.hash.ids # {}
      /\ \A k \in keys : k.key # req[s].bill.key
  BY <1>1 DEF InHand, Billing, Keyed
<1>4. QED
  BY <1>2, <1>3, BillTypes, InvTypes DEF Makes

LEMMA MarkedTypes ==
    ASSUME note \in [Notes -> Note], NEW ids \in SUBSET Notes, note' = Marked(ids),
           \A n \in ids : note[n].status = "OPEN"
    PROVE  /\ note' \in [Notes -> Note]
           /\ Existing' = Existing
           /\ \A n \in Notes : note'[n].lines = note[n].lines /\ note'[n].number = note[n].number
<1>1. ASSUME NEW n \in Notes
      PROVE  /\ note'[n] \in Note
             /\ note'[n].status = "none" <=> note[n].status = "none"
             /\ note'[n].lines = note[n].lines /\ note'[n].number = note[n].number
  <2>1. CASE n \notin ids
    BY <2>1 DEF Marked
  <2>2. CASE n \in ids
    <3>1. note'[n] = [status |-> "ABGERECHNET", number |-> note[n].number,
                      customer |-> note[n].customer, lines |-> note[n].lines, total |-> note[n].total]
      BY <2>2 DEF Marked
    <3>2. QED
      BY <2>2, <3>1, NoteTypes, MakeNote, SMTT(60)
  <2>3. QED
    BY <2>1, <2>2
<1>2. note' = [n \in Notes |-> note'[n]]
  BY DEF Marked
<1>3. QED
  BY <1>1, <1>2 DEF Existing

LEMMA MakesStep ==
    ASSUME FinInv, NEW s \in Slots, Makes(s)
    PROVE  FinInv'
<1> DEFINE bill == req[s].bill
           ids == bill.hash.ids
           k0 == [key |-> bill.key, hash |-> bill.hash, number |-> next.invoice]
<1>1. /\ note \in [Notes -> Note] /\ ids \in SUBSET Notes /\ note' = Marked(ids)
      /\ \A n \in ids : note[n].status = "OPEN"
  BY InvTypes, MakesTypes DEF Makes
<1>2. /\ note' \in [Notes -> Note] /\ Existing' = Existing
      /\ \A n \in Notes : note'[n].lines = note[n].lines /\ note'[n].number = note[n].number
  BY <1>1, MarkedTypes
<1>3. Leave(s) /\ made' = made /\ invoices' = invoices \cup {req[s].invoice} /\ keys' = keys \cup {k0}
  BY MakesTypes DEF Makes
<1>4. k0 \in KeyRow /\ k0.number = next.invoice /\ k0.key = bill.key /\ k0.hash.ids = ids
  BY MakesTypes DEF KeyRow
<1>5. links' \in SUBSET (Notes \X DocNumber)
  <2>1. NewLinks(ids, next.invoice) \in SUBSET (Notes \X DocNumber)
    BY MakesTypes DEF NewLinks
  <2>2. QED
    BY <2>1, InvTypes, MakesTypes
<1>6. next' \in [note : DocNumber, invoice : DocNumber]
  BY MakesTypes DEF DocNumber
<1>7. TypeOK'
  BY <1>2, <1>3, <1>4, <1>5, <1>6, InvTypes, MakesTypes, LeftApart DEF TypeOK
<1>8. FiniteLines'
  BY <1>2 DEF FinInv, FiniteLines
<1>9. NotesNumbered'
  <2>1. {note[m].number : m \in Existing}' = {note[m].number : m \in Existing}
    BY <1>2 DEF Existing
  <2>2. \A m \in Existing' : m \in Notes
    BY DEF Existing
  <2>3. QED
    BY <1>2, <2>1, <2>2, MakesTypes DEF FinInv, NotesNumbered
<1>10. \A l \in links : l[2] \in Nat /\ l[2] < next.invoice
  BY InvTypes DEF FinInv, Below, DocNumber
<1>11. \A k \in keys : k.number \in DocNumber /\ k.number < next.invoice
  BY InvTypes DEF FinInv, Below, KeyRow
<1>12. /\ links \in LinkSets /\ ids \in SUBSET Notes
       /\ next.invoice \in DocNumber /\ LinksBelow(links, next.invoice)
       /\ links' = links \cup NewLinks(ids, next.invoice)
  BY <1>10, InvTypes, MakesTypes DEF LinkSets, LinksBelow
<1> HIDE DEF ids
<1>13. Below'
  <2>1. \A l \in NewLinks(ids, next.invoice) : l[2] = next.invoice
    BY DEF NewLinks
  <2>2. \A l \in links' : l[2] < next.invoice + 1
    BY <1>10, <1>12, <2>1 DEF DocNumber
  <2>3. \A k \in keys' : k.number < next.invoice + 1
    BY <1>3, <1>4, <1>11, MakesTypes DEF DocNumber
  <2>4. QED
    BY <2>2, <2>3, MakesTypes DEF Below
<1>14. /\ NotesOf(links', next.invoice) = ids
       /\ \A other \in DocNumber :
            other # next.invoice => NotesOf(links', other) = NotesOf(links, other)
  <2>1. PICK number, old, new, some :
          number = next.invoice /\ old = links /\ new = links' /\ some = ids
    OBVIOUS
  <2>2. /\ old \in LinkSets /\ some \in SUBSET Notes /\ number \in DocNumber
        /\ LinksBelow(old, number) /\ new = old \cup NewLinks(some, number)
    BY <1>12, <2>1
  <2>3. NotesOf(new, number) = some
    BY <2>2, NotesOfNew
  <2>4. \A other \in DocNumber : other # number => NotesOf(new, other) = NotesOf(old, other)
    BY <2>2, NotesOfOld
  <2>5. QED
    BY <2>1, <2>3, <2>4
<1>15. KeyNamesInvoice'
  <2>1. \A k, o \in keys' : k.key = o.key => k = o
    BY <1>3, <1>4, MakesTypes DEF FinInv, KeyNamesInvoice
  <2>2. \A k \in keys : /\ \E i \in invoices' : i.number = k.number
                        /\ NotesOf(links', k.number) = k.hash.ids
    <3>1. TAKE k \in keys
    <3>2. NotesOf(links, k.number) = k.hash.ids /\ \E i \in invoices : i.number = k.number
      BY DEF FinInv, KeyNamesInvoice, NotesOf
    <3>3. NotesOf(links', k.number) = NotesOf(links, k.number)
      <4>1. k.number \in DocNumber /\ k.number # next.invoice
        BY <1>11, <1>12 DEF DocNumber
      <4>2. QED
        BY <1>14, <4>1
    <3>4. QED
      BY <1>3, <3>2, <3>3
  <2>3. /\ \E i \in invoices' : i.number = k0.number
        /\ NotesOf(links', k0.number) = k0.hash.ids
    BY <1>3, <1>4, <1>14, MakesTypes
  <2>4. QED
    BY <1>3, <2>1, <2>2, <2>3 DEF KeyNamesInvoice, NotesOf
<1>16. ASSUME NEW o \in Slots
       PROVE  InHand(req[o])'
  <2>1. CASE o = s
    BY <2>1, <1>3, LeftApart, IdleRequest DEF InHand, Editing, Billing, Keyed
  <2>2. CASE o # s
    <3>1. req'[o] = req[o] /\ InHand(req[o]) /\ Apart(req[s], req[o])
      BY <1>3, <2>2, LeftApart, InvTypes DEF FinInv
    <3>2. req[s].pc = "numbered"
      BY DEF Makes
    <3>3. req[o].pc # "numbered" /\ (req[o].pc \in Keyed => req[o].bill.key # bill.key)
      BY <3>1, <3>2 DEF Apart, Keyed
    <3>4. req[o].pc \in Keyed => \A k \in keys' : k.key # req[o].bill.key
      BY <1>3, <1>4, <3>1, <3>3 DEF InHand
    <3>5. QED
      BY <1>2, <3>1, <3>3, <3>4, MakesTypes DEF InHand
  <2>3. QED
    BY <2>1, <2>2
<1>17. QED
  BY <1>3, <1>7, <1>8, <1>9, <1>13, <1>15, <1>16, LeftApart DEF FinInv

-----------------------------------------------------------------------------
(* Every step.                                                              *)

\* Next, by what a step writes.
LEMMA NextCases ==
    ASSUME Next
    PROVE  \E s \in Slots :
            \/ NumberNote(s)
            \/ (\E n \in Notes : UpdateNote(s, n)) \/ ScanLines(s) \/ ClearLines(s)
            \/ (\E n \in Notes : DeleteLine(s, n)) \/ TakeLine(s) \/ CountRest(s) \/ Renumber(s)
            \/ BillNotes(s) \/ FindKey(s)
            \/ InsertKey(s)
            \/ LockNotes(s) \/ ReadNotes(s) \/ ReadLines(s)
            \/ NumberInvoice(s)
            \/ Unwritten /\ Leave(s)
            \/ CreateNote(s) \/ WriteNote(s) \/ WriteTotal(s)
            \/ Makes(s)
BY CommitCases DEF Next, Step, Abort

LEMMA NextInv == FinInv /\ [Next]_vars => FinInv'
<1> SUFFICES ASSUME FinInv, [Next]_vars PROVE FinInv'
  OBVIOUS
<1>1. CASE UNCHANGED vars
  <2>1. UNCHANGED <<note, invoices, links, keys, next, made, req>>
    BY <1>1 DEF vars
  <2>2. TypeOK' /\ FiniteLines' /\ Below' /\ NotesNumbered' /\ KeyNamesInvoice'
    BY <2>1 DEF FinInv, TypeOK, FiniteLines, Below, NotesNumbered, KeyNamesInvoice, Existing
  <2>3. \A s, o \in Slots : InHand(req[s])' /\ (s # o => Apart(req[s], req[o])')
    BY <2>1 DEF FinInv, InHand, Apart, Existing
  <2>4. QED
    BY <2>2, <2>3 DEF FinInv
<1>2. CASE Next
  BY <1>2, NextCases, NumberNoteStep, UpdateStep, DeleteStep, AskStep, InsertStep, ReadStep,
     NumberInvoiceStep, LeaveStep, CreateNoteStep, WriteNoteStep, WriteTotalStep, MakesStep
<1>3. QED
  BY <1>1, <1>2

THEOREM FinInvariant == Spec => []FinInv
<1>1. Init => FinInv
  BY InitInv
<1>2. FinInv /\ [Next]_vars => FinInv'
  BY NextInv
<1>3. QED
  BY <1>1, <1>2, PTL DEF Spec

\* Every variable keeps its type.
THEOREM TypeCorrect == Spec => []TypeOK
<1>1. FinInv => TypeOK
  BY DEF FinInv
<1>2. QED
  BY <1>1, FinInvariant, PTL

\* Delivery notes are numbered without a gap or a repetition (nextDocumentNumber).
THEOREM NumbersCorrect == Spec => []NotesNumbered
<1>1. FinInv => NotesNumbered
  BY DEF FinInv
<1>2. QED
  BY <1>1, FinInvariant, PTL

\* A key stands for one invoice, of the notes it was first used for
\* (finance_idempotency_keys).
THEOREM KeysCorrect == Spec => []KeyNamesInvoice
<1>1. FinInv => KeyNamesInvoice
  BY DEF FinInv
<1>2. QED
  BY <1>1, FinInvariant, PTL

-----------------------------------------------------------------------------
(* The tables implement the ledger.                                         *)

\* Only the transaction that makes an invoice changes what was billed.
LEMMA LedgerWriters ==
    ASSUME FinInv, [Next]_vars, links' # links \/ next'.invoice # next.invoice
    PROVE  \E s \in Slots : Makes(s)
<1>1. Next
  BY DEF vars
<1>2. PICK s \in Slots :
            \/ Unwritten
            \/ CreateNote(s) \/ WriteNote(s) \/ WriteTotal(s)
            \/ Makes(s)
  BY <1>1, NextCases
     DEF NumberNote, UpdateNote, ScanLines, ClearLines, DeleteLine, TakeLine, CountRest, Renumber,
         BillNotes, FindKey, InsertKey, LockNotes, ReadNotes, ReadLines, NumberInvoice
<1>3. QED
  BY <1>2 DEF Unwritten, CreateNote, WriteNote, WriteTotal

LEMMA MakesIssues ==
    ASSUME FinInv, NEW s \in Slots, Makes(s)
    PROVE  Invoicing!Next
<1>1. PICK ids, number, old, new :
        ids = req[s].bill.hash.ids /\ number = next.invoice /\ old = links /\ new = links'
  OBVIOUS
<1>2. /\ old \in LinkSets /\ ids \in SUBSET Notes /\ number \in DocNumber
      /\ new = old \cup NewLinks(ids, number) /\ ids # {}
      /\ next'.invoice = number + 1
  BY <1>1, InvTypes, MakesTypes DEF LinkSets
<1>3. \A n \in ids : NumbersOf(old, n) = {}
  BY <1>1, <1>2 DEF Makes, Linked, NumbersOf
<1>4. \A n \in Notes : NumbersOf(new, n) = IF n \in ids THEN {number} ELSE NumbersOf(old, n)
  <2>1. TAKE n \in Notes
  <2>2. /\ n \in ids => NumbersOf(new, n) = NumbersOf(old, n) \cup {number}
        /\ n \notin ids => NumbersOf(new, n) = NumbersOf(old, n)
    BY <1>2, NumbersOfNew
  <2>3. QED
    BY <1>3, <2>2
<1>5. number - 1 + 1 = number /\ next'.invoice - 1 = number
  BY <1>2 DEF DocNumber
<1>6. \A n \in Notes : {l[2] : l \in {m \in links' : m[1] = n}} =
          IF n \in ids THEN {(next.invoice - 1) + 1} ELSE {l[2] : l \in {m \in links : m[1] = n}}
  BY <1>1, <1>4, <1>5 DEF NumbersOf
<1>7. \A n \in ids : [m \in Notes |-> {l[2] : l \in {k \in links : k[1] = m}}][n] = {}
  BY <1>1, <1>2, <1>3 DEF NumbersOf
<1>8. [n \in Notes |-> {l[2] : l \in {m \in links' : m[1] = n}}] =
          [n \in Notes |-> IF n \in ids THEN {(next.invoice - 1) + 1}
                           ELSE [o \in Notes |-> {l[2] : l \in {m \in links : m[1] = o}}][n]]
  BY <1>6
<1>9. Invoicing!Issue(ids)
  BY <1>1, <1>2, <1>5, <1>7, <1>8 DEF Invoicing!Issue
<1>10. QED
  BY <1>2, <1>9 DEF Invoicing!Next

\* A note is billed once, invoice numbers are consecutive, and an invoice bills all
\* of its notes or none (billDeliveryNotesForActor).
THEOREM ImplementsLedger == Spec => BillsOnce
<1>1. Init => Invoicing!Init
  <2> SUFFICES ASSUME Init PROVE Invoicing!Init
    OBVIOUS
  <2>1. links = {} /\ next.invoice - 1 = 0
    BY DEF Init
  <2>2. \A n \in Notes : {l[2] : l \in {m \in links : m[1] = n}} = {}
    BY <2>1
  <2>3. QED
    BY <2>1, <2>2 DEF Invoicing!Init
<1>2. FinInv /\ [Next]_vars => [Invoicing!Next]_(Invoicing!vars)
  <2> SUFFICES ASSUME FinInv, [Next]_vars PROVE [Invoicing!Next]_(Invoicing!vars)
    OBVIOUS
  <2>1. CASE links' = links /\ next'.invoice = next.invoice
    BY <2>1 DEF Invoicing!vars
  <2>2. CASE links' # links \/ next'.invoice # next.invoice
    BY <2>2, LedgerWriters, MakesIssues
  <2>3. QED
    BY <2>1, <2>2
<1>3. QED
  BY <1>1, <1>2, FinInvariant, PTL DEF Spec, BillsOnce, Invoicing!Spec
=============================================================================
