--------------------------- MODULE FinanceBilling ---------------------------
(***************************************************************************)
(* Delivery notes and the invoices that bill them, in one workspace and    *)
(* one calendar year (src/agxora-v2/app/lib/finance/persistence).          *)
(*                                                                         *)
(* Every operation is a server request that reads first and then runs one  *)
(* PostgreSQL transaction under Read Committed.  A statement is one step:  *)
(* it sees what is committed when it starts, waits for the row locks it    *)
(* needs, and then acts on what has become of those rows.  What a          *)
(* transaction wrote is visible when it commits; the locks it holds follow *)
(* from how far it has come (HeldNotes, HeldLines, HeldKeys).  A statement *)
(* takes its locks together: what a partial wait adds is a deadlock, which *)
(* PostgreSQL ends by aborting a transaction, and any may abort (Abort).   *)
(*                                                                         *)
(* A line item is its id.  A total is the set of the lines it sums, so     *)
(* that two totals are equal when they sum the same lines.                 *)
(***************************************************************************)
EXTENDS Naturals, FiniteSets

CONSTANTS
    Notes,      \* ids of delivery notes
    Customers,
    KeyNames,   \* idempotency keys clients choose
    Slots,      \* requests under way at the same time
    Updaters,   \* the slots that may serve an update of a note
    MaxPerNote, \* bound: lines of a draft
    MaxLines    \* bound: lines ever made

ASSUME FinanceAssumption ==
    /\ IsFiniteSet(Notes) /\ Updaters \subseteq Slots
    /\ MaxPerNote \in Nat \ {0} /\ MaxLines \in Nat

VARIABLES
    note,       \* delivery_notes with their delivery_note_items
    invoices,   \* finance_invoices with their finance_invoice_items
    links,      \* invoice_delivery_notes
    keys,       \* finance_idempotency_keys
    next,       \* finance_number_sequences: nextValue per kind of document
    made,       \* how many lines have been made
    req         \* what each slot is doing

vars == <<note, invoices, links, keys, next, made, req>>

DraftStatuses == {"DRAFT", "OPEN", "CANCELLED"}     \* what a draft may ask for
DocNumber == Nat \ {0}
LineId == Nat
Line == [id : LineId, pos : Nat]
Ids(lines) == {l.id : l \in lines}

NoNote == [status |-> "none", number |-> 0, customer |-> "none", lines |-> {}, total |-> {}]
Note == {NoNote} \cup
    [status : DraftStatuses \cup {"ABGERECHNET"}, number : DocNumber, customer : Customers,
     lines : SUBSET Line, total : SUBSET LineId]
Existing == {n \in Notes : note[n].status # "none"}
Editable(n) == note[n].status \in {"DRAFT", "OPEN"}

Invoice == [number : DocNumber, customer : Customers, lines : SUBSET LineId, total : SUBSET LineId]

\* The ids are sorted by id when they are selected and by number otherwise; two
\* or more that are sorted differently have different hashes.
Hash(order, ids) ==
    [order |-> IF Cardinality(ids) = 1 THEN "selected" ELSE order, ids |-> ids]
HashSet == [order : {"selected", "found"}, ids : SUBSET Notes]
KeySet == KeyNames \cup HashSet
KeyRow == [key : KeySet, hash : HashSet, number : DocNumber]

Idle == [pc |-> "idle"]
Bill == [key : KeySet, hash : HashSet]
Request ==
    {Idle} \cup [pc : {"numberedNote"}, number : DocNumber]
    \cup [pc : {"update"}, note : Notes]
    \cup [pc : {"scanned", "cleared"}, note : Notes, lines : SUBSET LineId]
    \cup [pc : {"delete", "deleted"}, note : Notes, line : LineId]
    \cup [pc : {"counted", "renumbered"}, note : Notes, line : LineId, rest : SUBSET Line]
    \cup [pc : {"bill", "insert", "keyed", "locked"}, bill : Bill]
    \cup [pc : {"read"}, bill : Bill, customer : Customers, total : SUBSET LineId]
    \cup [pc : {"assembled"}, bill : Bill, customer : Customers,
             lines : SUBSET LineId, total : SUBSET LineId]
    \cup [pc : {"numbered"}, bill : Bill, invoice : Invoice]

At(s, pc) == req[s].pc = pc
Become(s, r) == req' = [req EXCEPT ![s] = r]
Leave(s) == Become(s, Idle)
Unwritten == UNCHANGED <<note, invoices, links, keys, next, made>>

Init ==
    /\ note = [n \in Notes |-> NoNote]
    /\ invoices = {} /\ links = {} /\ keys = {}
    /\ next = [note |-> 1, invoice |-> 1]
    /\ made = 0
    /\ req = [s \in Slots |-> Idle]

-----------------------------------------------------------------------------
(* Row locks.                                                                *)

\* Mutant: the notes are read without FOR UPDATE.
HeldNotesWithoutLock(s) == {}

HeldNotes(s) ==
    IF req[s].pc \in {"locked", "read", "assembled", "numbered"}
    THEN req[s].bill.hash.ids ELSE {}

\* The lines whose position changes when the gap a deleted line leaves is closed.
Rank(l, lines) == 1 + Cardinality({k \in lines : k.pos < l.pos \/ (k.pos = l.pos /\ k.id < l.id)})
Moved(lines) == {l \in lines : l.pos # Rank(l, lines)}

HeldLines(s) ==
    CASE req[s].pc = "cleared" -> req[s].lines
      [] req[s].pc \in {"deleted", "counted"} -> {req[s].line}
      [] req[s].pc = "renumbered" -> {req[s].line} \cup Ids(Moved(req[s].rest))
      [] OTHER -> {}

HeldKeys(s) ==
    IF req[s].pc \in {"keyed", "locked", "read", "assembled", "numbered"}
    THEN {req[s].bill.key} ELSE {}

NoteFree(s, n) == \A o \in Slots \ {s} : n \notin HeldNotes(o)
LinesFree(s, ids) == \A o \in Slots \ {s} : ids \cap HeldLines(o) = {}

-----------------------------------------------------------------------------
(* createDeliveryNoteForActor: the number is taken from the sequence, whose  *)
(* row stays locked until the note is in.                                    *)

NewLines(k) == {[id |-> made + i, pos |-> i] : i \in 1..k}
Draft(number, k, status, customer) ==
    [status |-> status, number |-> number, customer |-> customer,
     lines |-> NewLines(k), total |-> Ids(NewLines(k))]
RoomFor(k) == made + k <= MaxLines

\* Mutant: the number is taken in a transaction of its own.
NumberNoteApart(s) ==
    /\ At(s, "idle")
    /\ \A o \in Slots : ~At(o, "numberedNote")
    /\ Become(s, [pc |-> "numberedNote", number |-> next.note])
    /\ next' = [next EXCEPT !.note = @ + 1]
    /\ UNCHANGED <<note, invoices, links, keys, made>>

NumberNote(s) ==
    /\ At(s, "idle")
    /\ Existing # Notes /\ RoomFor(1)
    /\ \A o \in Slots : ~At(o, "numberedNote")
    /\ Become(s, [pc |-> "numberedNote", number |-> next.note])
    /\ Unwritten

CreateNote(s) ==
    /\ At(s, "numberedNote")
    /\ \E n \in Notes \ Existing, k \in 1..MaxPerNote, status \in DraftStatuses, c \in Customers :
        /\ RoomFor(k)
        /\ note' = [note EXCEPT ![n] = Draft(req[s].number, k, status, c)]
        /\ made' = made + k
    /\ next' = [note |-> req[s].number + 1, invoice |-> next.invoice]
    /\ Leave(s)
    /\ UNCHANGED <<invoices, links, keys>>

-----------------------------------------------------------------------------
(* updateDeliveryNoteForActor: the status is checked, then the transaction   *)
(* deletes the lines it finds and writes the row with the lines of the draft.*)

UpdateNote(s, n) ==
    /\ At(s, "idle") /\ s \in Updaters
    /\ Editable(n) /\ RoomFor(1)
    /\ Become(s, [pc |-> "update", note |-> n])
    /\ Unwritten

ScanLines(s) ==
    /\ At(s, "update")
    /\ Become(s, [pc |-> "scanned", note |-> req[s].note, lines |-> Ids(note[req[s].note].lines)])
    /\ Unwritten

ClearLines(s) ==
    /\ At(s, "scanned")
    /\ LinesFree(s, req[s].lines)
    /\ Become(s, [pc |-> "cleared", note |-> req[s].note,
                  lines |-> req[s].lines \cap Ids(note[req[s].note].lines)])
    /\ Unwritten

WriteNote(s) ==
    LET n == req[s].note
        kept == {l \in note[n].lines : l.id \notin req[s].lines} IN
    /\ At(s, "cleared")
    /\ NoteFree(s, n)
    /\ \E k \in 1..MaxPerNote, status \in DraftStatuses, c \in Customers :
        /\ RoomFor(k)
        /\ note' = [note EXCEPT ![n] =
                       [status |-> status, number |-> note[n].number, customer |-> c,
                        lines |-> kept \cup NewLines(k), total |-> Ids(NewLines(k))]]
        /\ made' = made + k
    /\ Leave(s)
    /\ UNCHANGED <<invoices, links, keys, next>>

-----------------------------------------------------------------------------
(* deleteDeliveryNoteItemForActor: one line goes, the lines after it move up *)
(* and the row gets the total of the lines that were left.                   *)

DeleteLine(s, n) ==
    /\ At(s, "idle")
    /\ Editable(n)
    /\ Cardinality(note[n].lines) > 1
    /\ \E l \in note[n].lines : Become(s, [pc |-> "delete", note |-> n, line |-> l.id])
    /\ Unwritten

TakeLine(s) ==
    /\ At(s, "delete")
    /\ LinesFree(s, {req[s].line})
    /\ IF req[s].line \in Ids(note[req[s].note].lines)
       THEN Become(s, [pc |-> "deleted", note |-> req[s].note, line |-> req[s].line])
       ELSE Leave(s)
    /\ Unwritten

CountRest(s) ==
    LET rest == {l \in note[req[s].note].lines : l.id # req[s].line} IN
    /\ At(s, "deleted")
    /\ IF rest = {} THEN Leave(s)
       ELSE Become(s, [pc |-> "counted", note |-> req[s].note, line |-> req[s].line, rest |-> rest])
    /\ Unwritten

\* Mutant: the positions keep the gap.
KeepPositions(s) ==
    /\ At(s, "counted")
    /\ Become(s, [pc |-> "renumbered", note |-> req[s].note, line |-> req[s].line, rest |-> req[s].rest])
    /\ Unwritten

Renumber(s) ==
    LET moved == Ids(Moved(req[s].rest)) IN
    /\ At(s, "counted")
    /\ LinesFree(s, moved)
    /\ IF moved \subseteq Ids(note[req[s].note].lines)
       THEN Become(s, [pc |-> "renumbered", note |-> req[s].note,
                       line |-> req[s].line, rest |-> req[s].rest])
       ELSE Leave(s)
    /\ Unwritten

WriteTotal(s) ==
    LET n == req[s].note
        rest == req[s].rest
        left == {l \in note[n].lines : l.id # req[s].line}
        moved == {l \in left : l.id \in Ids(Moved(rest))} IN
    /\ At(s, "renumbered")
    /\ NoteFree(s, n)
    /\ note' = [note EXCEPT ![n] =
                   [status |-> note[n].status, number |-> note[n].number,
                    customer |-> note[n].customer, total |-> Ids(rest),
                    lines |-> (left \ moved) \cup
                        {[id |-> l.id, pos |-> Rank(l, rest)] : l \in Moved(rest)}]]
    /\ Leave(s)
    /\ UNCHANGED <<invoices, links, keys, next, made>>

-----------------------------------------------------------------------------
(* billDeliveryNotesForActor.                                                *)

\* resolveBillableIds: any notes the client selects, or open ones found by
\* customer and date.
BillNotes(s) ==
    /\ At(s, "idle")
    /\ \E order \in {"selected", "found"}, ids \in SUBSET Existing :
        LET hash == Hash(order, ids) IN
        /\ ids # {}
        /\ order = "found" => \A n \in ids : note[n].status = "OPEN"
        /\ \E key \in KeyNames \cup {hash} :
            Become(s, [pc |-> "bill", bill |-> [key |-> key, hash |-> hash]])
    /\ Unwritten

\* The key is committed with its invoice, so a row that is found is COMPLETED:
\* the answer is its invoice, or a conflict if the hash differs.
FindKey(s) ==
    /\ At(s, "bill")
    /\ IF \E k \in keys : k.key = req[s].bill.key
       THEN Leave(s) ELSE Become(s, [pc |-> "insert", bill |-> req[s].bill])
    /\ Unwritten

\* Mutant: the key is not unique.
InsertKeyAgain(s) ==
    /\ At(s, "insert")
    /\ Become(s, [pc |-> "keyed", bill |-> req[s].bill])
    /\ Unwritten

\* The insert waits for another of the same key.  If that one commits, the
\* violation of the unique key has aborted this transaction, and the second look
\* at the key fails with it.
InsertKey(s) ==
    /\ At(s, "insert")
    /\ \A o \in Slots \ {s} : req[s].bill.key \notin HeldKeys(o)
    /\ IF \E k \in keys : k.key = req[s].bill.key
       THEN Leave(s) ELSE Become(s, [pc |-> "keyed", bill |-> req[s].bill])
    /\ Unwritten

LockNotes(s) ==
    /\ At(s, "keyed")
    /\ \A n \in req[s].bill.hash.ids : NoteFree(s, n)
    /\ Become(s, [pc |-> "locked", bill |-> req[s].bill])
    /\ Unwritten

\* The rows, then (a second statement of the same query) their lines.  Notes of
\* two customers, or one that is not open, end the request.
ReadNotes(s) ==
    LET ids == req[s].bill.hash.ids IN
    /\ At(s, "locked")
    /\ IF \E c \in Customers : \A n \in ids : note[n].status = "OPEN" /\ note[n].customer = c
       THEN \E c \in Customers :
            /\ \A n \in ids : note[n].customer = c
            /\ Become(s, [pc |-> "read", bill |-> req[s].bill, customer |-> c,
                          total |-> UNION {note[n].total : n \in ids}])
       ELSE Leave(s)
    /\ Unwritten

ReadLines(s) ==
    LET lines == UNION {Ids(note[n].lines) : n \in req[s].bill.hash.ids} IN
    /\ At(s, "read")
    /\ IF lines = {} THEN Leave(s)
       ELSE Become(s, [pc |-> "assembled", bill |-> req[s].bill, customer |-> req[s].customer,
                       lines |-> lines, total |-> req[s].total])
    /\ Unwritten

\* Mutant: the number is one too low.
NumberInvoiceFromZero(s) ==
    /\ At(s, "assembled")
    /\ \A o \in Slots : ~At(o, "numbered")
    /\ Become(s, [pc |-> "numbered", bill |-> req[s].bill,
                  invoice |-> [number |-> next.invoice - 1, customer |-> req[s].customer,
                               lines |-> req[s].lines, total |-> req[s].total]])
    /\ Unwritten

NumberInvoice(s) ==
    /\ At(s, "assembled")
    /\ \A o \in Slots : ~At(o, "numbered")
    /\ Become(s, [pc |-> "numbered", bill |-> req[s].bill,
                  invoice |-> [number |-> next.invoice, customer |-> req[s].customer,
                               lines |-> req[s].lines, total |-> req[s].total]])
    /\ Unwritten

Linked(ids) == \E l \in links : l[1] \in ids
Marked(ids) == [n \in Notes |->
    IF n \in ids
    THEN [status |-> "ABGERECHNET", number |-> note[n].number, customer |-> note[n].customer,
          lines |-> note[n].lines, total |-> note[n].total]
    ELSE note[n]]

\* Mutant: the link of a note to its invoice is not unique.
CommitBillTwice(s) ==
    LET bill == req[s].bill
        ids == bill.hash.ids
        invoice == req[s].invoice IN
    /\ At(s, "numbered")
    /\ invoices' = invoices \cup {invoice}
    /\ links' = links \cup {<<n, invoice.number>> : n \in ids}
    /\ note' = Marked(ids)
    /\ keys' = keys \cup {[key |-> bill.key, hash |-> bill.hash, number |-> invoice.number]}
    /\ next' = [note |-> next.note, invoice |-> invoice.number + 1]
    /\ UNCHANGED made
    /\ Leave(s)

\* The invoice, its links (a note is linked once), the marks and the key commit
\* together.
CommitBill(s) ==
    LET bill == req[s].bill
        ids == bill.hash.ids
        invoice == req[s].invoice IN
    /\ At(s, "numbered")
    /\ IF Linked(ids) \/ \E n \in ids : note[n].status # "OPEN"
       THEN Unwritten
       ELSE /\ invoices' = invoices \cup {invoice}
            /\ links' = links \cup {<<n, invoice.number>> : n \in ids}
            /\ note' = Marked(ids)
            /\ keys' = keys \cup {[key |-> bill.key, hash |-> bill.hash, number |-> invoice.number]}
            /\ next' = [note |-> next.note, invoice |-> invoice.number + 1]
            /\ UNCHANGED made
    /\ Leave(s)

-----------------------------------------------------------------------------
\* A transaction that fails, times out or dies leaves nothing behind.
Abort(s) ==
    /\ ~At(s, "idle")
    /\ Leave(s)
    /\ Unwritten

Step(s) ==
    \/ NumberNote(s) \/ CreateNote(s)
    \/ (\E n \in Notes : UpdateNote(s, n)) \/ ScanLines(s) \/ ClearLines(s) \/ WriteNote(s)
    \/ (\E n \in Notes : DeleteLine(s, n)) \/ TakeLine(s) \/ CountRest(s) \/ Renumber(s)
    \/ WriteTotal(s)
    \/ BillNotes(s) \/ FindKey(s) \/ InsertKey(s) \/ LockNotes(s) \/ ReadNotes(s)
    \/ ReadLines(s) \/ NumberInvoice(s) \/ CommitBill(s)
    \/ Abort(s)

Next == \E s \in Slots : Step(s)

Spec == Init /\ [][Next]_vars

-----------------------------------------------------------------------------
(* Properties.                                                               *)

TypeOK ==
    /\ note \in [Notes -> Note]
    /\ invoices \in SUBSET Invoice
    /\ links \in SUBSET (Notes \X DocNumber)
    /\ keys \in SUBSET KeyRow
    /\ next \in [note : DocNumber, invoice : DocNumber]
    /\ made \in Nat
    /\ req \in [Slots -> Request]

\* The total of a note is that of its lines, and the total of an invoice that of
\* the lines it lists, although totals and lines are written and read apart
\* (loadLockedNotes, deleteDeliveryNoteItemForActor).
TotalsAgree ==
    /\ \A n \in Existing : note[n].total = Ids(note[n].lines)
    /\ \A i \in invoices : i.total = i.lines

\* No note loses its last line, however many deletions are under way: each counts
\* the lines that are left before the others commit.
NoteKeepsLines == \A n \in Existing : note[n].lines # {}

\* Delivery notes are numbered without a gap or a repetition, although a
\* transaction that took a number may fail (nextDocumentNumber).
NotesNumbered ==
    /\ {note[n].number : n \in Existing} = 1..(next.note - 1)
    /\ \A n, o \in Existing : note[n].number = note[o].number => n = o

\* An idempotency key stands for one invoice, of exactly the notes it was first
\* used for: the answer to a repeated request is the answer to the first.
KeyNamesInvoice ==
    /\ \A k, o \in keys : k.key = o.key => k = o
    /\ \A k \in keys :
        /\ \E i \in invoices : i.number = k.number
        /\ {l[1] : l \in {m \in links : m[2] = k.number}} = k.hash.ids

Invoicing == INSTANCE Ledger WITH
    billed <- [n \in Notes |-> {l[2] : l \in {m \in links : m[1] = n}}],
    issued <- next.invoice - 1

\* The tables implement the ledger: a note is billed once, invoice numbers are
\* consecutive, and an invoice bills all of its notes or none, although an edit
\* can reopen a note that was billed.
BillsOnce == Invoicing!Spec

\* schema.prisma:933 and billingService.ts:249: a note that was billed is frozen.
FrozenWhenBilled ==
    [][\A n \in Notes : note[n].status = "ABGERECHNET" => note'[n] = note[n]]_vars
=============================================================================
