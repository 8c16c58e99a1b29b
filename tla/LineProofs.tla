------------------------------ MODULE LineProofs ------------------------------
(***************************************************************************)
(* The lines of delivery notes while several requests edit them, for any   *)
(* number of notes, lines and requests: as long as no two updates of one   *)
(* note overlap, totals are of the lines they stand beside, no note loses  *)
(* its last line, and what an invoice sums is what it lists.               *)
(***************************************************************************)
EXTENDS FinanceProofs

\* No two updates of one note are under way.  Deletions of lines and billings
\* overlap each other and the update as they like.
Updating == {"update", "scanned", "cleared"}
OneUpdate ==
    \A s, o \in Slots :
        /\ req[s].pc \in Updating /\ req[o].pc \in Updating
        /\ req[s].note = req[o].note
        => s = o

-----------------------------------------------------------------------------
(* The inductive invariant.  TotalsAgree rests on positions without a gap:   *)
(* of two requests that delete a line each, the one that deletes the earlier *)
(* line has to move the later one, which the other has locked.               *)

UniqueIds(lines) == \A l, k \in lines : l.id = k.id => l = k
Dense(lines) == \A l \in lines : l.pos = Rank(l, lines)
InOrder(lines) == UniqueIds(lines) /\ Dense(lines)

Left(r) == {l \in note[r.note].lines : l.id # r.line}
Missing(r) == ~(Ids(Moved(r.rest)) \subseteq Ids(note[r.note].lines))

\* What a request has read still tells what it is about to write.
Holds(r) ==
    /\ r.pc = "scanned" => Ids(note[r.note].lines) \subseteq r.lines
    /\ r.pc = "cleared" => r.lines = Ids(note[r.note].lines)
    /\ r.pc \in {"deleted", "counted", "renumbered"} => r.line \in Ids(note[r.note].lines)
    /\ r.pc \in {"counted", "renumbered"} => r.rest # {}
    /\ r.pc = "counted" => r.rest = Left(r) \/ Missing(r)
    /\ r.pc = "renumbered" => r.rest = Left(r)
    /\ r.pc = "read" => /\ r.bill.hash.ids \subseteq Existing
                        /\ r.total = UNION {note[n].total : n \in r.bill.hash.ids}
    /\ r.pc = "assembled" => r.lines = r.total
    /\ r.pc = "numbered" => r.invoice.lines = r.invoice.total

\* The row locks of HeldLines, as a function of what a request is doing.
HeldOf(r) ==
    CASE r.pc = "cleared" -> r.lines
      [] r.pc \in {"deleted", "counted"} -> {r.line}
      [] r.pc = "renumbered" -> {r.line} \cup Ids(Moved(r.rest))
      [] OTHER -> {}

NoteSums(n) ==
    /\ InOrder(note[n].lines)
    /\ note[n].total = Ids(note[n].lines)
    /\ n \in Existing => note[n].lines # {}

LinesKept ==
    /\ \A n \in Notes : NoteSums(n)
    /\ \A i \in invoices : i.total = i.lines
    /\ \A s \in Slots : Holds(req[s])
    /\ \A s, o \in Slots : s # o => HeldOf(req[s]) \cap HeldOf(req[o]) = {}

-----------------------------------------------------------------------------
(* Lines in order.                                                           *)

Before(k, l) == k.pos < l.pos \/ (k.pos = l.pos /\ k.id < l.id)
Ahead(l, lines) == {k \in lines : Before(k, l)}

LEMMA BeforeOrders ==
    /\ \A l \in Line : ~Before(l, l)
    /\ \A k, l, m \in Line : Before(k, l) /\ Before(l, m) => Before(k, m)
    /\ \A k, l \in Line : Before(k, l) => ~Before(l, k)
    /\ \A k, l \in Line : k.id # l.id => Before(k, l) \/ Before(l, k)
BY DEF Before, Line, LineId

LEMMA RankIs ==
    ASSUME NEW lines \in SUBSET Line, IsFiniteSet(lines), NEW l
    PROVE  /\ Rank(l, lines) = 1 + Cardinality(Ahead(l, lines))
           /\ IsFiniteSet(Ahead(l, lines)) /\ Cardinality(Ahead(l, lines)) \in Nat
<1>1. Ahead(l, lines) \subseteq lines
  BY DEF Ahead
<1>2. IsFiniteSet(Ahead(l, lines)) /\ Cardinality(Ahead(l, lines)) \in Nat
  BY <1>1, FS_Subset, FS_CardinalityType
<1>3. QED
  BY <1>2 DEF Rank, Ahead, Before

\* A line that comes later has a higher rank.
LEMMA RankGrows ==
    ASSUME NEW lines \in SUBSET Line, IsFiniteSet(lines),
           NEW k \in lines, NEW l \in lines, Before(k, l)
    PROVE  Rank(k, lines) < Rank(l, lines)
<1>1. Ahead(k, lines) \cup {k} \subseteq Ahead(l, lines) /\ k \notin Ahead(k, lines)
  BY BeforeOrders DEF Ahead
<1>2. Cardinality(Ahead(k, lines) \cup {k}) = Cardinality(Ahead(k, lines)) + 1
  BY <1>1, RankIs, FS_AddElement
<1>3. Cardinality(Ahead(k, lines) \cup {k}) <= Cardinality(Ahead(l, lines))
  BY <1>1, RankIs, FS_Subset
<1>4. QED
  BY <1>2, <1>3, RankIs

\* Without a line, those after it rank one lower.
LEMMA RankWithout ==
    ASSUME NEW lines \in SUBSET Line, IsFiniteSet(lines), NEW x \in lines, NEW l \in lines
    PROVE  Rank(l, lines \ {x}) = IF Before(x, l) THEN Rank(l, lines) - 1 ELSE Rank(l, lines)
<1>1. lines \ {x} \in SUBSET Line /\ IsFiniteSet(lines \ {x})
  BY FS_Subset
<1>2. Ahead(l, lines \ {x}) = Ahead(l, lines) \ {x}
  BY DEF Ahead
<1>3. CASE Before(x, l)
  <2>1. x \in Ahead(l, lines)
    BY <1>3 DEF Ahead
  <2>2. Cardinality(Ahead(l, lines) \ {x}) = Cardinality(Ahead(l, lines)) - 1
    BY <2>1, RankIs, FS_RemoveElement
  <2>3. Rank(l, lines \ {x}) = 1 + Cardinality(Ahead(l, lines) \ {x})
    BY <1>1, <1>2, RankIs
  <2>4. Rank(l, lines) = 1 + Cardinality(Ahead(l, lines)) /\ Cardinality(Ahead(l, lines)) \in Nat
    BY RankIs
  <2>5. QED
    BY <1>3, <2>2, <2>3, <2>4
<1>4. CASE ~Before(x, l)
  <2>1. Ahead(l, lines) \ {x} = Ahead(l, lines)
    BY <1>4 DEF Ahead
  <2>2. QED
    BY <1>1, <1>2, <1>4, <2>1, RankIs
<1>5. QED
  BY <1>3, <1>4

LEMMA MovedWithout ==
    ASSUME NEW lines \in SUBSET Line, IsFiniteSet(lines), InOrder(lines), NEW x \in lines
    PROVE  Moved(lines \ {x}) = {l \in lines : Before(x, l)}
<1>1. ~Before(x, x)
  BY BeforeOrders
<1>2. ASSUME NEW l \in lines, l # x
      PROVE  l.pos # Rank(l, lines \ {x}) <=> Before(x, l)
  <2>1. l.pos = Rank(l, lines) /\ l.pos \in Nat
    BY DEF InOrder, Dense, Line
  <2>2. QED
    BY <2>1, RankWithout
<1>3. QED
  BY <1>1, <1>2 DEF Moved

\* Of two deletions, one has to move the line of the other.
LEMMA TwoDeletions ==
    ASSUME NEW lines \in SUBSET Line, IsFiniteSet(lines), InOrder(lines),
           NEW x \in lines, NEW y \in lines, x.id # y.id,
           y.id \notin Ids(Moved(lines \ {x}))
    PROVE  x.id \in Ids(Moved(lines \ {y}))
<1>1. ~Before(x, y)
  BY MovedWithout DEF Ids
<1>2. Before(y, x)
  BY <1>1, BeforeOrders
<1>3. x \in Moved(lines \ {y})
  BY <1>2, MovedWithout
<1>4. QED
  BY <1>3 DEF Ids

\* The gap closed.
Placed(l, lines) == [id |-> l.id, pos |-> Rank(l, lines)]
Closed(lines) == {Placed(l, lines) : l \in lines}

LEMMA ClosedInOrder ==
    ASSUME NEW lines \in SUBSET Line, IsFiniteSet(lines), UniqueIds(lines)
    PROVE  /\ Closed(lines) \in SUBSET Line /\ InOrder(Closed(lines))
           /\ Ids(Closed(lines)) = Ids(lines)
           /\ lines # {} => Closed(lines) # {}
<1>1. \A l \in lines : /\ Placed(l, lines) \in Line /\ Placed(l, lines).id = l.id
                       /\ Placed(l, lines).pos = Rank(l, lines) /\ Rank(l, lines) \in Nat
  BY RankTypes DEF Placed, Line
<1>2. Closed(lines) \in SUBSET Line /\ Ids(Closed(lines)) = Ids(lines)
  BY <1>1 DEF Closed, Ids
<1>3. UniqueIds(Closed(lines))
  BY <1>1 DEF UniqueIds, Closed
<1>4. \A k, l \in lines : Before(Placed(k, lines), Placed(l, lines)) <=> Before(k, l)
  <2> SUFFICES ASSUME NEW k \in lines, NEW l \in lines
               PROVE  Before(Placed(k, lines), Placed(l, lines)) <=> Before(k, l)
    OBVIOUS
  <2>1. CASE Before(k, l)
    BY <1>1, <2>1, RankGrows DEF Before
  <2>2. CASE Before(l, k)
    <3>1. Before(Placed(l, lines), Placed(k, lines))
      BY <1>1, <2>2, RankGrows DEF Before
    <3>2. QED
      BY <1>1, <2>2, <3>1, BeforeOrders
  <2>3. CASE ~Before(k, l) /\ ~Before(l, k)
    <3>1. k = l
      BY <2>3, BeforeOrders DEF UniqueIds
    <3>2. QED
      BY <1>1, <3>1, BeforeOrders
  <2>4. QED
    BY <2>1, <2>2, <2>3
<1>5. IsFiniteSet(Closed(lines))
  <2> DEFINE f == [l \in lines |-> Placed(l, lines)]
  <2>1. f \in Surjection(lines, Closed(lines))
    BY DEF Surjection, Closed
  <2>2. QED
    BY <2>1, FS_Surjection
<1>6. Dense(Closed(lines))
  <2> SUFFICES ASSUME NEW l \in lines
               PROVE  Rank(Placed(l, lines), Closed(lines)) = Rank(l, lines)
    BY <1>1 DEF Dense, Closed
  <2> DEFINE f == [k \in Ahead(l, lines) |-> Placed(k, lines)]
  <2>1. Ahead(Placed(l, lines), Closed(lines)) = {Placed(k, lines) : k \in Ahead(l, lines)}
    BY <1>4 DEF Ahead, Closed
  <2>2. f \in Bijection(Ahead(l, lines), Ahead(Placed(l, lines), Closed(lines)))
    <3>1. \A k, m \in Ahead(l, lines) : f[k] = f[m] => k = m
      BY <1>1 DEF UniqueIds, Ahead
    <3>2. QED
      BY <2>1, <3>1 DEF Bijection, Injection, Surjection, IsInjective
  <2>3. Cardinality(Ahead(l, lines)) = Cardinality(Ahead(Placed(l, lines), Closed(lines)))
    <3>1. ExistsBijection(Ahead(l, lines), Ahead(Placed(l, lines), Closed(lines)))
      BY <2>2 DEF ExistsBijection
    <3>2. IsFiniteSet(Ahead(l, lines))
      BY RankIs
    <3>3. QED
      BY <3>1, <3>2, FS_Bijection
  <2>4. QED
    BY <1>2, <1>5, <2>3, RankIs
<1>7. QED
  BY <1>1, <1>2, <1>3, <1>6 DEF InOrder, Closed

\* What writing the moved lines back makes of the lines that are left.
LEMMA WrittenIsClosed ==
    ASSUME NEW lines \in SUBSET Line, UniqueIds(lines)
    PROVE  LET moved == {l \in lines : l.id \in Ids(Moved(lines))} IN
           (lines \ moved) \cup {[id |-> l.id, pos |-> Rank(l, lines)] : l \in Moved(lines)}
              = Closed(lines)
<1>1. {l \in lines : l.id \in Ids(Moved(lines))} = Moved(lines)
  BY DEF Ids, Moved, UniqueIds
<1>2. \A l \in lines \ Moved(lines) : Placed(l, lines) = l
  BY DEF Moved, Placed, Line
<1>3. Moved(lines) \subseteq lines
  BY DEF Moved
<1>4. QED
  BY <1>1, <1>2, <1>3 DEF Closed, Placed

LEMMA NewLinesInOrder ==
    ASSUME made \in Nat, NEW k \in Nat \ {0}
    PROVE  InOrder(NewLines(k)) /\ NewLines(k) # {}
<1> DEFINE new(i) == [id |-> made + i, pos |-> i]
<1>1. \A i \in 1..k : new(i) \in Line /\ new(i).id = made + i /\ new(i).pos = i
  BY DEF Line, LineId
<1>2. UniqueIds(NewLines(k))
  BY <1>1 DEF UniqueIds, NewLines
<1>3. \A i, j \in 1..k : Before(new(j), new(i)) <=> j < i
  BY <1>1 DEF Before
<1>4. NewLines(k) \in SUBSET Line /\ IsFiniteSet(NewLines(k))
  BY NewLinesTypes
<1>5. ASSUME NEW i \in 1..k PROVE Rank(new(i), NewLines(k)) = i
  <2> DEFINE f == [j \in 1..(i - 1) |-> new(j)]
  <2>1. Ahead(new(i), NewLines(k)) = {new(j) : j \in 1..(i - 1)}
    <3>1. \A j \in 1..k : j < i <=> j \in 1..(i - 1)
      OBVIOUS
    <3>2. 1..(i - 1) \subseteq 1..k
      OBVIOUS
    <3>3. QED
      BY <1>3, <3>1, <3>2 DEF Ahead, NewLines
  <2>2. f \in Bijection(1..(i - 1), Ahead(new(i), NewLines(k)))
    <3>1. \A j, m \in 1..(i - 1) : f[j] = f[m] => j = m
      OBVIOUS
    <3>2. QED
      BY <2>1, <3>1 DEF Bijection, Injection, Surjection, IsInjective
  <2>3. IsFiniteSet(1..(i - 1)) /\ Cardinality(1..(i - 1)) = i - 1
    BY FS_Interval
  <2>4. Cardinality(Ahead(new(i), NewLines(k))) = i - 1
    <3>1. ExistsBijection(1..(i - 1), Ahead(new(i), NewLines(k)))
      BY <2>2 DEF ExistsBijection
    <3>2. QED
      BY <2>3, <3>1, FS_Bijection
  <2>5. QED
    BY <1>4, <2>4, RankIs
<1>6. Dense(NewLines(k))
  BY <1>1, <1>5 DEF Dense, NewLines
<1>7. new(1) \in NewLines(k)
  BY DEF NewLines
<1>8. QED
  BY <1>2, <1>6, <1>7 DEF InOrder

-----------------------------------------------------------------------------
(* Steps that write nothing.                                                *)

LEMMA HeldIs ==
    /\ \A s \in Slots : HeldLines(s) = HeldOf(req[s])
    /\ \A r : r.pc = "cleared" => HeldOf(r) = r.lines
    /\ \A r : r.pc \in {"deleted", "counted"} => HeldOf(r) = {r.line}
    /\ \A r : r.pc = "renumbered" => HeldOf(r) = {r.line} \cup Ids(Moved(r.rest))
    /\ \A r : r.pc \notin {"cleared", "deleted", "counted", "renumbered"} => HeldOf(r) = {}
BY DEF HeldLines, HeldOf

LEMMA QuietStep ==
    ASSUME FinInv, LinesKept, NEW s \in Slots, NEW r \in Request, Become(s, r), Unwritten,
           Holds(r), \A o \in Slots : o # s => HeldOf(r) \cap HeldOf(req[o]) = {}
    PROVE  LinesKept'
<1>1. /\ req'[s] = r /\ \A o \in Slots : o # s => req'[o] = req[o]
  BY BecomeTypes
<1>2. UNCHANGED <<note, invoices>> /\ Existing' = Existing
  BY DEF Unwritten, Existing
<1>3. \A n \in Notes : NoteSums(n)'
  BY <1>2 DEF LinesKept, NoteSums
<1>4. ASSUME NEW o \in Slots PROVE Holds(req[o])'
  <2>1. Holds(req'[o])
    BY <1>1 DEF LinesKept
  <2>2. QED
    BY <1>2, <2>1 DEF Holds, Left, Missing
<1>5. ASSUME NEW p \in Slots, NEW o \in Slots, p # o
      PROVE  (HeldOf(req[p]) \cap HeldOf(req[o]) = {})'
  <2>1. HeldOf(req'[p]) \cap HeldOf(req'[o]) = {}
    BY <1>1, <1>5 DEF LinesKept
  <2>2. QED
    BY <2>1 DEF HeldOf
<1>6. QED
  BY <1>2, <1>3, <1>4, <1>5 DEF LinesKept

\* A request that holds no lines and has read nothing it relies on.
LEMMA FreeStep ==
    ASSUME FinInv, LinesKept, NEW s \in Slots, NEW r \in Request, Become(s, r), Unwritten,
           r.pc \in {"idle", "numberedNote", "update", "delete", "bill", "insert", "keyed",
                     "locked"}
    PROVE  LinesKept'
<1>1. Holds(r) /\ HeldOf(r) = {}
  BY HeldIs DEF Holds
<1>2. QED
  BY <1>1, QuietStep

LEMMA GoneStep ==
    ASSUME FinInv, LinesKept, NEW s \in Slots, Leave(s), Unwritten
    PROVE  LinesKept'
BY IdleRequest, FreeStep DEF Leave

\* The rows of a step that goes on without a write are requests.
LEMMA RowOf ==
    ASSUME FinInv, FinInv', NEW s \in Slots, NEW r, Become(s, r)
    PROVE  r \in Request
BY InvTypes DEF Become, FinInv, TypeOK

LEMMA FreeSteps ==
    ASSUME FinInv, FinInv', LinesKept, NEW s \in Slots,
           \/ NumberNote(s) \/ BillNotes(s) \/ FindKey(s) \/ InsertKey(s) \/ LockNotes(s)
           \/ \E n \in Notes : UpdateNote(s, n) \/ DeleteLine(s, n)
    PROVE  LinesKept'
<1>1. Unwritten
  BY DEF NumberNote, BillNotes, FindKey, InsertKey, LockNotes, UpdateNote, DeleteLine
<1>2. PICK r : /\ Become(s, r)
               /\ r.pc \in {"idle", "numberedNote", "update", "delete", "bill", "insert",
                            "keyed", "locked"}
  <2>1. CASE NumberNote(s)
    BY <2>1 DEF NumberNote
  <2>2. CASE BillNotes(s)
    BY <2>2 DEF BillNotes
  <2>3. CASE Leave(s)
    BY <2>3, IdleRequest DEF Leave
  <2>4. CASE FindKey(s) /\ ~Leave(s)
    BY <2>4 DEF FindKey
  <2>5. CASE InsertKey(s) /\ ~Leave(s)
    BY <2>5 DEF InsertKey
  <2>6. CASE LockNotes(s)
    BY <2>6 DEF LockNotes
  <2>7. ASSUME NEW n \in Notes, UpdateNote(s, n)
        PROVE  Become(s, [pc |-> "update", note |-> n])
    BY <2>7 DEF UpdateNote
  <2>8. ASSUME NEW n \in Notes, DeleteLine(s, n)
        PROVE  \E l \in note[n].lines : Become(s, [pc |-> "delete", note |-> n, line |-> l.id])
    BY <2>8 DEF DeleteLine
  <2>9. CASE \E n \in Notes : UpdateNote(s, n)
    <3>1. PICK n \in Notes : UpdateNote(s, n)
      BY <2>9
    <3>2. Become(s, [pc |-> "update", note |-> n])
      BY <2>7, <3>1
    <3>3. QED
      BY <3>2
  <2>10. CASE \E n \in Notes : DeleteLine(s, n)
    <3>1. PICK n \in Notes : DeleteLine(s, n)
      BY <2>10
    <3>2. PICK l \in note[n].lines : Become(s, [pc |-> "delete", note |-> n, line |-> l.id])
      BY <2>8, <3>1
    <3>3. QED
      BY <3>2
  <2>11. QED
    BY <2>1, <2>2, <2>3, <2>4, <2>5, <2>6, <2>9, <2>10
<1>3. QED
  BY <1>1, <1>2, RowOf, FreeStep

LEMMA UpdateReads ==
    ASSUME FinInv, FinInv', LinesKept, NEW s \in Slots, ScanLines(s) \/ ClearLines(s)
    PROVE  LinesKept'
<1>1. Unwritten
  BY DEF ScanLines, ClearLines
<1>2. CASE ScanLines(s)
  <2> DEFINE r == [pc |-> "scanned", note |-> req[s].note,
                   lines |-> Ids(note[req[s].note].lines)]
  <2>1. Become(s, r) /\ r \in Request
    BY <1>2, RowOf DEF ScanLines
  <2>2. Holds(r) /\ HeldOf(r) = {}
    BY HeldIs DEF Holds
  <2>3. QED
    BY <1>1, <2>1, <2>2, QuietStep
<1>3. CASE ClearLines(s)
  <2> DEFINE r == [pc |-> "cleared", note |-> req[s].note,
                   lines |-> req[s].lines \cap Ids(note[req[s].note].lines)]
  <2>1. Become(s, r) /\ r \in Request
    BY <1>3, RowOf DEF ClearLines
  <2>2. Ids(note[req[s].note].lines) \subseteq req[s].lines
    BY <1>3 DEF ClearLines, At, LinesKept, Holds
  <2>3. Holds(r) /\ HeldOf(r) \subseteq req[s].lines
    BY <2>2, HeldIs DEF Holds
  <2>4. \A o \in Slots : o # s => HeldOf(r) \cap HeldOf(req[o]) = {}
    BY <1>3, <2>3, HeldIs DEF ClearLines, LinesFree
  <2>5. QED
    BY <1>1, <2>1, <2>3, <2>4, QuietStep
<1>4. QED
  BY <1>2, <1>3

LEMMA DeleteReads ==
    ASSUME FinInv, FinInv', LinesKept, NEW s \in Slots,
           TakeLine(s) \/ CountRest(s) \/ Renumber(s)
    PROVE  LinesKept'
<1>1. Unwritten
  BY DEF TakeLine, CountRest, Renumber
<1>2. CASE Leave(s)
  BY <1>1, <1>2, GoneStep
<1>3. CASE TakeLine(s) /\ ~Leave(s)
  <2> DEFINE r == [pc |-> "deleted", note |-> req[s].note, line |-> req[s].line]
  <2>1. /\ Become(s, r) /\ r \in Request
        /\ req[s].line \in Ids(note[req[s].note].lines)
    BY <1>3, RowOf DEF TakeLine
  <2>2. Holds(r) /\ HeldOf(r) = {req[s].line}
    BY <2>1, HeldIs DEF Holds
  <2>3. \A o \in Slots : o # s => HeldOf(r) \cap HeldOf(req[o]) = {}
    BY <1>3, <2>2, HeldIs DEF TakeLine, LinesFree
  <2>4. QED
    BY <1>1, <2>1, <2>2, <2>3, QuietStep
<1>4. CASE CountRest(s) /\ ~Leave(s)
  <2> DEFINE rest == {l \in note[req[s].note].lines : l.id # req[s].line}
             r == [pc |-> "counted", note |-> req[s].note, line |-> req[s].line, rest |-> rest]
  <2>1. Become(s, r) /\ r \in Request /\ rest # {} /\ req[s].pc = "deleted"
    BY <1>4, RowOf DEF CountRest, At
  <2>2. req[s].line \in Ids(note[req[s].note].lines)
    BY <2>1 DEF LinesKept, Holds
  <2>3. r.rest = Left(r)
    BY DEF Left
  <2>4. Holds(r)
    BY <2>1, <2>2, <2>3 DEF Holds
  <2>5. HeldOf(r) = {req[s].line} /\ HeldOf(req[s]) = {req[s].line}
    <3>1. r.pc = "counted" /\ r.line = req[s].line
      OBVIOUS
    <3>2. QED
      BY <2>1, <3>1, HeldIs
  <2>6. \A o \in Slots : o # s => HeldOf(r) \cap HeldOf(req[o]) = {}
    BY <2>5 DEF LinesKept
  <2>7. QED
    BY <1>1, <2>1, <2>4, <2>6, QuietStep
<1>5. CASE Renumber(s) /\ ~Leave(s)
  <2> DEFINE r == [pc |-> "renumbered", note |-> req[s].note, line |-> req[s].line,
                   rest |-> req[s].rest]
  <2>1. /\ Become(s, r) /\ r \in Request /\ req[s].pc = "counted"
        /\ Ids(Moved(req[s].rest)) \subseteq Ids(note[req[s].note].lines)
        /\ LinesFree(s, Ids(Moved(req[s].rest)))
    BY <1>5, RowOf DEF Renumber, At
  <2>2. /\ req[s].line \in Ids(note[req[s].note].lines) /\ req[s].rest # {}
        /\ req[s].rest = Left(req[s])
    BY <2>1 DEF LinesKept, Holds, Missing
  <2>3. Left(r) = Left(req[s])
    BY DEF Left
  <2>4. Holds(r) /\ HeldOf(r) = HeldOf(req[s]) \cup Ids(Moved(req[s].rest))
    BY <2>1, <2>2, <2>3, HeldIs DEF Holds
  <2>5. \A o \in Slots : o # s => HeldOf(r) \cap HeldOf(req[o]) = {}
    BY <2>1, <2>4, HeldIs DEF LinesFree, LinesKept
  <2>6. QED
    BY <1>1, <2>1, <2>4, <2>5, QuietStep
<1>6. QED
  BY <1>2, <1>3, <1>4, <1>5

LEMMA BillReads ==
    ASSUME FinInv, FinInv', LinesKept, NEW s \in Slots,
           ReadNotes(s) \/ ReadLines(s) \/ NumberInvoice(s)
    PROVE  LinesKept'
<1>1. Unwritten
  BY DEF ReadNotes, ReadLines, NumberInvoice
<1>2. CASE Leave(s)
  BY <1>1, <1>2, GoneStep
<1>3. CASE ReadNotes(s) /\ ~Leave(s)
  <2> DEFINE ids == req[s].bill.hash.ids
  <2>1. PICK c \in Customers :
           /\ \A n \in ids : note[n].status = "OPEN"
           /\ Become(s, [pc |-> "read", bill |-> req[s].bill, customer |-> c,
                         total |-> UNION {note[n].total : n \in ids}])
    BY <1>3 DEF ReadNotes
  <2> DEFINE r == [pc |-> "read", bill |-> req[s].bill, customer |-> c,
                   total |-> UNION {note[n].total : n \in ids}]
  <2>2. r \in Request
    BY <2>1, RowOf
  <2>3. ids \subseteq Existing
    <3>1. req[s].bill \in Bill
      BY <1>3, InvTypes, RequestTypes DEF ReadNotes, At, Billing
    <3>2. QED
      BY <2>1, <3>1, BillTypes DEF Existing
  <2>4. Holds(r) /\ HeldOf(r) = {}
    BY <2>3, HeldIs DEF Holds
  <2>5. QED
    BY <1>1, <2>1, <2>2, <2>4, QuietStep
<1>4. CASE ReadLines(s) /\ ~Leave(s)
  <2> DEFINE ids == req[s].bill.hash.ids
             lines == UNION {Ids(note[n].lines) : n \in ids}
             r == [pc |-> "assembled", bill |-> req[s].bill, customer |-> req[s].customer,
                   lines |-> lines, total |-> req[s].total]
  <2>1. Become(s, r) /\ r \in Request /\ req[s].pc = "read"
    BY <1>4, RowOf DEF ReadLines, At
  <2>2. req[s].total = UNION {note[n].total : n \in ids} /\ ids \subseteq Existing
    BY <2>1 DEF LinesKept, Holds
  <2>3. \A n \in ids : note[n].total = Ids(note[n].lines)
    BY <2>2 DEF LinesKept, NoteSums, Existing
  <2>4. req[s].total = lines
    BY <2>2, <2>3
  <2>5. Holds(r) /\ HeldOf(r) = {}
    BY <2>4, HeldIs DEF Holds
  <2>6. QED
    BY <1>1, <2>1, <2>5, QuietStep
<1>5. CASE NumberInvoice(s)
  <2> DEFINE r == [pc |-> "numbered", bill |-> req[s].bill,
                   invoice |-> [number |-> next.invoice, customer |-> req[s].customer,
                                lines |-> req[s].lines, total |-> req[s].total]]
  <2>1. Become(s, r) /\ r \in Request /\ req[s].pc = "assembled"
    BY <1>5, RowOf DEF NumberInvoice, At
  <2>2. Holds(r) /\ HeldOf(r) = {}
    BY <2>1, HeldIs DEF Holds, LinesKept
  <2>3. QED
    BY <1>1, <2>1, <2>2, QuietStep
<1>6. QED
  BY <1>2, <1>3, <1>4, <1>5

-----------------------------------------------------------------------------
(* Steps that write a note.                                                 *)

OfNote(r, n) ==
    r.pc \in {"scanned", "cleared", "deleted", "counted", "renumbered"} /\ r.note = n
Reads(r, n) == r.pc = "read" /\ n \in r.bill.hash.ids

\* What a write of note n leaves alone, and that the request ends with it.
WritesOnly(s, n) ==
    /\ \A m \in Notes : m # n => note'[m] = note[m]
    /\ note'[n].status # "none"
    /\ invoices' = invoices
    /\ Leave(s)

LEMMA OthersStay ==
    ASSUME FinInv, LinesKept, NEW s \in Slots, NEW n \in Notes, WritesOnly(s, n),
           NEW o \in Slots, o # s, ~OfNote(req[o], n), ~Reads(req[o], n)
    PROVE  Holds(req[o])'
<1>1. req'[o] = req[o] /\ Holds(req[o]) /\ InHand(req[o])
  BY LeftApart, InvTypes DEF WritesOnly, LinesKept
<1>2. Existing \subseteq Existing' /\ Existing \subseteq Notes
  BY DEF Existing, WritesOnly
<1>3. req[o].pc \in {"scanned", "cleared", "deleted", "counted", "renumbered"}
         => note'[req[o].note] = note[req[o].note]
  BY <1>1, <1>2 DEF OfNote, InHand, Editing, WritesOnly
<1>4. req[o].pc = "read" => \A m \in req[o].bill.hash.ids : note'[m] = note[m]
  BY <1>1, <1>2 DEF Reads, Holds, WritesOnly
<1>5. CASE req[o].pc \in {"scanned", "cleared", "deleted", "counted", "renumbered"}
  BY <1>1, <1>3, <1>5 DEF Holds, Left, Missing
<1>6. CASE req[o].pc = "read"
  <2>1. UNION {note'[m].total : m \in req[o].bill.hash.ids}
          = UNION {note[m].total : m \in req[o].bill.hash.ids}
    BY <1>4, <1>6
  <2>2. QED
    BY <1>1, <1>2, <1>6, <2>1 DEF Holds
<1>7. CASE req[o].pc \notin {"scanned", "cleared", "deleted", "counted", "renumbered", "read"}
  BY <1>1, <1>7 DEF Holds
<1>8. QED
  BY <1>5, <1>6, <1>7

LEMMA NoteWrite ==
    ASSUME FinInv, LinesKept, NEW s \in Slots, NEW n \in Notes, WritesOnly(s, n),
           InOrder(note'[n].lines), note'[n].lines # {}, note'[n].total = Ids(note'[n].lines),
           \A o \in Slots : o # s /\ OfNote(req[o], n) => Holds(req[o])',
           \A o \in Slots : o # s => ~Reads(req[o], n)
    PROVE  LinesKept'
<1>1. /\ req'[s] = Idle
      /\ \A o \in Slots : o # s => req'[o] = req[o]
  BY LeftApart DEF WritesOnly
<1>2. \A m \in Notes : NoteSums(m)'
  <2>1. TAKE m \in Notes
  <2>2. CASE m = n
    BY <2>2 DEF NoteSums
  <2>3. CASE m # n
    BY <2>3 DEF LinesKept, NoteSums, WritesOnly, Existing
  <2>4. QED
    BY <2>2, <2>3
<1>3. ASSUME NEW o \in Slots PROVE Holds(req[o])'
  <2>1. CASE o = s
    BY <1>1, <2>1, IdleRequest DEF Holds
  <2>2. CASE o # s /\ OfNote(req[o], n)
    BY <2>2
  <2>3. CASE o # s /\ ~OfNote(req[o], n)
    BY <2>3, OthersStay
  <2>4. QED
    BY <2>1, <2>2, <2>3
<1>4. ASSUME NEW p \in Slots, NEW o \in Slots, p # o
      PROVE  (HeldOf(req[p]) \cap HeldOf(req[o]) = {})'
  <2>1. HeldOf(Idle) = {}
    BY HeldIs, IdleRequest
  <2>2. HeldOf(req'[p]) \cap HeldOf(req'[o]) = {}
    BY <1>1, <1>4, <2>1 DEF LinesKept
  <2>3. QED
    BY <2>2 DEF HeldOf
<1>5. QED
  BY <1>2, <1>3, <1>4 DEF LinesKept, WritesOnly

LEMMA CreateKeeps ==
    ASSUME FinInv, LinesKept, NEW s \in Slots, CreateNote(s)
    PROVE  LinesKept'
<1>1. PICK n \in Notes \ Existing, k \in 1..MaxPerNote, status \in DraftStatuses, c \in Customers :
        note' = [note EXCEPT ![n] = Draft(req[s].number, k, status, c)]
  BY DEF CreateNote
<1>2. PICK x : x = Draft(req[s].number, k, status, c)
  OBVIOUS
<1>3. /\ x.status # "none" /\ x.lines = NewLines(k) /\ x.total = Ids(NewLines(k))
  BY <1>2 DEF Draft, DraftStatuses
<1>4. note'[n] = x /\ \A m \in Notes : m # n => note'[m] = note[m]
  BY <1>1, <1>2, InvTypes
<1>5. InOrder(NewLines(k)) /\ NewLines(k) # {}
  BY InvTypes, NewLinesInOrder
<1>6. WritesOnly(s, n)
  BY <1>3, <1>4 DEF WritesOnly, CreateNote
<1>7. \A o \in Slots : ~OfNote(req[o], n) /\ ~Reads(req[o], n)
  BY InvTypes DEF OfNote, Reads, InHand, Editing, LinesKept, Holds
<1>8. QED
  BY <1>3, <1>4, <1>5, <1>6, <1>7, NoteWrite

LEMMA WriteNoteKeeps ==
    ASSUME FinInv, LinesKept, OneUpdate, NEW s \in Slots, WriteNote(s)
    PROVE  LinesKept'
<1>1. PICK n : n = req[s].note
  OBVIOUS
<1>2. /\ req[s].pc = "cleared" /\ n \in Notes /\ NoteFree(s, n)
      /\ req[s].lines = Ids(note[n].lines)
  BY <1>1, InvTypes DEF WriteNote, At, InHand, Editing, Existing, LinesKept, Holds
<1>3. {l \in note[n].lines : l.id \notin req[s].lines} = {}
  BY <1>2 DEF Ids
<1>4. PICK k \in 1..MaxPerNote, status \in DraftStatuses, c \in Customers :
        note' = [note EXCEPT ![n] =
                   [status |-> status, number |-> note[n].number, customer |-> c,
                    lines |-> NewLines(k), total |-> Ids(NewLines(k))]]
  <2>1. PICK k \in 1..MaxPerNote, status \in DraftStatuses, c \in Customers :
          note' = [note EXCEPT ![n] =
                     [status |-> status, number |-> note[n].number, customer |-> c,
                      lines |-> {l \in note[n].lines : l.id \notin req[s].lines} \cup NewLines(k),
                      total |-> Ids(NewLines(k))]]
    BY <1>1 DEF WriteNote
  <2>2. {} \cup NewLines(k) = NewLines(k)
    OBVIOUS
  <2>3. QED
    BY <1>3, <2>1, <2>2
<1>5. /\ note'[n].status # "none" /\ note'[n].lines = NewLines(k)
      /\ note'[n].total = Ids(NewLines(k))
      /\ \A m \in Notes : m # n => note'[m] = note[m]
  BY <1>2, <1>4, InvTypes DEF DraftStatuses
<1>6. InOrder(NewLines(k)) /\ NewLines(k) # {}
  BY InvTypes, NewLinesInOrder
<1>7. WritesOnly(s, n)
  BY <1>5 DEF WritesOnly, WriteNote
<1>8. ASSUME NEW o \in Slots, o # s
      PROVE  ~OfNote(req[o], n) /\ ~Reads(req[o], n)
  <2>1. ~Reads(req[o], n)
    BY <1>2, <1>8 DEF Reads, NoteFree, HeldNotes
  <2>2. ~(req[o].pc \in {"scanned", "cleared"} /\ req[o].note = n)
    BY <1>1, <1>2, <1>8 DEF OneUpdate, Updating
  <2>3. ASSUME req[o].pc \in {"deleted", "counted", "renumbered"}, req[o].note = n
        PROVE  FALSE
    <3>1. req[o].line \in Ids(note[n].lines)
      BY <2>3 DEF LinesKept, Holds
    <3>2. req[o].line \in HeldOf(req[o]) /\ HeldOf(req[s]) = Ids(note[n].lines)
      BY <1>2, <2>3, HeldIs
    <3>3. QED
      BY <1>8, <3>1, <3>2 DEF LinesKept
  <2>4. QED
    BY <2>1, <2>2, <2>3 DEF OfNote
<1>9. QED
  BY <1>2, <1>5, <1>6, <1>7, <1>8, NoteWrite

\* What the total is written with, when the lines were not touched since they
\* were counted.
LEMMA TotalWritten ==
    ASSUME FinInv, LinesKept, NEW s \in Slots, WriteTotal(s), NEW n, n = req[s].note
    PROVE  LET rest == Left(req[s]) IN
           /\ n \in Notes /\ NoteFree(s, n) /\ req[s].pc = "renumbered"
           /\ note[n].lines \in SUBSET Line /\ IsFiniteSet(note[n].lines)
           /\ InOrder(note[n].lines)
           /\ rest # {} /\ rest = req[s].rest
           /\ note'[n].lines = Closed(rest) /\ note'[n].total = Ids(rest)
           /\ WritesOnly(s, n)
<1>1. /\ n \in Notes /\ NoteFree(s, n) /\ req[s].pc = "renumbered"
      /\ note[n] \in Note /\ note[n].status # "none"
  BY InvTypes DEF WriteTotal, At, InHand, Editing, Existing
<1>2. /\ note[n].lines \in SUBSET Line /\ IsFiniteSet(note[n].lines)
      /\ InOrder(note[n].lines)
  BY <1>1, NoteTypes DEF FinInv, FiniteLines, LinesKept, NoteSums
<1>3. PICK rest : rest = Left(req[s])
  OBVIOUS
<1>4. /\ rest = req[s].rest /\ rest # {} /\ rest = {l \in note[n].lines : l.id # req[s].line}
  BY <1>1, <1>3 DEF LinesKept, Holds, Left
<1>5. rest \in SUBSET Line /\ UniqueIds(rest)
  BY <1>2, <1>4 DEF InOrder, UniqueIds
<1>6. note' = [note EXCEPT ![n] =
                [status |-> note[n].status, number |-> note[n].number,
                 customer |-> note[n].customer, total |-> Ids(rest),
                 lines |-> (rest \ {l \in rest : l.id \in Ids(Moved(rest))}) \cup
                     {[id |-> l.id, pos |-> Rank(l, rest)] : l \in Moved(rest)}]]
  <2>1. PICK left, counted :
          left = {l \in note[n].lines : l.id # req[s].line} /\ counted = req[s].rest
    OBVIOUS
  <2>2. note' = [note EXCEPT ![n] =
                [status |-> note[n].status, number |-> note[n].number,
                 customer |-> note[n].customer, total |-> Ids(counted),
                 lines |-> (left \ {l \in left : l.id \in Ids(Moved(counted))}) \cup
                     {[id |-> l.id, pos |-> Rank(l, counted)] : l \in Moved(counted)}]]
    BY <2>1 DEF WriteTotal
  <2>3. left = rest /\ counted = rest
    BY <1>4, <2>1
  <2>4. QED
    BY <2>2, <2>3
<1>7. PICK closed : closed = Closed(rest)
  OBVIOUS
<1>8. (rest \ {l \in rest : l.id \in Ids(Moved(rest))}) \cup
          {[id |-> l.id, pos |-> Rank(l, rest)] : l \in Moved(rest)} = closed
  BY <1>5, <1>7, WrittenIsClosed
<1>9. note' = [note EXCEPT ![n] =
                [status |-> note[n].status, number |-> note[n].number,
                 customer |-> note[n].customer, total |-> Ids(rest), lines |-> closed]]
  BY <1>6, <1>8
<1>10. /\ note'[n].lines = closed /\ note'[n].total = Ids(rest)
       /\ note'[n].status = note[n].status
       /\ \A m \in Notes : m # n => note'[m] = note[m]
  BY <1>1, <1>9, InvTypes
<1>11. WritesOnly(s, n)
  BY <1>1, <1>10 DEF WritesOnly, WriteTotal
<1>12. QED
  BY <1>1, <1>2, <1>3, <1>4, <1>7, <1>10, <1>11

LEMMA WriteTotalKeeps ==
    ASSUME FinInv, LinesKept, NEW s \in Slots, WriteTotal(s)
    PROVE  LinesKept'
<1>1. PICK n, lines, rest :
        n = req[s].note /\ lines = note[n].lines /\ rest = Left(req[s])
  OBVIOUS
<1>2. /\ n \in Notes /\ NoteFree(s, n) /\ req[s].pc = "renumbered"
      /\ lines \in SUBSET Line /\ IsFiniteSet(lines) /\ InOrder(lines)
      /\ rest # {} /\ rest = req[s].rest
      /\ note'[n].lines = Closed(rest) /\ note'[n].total = Ids(rest)
      /\ WritesOnly(s, n)
  BY <1>1, TotalWritten
<1>3. PICK x \in lines : x.id = req[s].line
  BY <1>1, <1>2 DEF LinesKept, Holds, Ids
<1>4. rest = lines \ {x}
  BY <1>1, <1>2, <1>3 DEF Left, InOrder, UniqueIds
<1>5. IsFiniteSet(rest) /\ rest \in SUBSET Line /\ UniqueIds(rest)
  BY <1>2, <1>4, FS_Subset DEF InOrder, UniqueIds
<1>6. /\ InOrder(Closed(rest)) /\ Closed(rest) # {} /\ Ids(Closed(rest)) = Ids(rest)
  BY <1>2, <1>5, ClosedInOrder
<1>7. Ids(rest) = Ids(lines) \ {x.id}
  BY <1>2, <1>4 DEF Ids, InOrder, UniqueIds
<1>8. HeldOf(req[s]) = {x.id} \cup Ids(Moved(rest))
  BY <1>2, <1>3, HeldIs
<1>9. Ids(note'[n].lines) = Ids(lines) \ {x.id}
  BY <1>2, <1>6, <1>7
<1>10. ASSUME NEW o \in Slots, o # s, OfNote(req[o], n)
       PROVE  Holds(req[o])'
  <2>1. /\ req'[o] = req[o] /\ Holds(req[o]) /\ req[o].note = n
        /\ HeldOf(req[o]) \cap HeldOf(req[s]) = {}
    BY <1>2, <1>10, LeftApart DEF WritesOnly, LinesKept, OfNote
  <2>2. CASE req[o].pc = "scanned"
    <3>1. Ids(note'[n].lines) \subseteq req[o].lines
      BY <1>1, <1>9, <2>1, <2>2 DEF Holds
    <3>2. QED
      BY <2>1, <2>2, <3>1 DEF Holds
  <2>3. CASE req[o].pc = "cleared"
    <3>1. HeldOf(req[o]) = Ids(lines) /\ x.id \in Ids(lines)
      BY <1>1, <1>3, <2>1, <2>3, HeldIs DEF Holds, Ids
    <3>2. QED
      BY <1>8, <2>1, <3>1
  <2>4. CASE req[o].pc \in {"deleted", "counted", "renumbered"}
    <3>1. PICK y \in lines : y.id = req[o].line
      BY <1>1, <2>1, <2>4 DEF Holds, Ids
    <3>2. y.id \in HeldOf(req[o])
      BY <2>4, <3>1, HeldIs
    <3>3. y.id # x.id /\ y.id \notin Ids(Moved(rest))
      BY <1>8, <2>1, <3>2
    <3>4. req[o].line \in Ids(note'[n].lines)
      BY <1>9, <3>1, <3>3 DEF Ids
    <3>5. x.id \in Ids(Moved(lines \ {y}))
      BY <1>2, <1>4, <3>3, TwoDeletions
    <3>6. Left(req[o]) = lines \ {y}
      BY <1>1, <1>2, <2>1, <3>1 DEF Left, InOrder, UniqueIds
    <3>7. CASE req[o].pc = "deleted"
      BY <2>1, <3>4, <3>7 DEF Holds
    <3>8. CASE req[o].pc = "counted"
      <4>1. ~(Ids(Moved(req[o].rest)) \subseteq Ids(lines) \ {x.id})
        <5>1. CASE req[o].rest = lines \ {y}
          BY <3>5, <5>1
        <5>2. CASE Missing(req[o])
          BY <1>1, <2>1, <5>2 DEF Missing
        <5>3. QED
          BY <2>1, <3>6, <3>8, <5>1, <5>2 DEF Holds
      <4>2. Missing(req[o])'
        BY <1>9, <2>1, <4>1 DEF Missing
      <4>3. req[o].rest # {}
        BY <2>1, <3>8 DEF Holds
      <4>4. QED
        BY <2>1, <3>4, <3>8, <4>2, <4>3 DEF Holds
    <3>9. CASE req[o].pc = "renumbered"
      <4>1. req[o].rest = lines \ {y}
        BY <2>1, <3>6, <3>9 DEF Holds
      <4>2. x.id \in HeldOf(req[o])
        BY <3>5, <3>9, <4>1, HeldIs
      <4>3. QED
        BY <1>8, <2>1, <4>2
    <3>10. QED
      BY <2>4, <3>7, <3>8, <3>9
  <2>5. QED
    BY <1>10, <2>2, <2>3, <2>4 DEF OfNote
<1>11. \A o \in Slots : o # s => ~Reads(req[o], n)
  BY <1>2 DEF Reads, NoteFree, HeldNotes
<1>12. note'[n].total = Ids(note'[n].lines)
  BY <1>2, <1>6
<1>13. QED
  BY <1>2, <1>6, <1>10, <1>11, <1>12, NoteWrite

LEMMA MarkedTotals ==
    ASSUME note \in [Notes -> Note], NEW ids \in SUBSET Notes, note' = Marked(ids)
    PROVE  \A n \in Notes : note'[n].total = note[n].total
<1>1. TAKE n \in Notes
<1>2. CASE n \notin ids
  BY <1>2 DEF Marked
<1>3. CASE n \in ids
  BY <1>3 DEF Marked
<1>4. QED
  BY <1>2, <1>3

LEMMA MakesKeeps ==
    ASSUME FinInv, LinesKept, NEW s \in Slots, Makes(s)
    PROVE  LinesKept'
<1>1. PICK ids : ids = req[s].bill.hash.ids
  OBVIOUS
<1>2. /\ ids \in SUBSET Notes /\ note' = Marked(ids) /\ \A n \in ids : note[n].status = "OPEN"
      /\ Leave(s) /\ invoices' = invoices \cup {req[s].invoice} /\ req[s].pc = "numbered"
  BY <1>1, MakesTypes DEF Makes
<1>3. /\ Existing' = Existing
      /\ \A n \in Notes : note'[n].lines = note[n].lines /\ note'[n].total = note[n].total
  BY <1>2, InvTypes, MarkedTypes, MarkedTotals
<1>4. /\ req'[s] = Idle
      /\ \A o \in Slots : o # s => req'[o] = req[o]
  BY <1>2, LeftApart
<1>5. \A n \in Notes : NoteSums(n)'
  BY <1>3 DEF LinesKept, NoteSums
<1>6. \A i \in invoices' : i.total = i.lines
  BY <1>2 DEF LinesKept, Holds
<1>7. ASSUME NEW o \in Slots PROVE Holds(req[o])'
  <2>1. CASE o = s
    BY <1>4, <2>1, IdleRequest DEF Holds
  <2>2. CASE o # s
    <3>1. req'[o] = req[o] /\ Holds(req[o]) /\ InHand(req[o])
      BY <1>4, <2>2, InvTypes DEF LinesKept
    <3>2. CASE req[o].pc = "read"
      <4>1. req[o].bill.hash.ids \subseteq Notes
        BY <3>1, <3>2 DEF Holds, Existing
      <4>2. UNION {note'[m].total : m \in req[o].bill.hash.ids}
              = UNION {note[m].total : m \in req[o].bill.hash.ids}
        BY <1>3, <4>1
      <4>3. QED
        BY <1>3, <3>1, <3>2, <4>2 DEF Holds
    <3>3. CASE req[o].pc \in {"scanned", "cleared", "deleted", "counted", "renumbered"}
      <4>1. note'[req[o].note].lines = note[req[o].note].lines
        BY <1>3, <3>1, <3>3 DEF InHand, Editing, Existing
      <4>2. QED
        BY <3>1, <3>3, <4>1 DEF Holds, Left, Missing
    <3>4. CASE req[o].pc \notin {"scanned", "cleared", "deleted", "counted", "renumbered", "read"}
      BY <3>1, <3>4 DEF Holds
    <3>5. QED
      BY <3>2, <3>3, <3>4
  <2>3. QED
    BY <2>1, <2>2
<1>8. ASSUME NEW p \in Slots, NEW o \in Slots, p # o
      PROVE  (HeldOf(req[p]) \cap HeldOf(req[o]) = {})'
  <2>1. HeldOf(Idle) = {}
    BY HeldIs, IdleRequest
  <2>2. HeldOf(req'[p]) \cap HeldOf(req'[o]) = {}
    BY <1>4, <1>8, <2>1 DEF LinesKept
  <2>3. QED
    BY <2>2 DEF HeldOf
<1>9. QED
  BY <1>5, <1>6, <1>7, <1>8 DEF LinesKept

-----------------------------------------------------------------------------
(* Every step.                                                              *)

LEMMA InitLines == Init => LinesKept
<1> SUFFICES ASSUME Init PROVE LinesKept
  OBVIOUS
<1>1. /\ note = [n \in Notes |-> NoNote] /\ invoices = {} /\ req = [s \in Slots |-> Idle]
  BY DEF Init
<1>2. NoNote.lines = {} /\ NoNote.total = {} /\ NoNote.status = "none"
  BY DEF NoNote
<1>3. \A n \in Notes : NoteSums(n)
  BY <1>1, <1>2 DEF NoteSums, InOrder, UniqueIds, Dense, Ids, Existing
<1>4. Holds(Idle) /\ HeldOf(Idle) = {}
  BY HeldIs, IdleRequest DEF Holds
<1>5. QED
  BY <1>1, <1>3, <1>4 DEF LinesKept

LEMMA NextLines == FinInv /\ FinInv' /\ LinesKept /\ OneUpdate /\ [Next]_vars => LinesKept'
<1> SUFFICES ASSUME FinInv, FinInv', LinesKept, OneUpdate, [Next]_vars PROVE LinesKept'
  OBVIOUS
<1>1. CASE UNCHANGED vars
  <2>1. note' = note /\ invoices' = invoices /\ req' = req
    BY <1>1 DEF vars
  <2>2. (\A n \in Notes : NoteSums(n))' /\ (\A s \in Slots : Holds(req[s]))'
    BY <2>1 DEF LinesKept, NoteSums, Holds, Left, Missing, Existing
  <2>3. (\A s, o \in Slots : s # o => HeldOf(req[s]) \cap HeldOf(req[o]) = {})'
    BY <2>1 DEF LinesKept, HeldOf
  <2>4. QED
    BY <2>1, <2>2, <2>3 DEF LinesKept
<1>2. CASE Next
  <2>1. PICK s \in Slots :
            \/ NumberNote(s)
            \/ (\E n \in Notes : UpdateNote(s, n)) \/ ScanLines(s) \/ ClearLines(s)
            \/ (\E n \in Notes : DeleteLine(s, n)) \/ TakeLine(s) \/ CountRest(s) \/ Renumber(s)
            \/ BillNotes(s) \/ FindKey(s)
            \/ InsertKey(s)
            \/ LockNotes(s) \/ ReadNotes(s) \/ ReadLines(s)
            \/ NumberInvoice(s)
            \/ Unwritten /\ Leave(s)
            \/ CreateNote(s) \/ WriteNote(s) \/ WriteTotal(s)
            \/ Makes(s)
    BY <1>2, NextCases
  <2>2. CASE \/ NumberNote(s) \/ BillNotes(s) \/ FindKey(s) \/ InsertKey(s) \/ LockNotes(s)
             \/ \E n \in Notes : UpdateNote(s, n) \/ DeleteLine(s, n)
    BY <2>2, FreeSteps
  <2>3. CASE ScanLines(s) \/ ClearLines(s)
    BY <2>3, UpdateReads
  <2>4. CASE TakeLine(s) \/ CountRest(s) \/ Renumber(s)
    BY <2>4, DeleteReads
  <2>5. CASE ReadNotes(s) \/ ReadLines(s) \/ NumberInvoice(s)
    BY <2>5, BillReads
  <2>6. CASE Unwritten /\ Leave(s)
    BY <2>6, GoneStep
  <2>7. CASE CreateNote(s)
    BY <2>7, CreateKeeps
  <2>8. CASE WriteNote(s)
    BY <2>8, WriteNoteKeeps
  <2>9. CASE WriteTotal(s)
    BY <2>9, WriteTotalKeeps
  <2>10. CASE Makes(s)
    BY <2>10, MakesKeeps
  <2>11. QED
    BY <2>1, <2>2, <2>3, <2>4, <2>5, <2>6, <2>7, <2>8, <2>9, <2>10
<1>3. QED
  BY <1>1, <1>2

-----------------------------------------------------------------------------
(* The theorems.                                                            *)

\* While updates of one note do not overlap, what is read and written in separate
\* statements stays consistent (updateDeliveryNoteForActor,
\* deleteDeliveryNoteItemForActor, billDeliveryNotesForActor).
THEOREM LinesInvariant == Spec /\ []OneUpdate => []LinesKept
<1>1. Init => LinesKept
  BY InitLines
<1>2. FinInv /\ FinInv' /\ LinesKept /\ OneUpdate /\ [Next]_vars => LinesKept'
  BY NextLines
<1>3. QED
  BY <1>1, <1>2, FinInvariant, PTL DEF Spec

\* The total of a note is that of its lines and the total of an invoice that of the
\* lines it lists, while updates of one note do not overlap: deletions and
\* billings may (loadLockedNotes, deleteDeliveryNoteItemForActor).
THEOREM TotalsCorrect == Spec /\ []OneUpdate => []TotalsAgree
<1>1. LinesKept => TotalsAgree
  BY DEF LinesKept, NoteSums, TotalsAgree, Existing
<1>2. QED
  BY <1>1, LinesInvariant, PTL

\* No note loses its last line, however many deletions of its lines are under way
\* (deleteDeliveryNoteItemForActor), while updates of one note do not overlap.
THEOREM NotesKeepLines == Spec /\ []OneUpdate => []NoteKeepsLines
<1>1. LinesKept => NoteKeepsLines
  BY DEF LinesKept, NoteSums, NoteKeepsLines, Existing
<1>2. QED
  BY <1>1, LinesInvariant, PTL

-----------------------------------------------------------------------------
(* One slot for updates.                                                    *)

OnlyUpdaters == \A s \in Slots : req[s].pc \in Updating => s \in Updaters

LEMMA UpdatersStep == FinInv /\ OnlyUpdaters /\ [Next]_vars => OnlyUpdaters'
<1> SUFFICES ASSUME FinInv, OnlyUpdaters, [Next]_vars PROVE OnlyUpdaters'
  OBVIOUS
<1>1. CASE UNCHANGED vars
  BY <1>1 DEF vars, OnlyUpdaters
<1>2. CASE Next
  <2>1. PICK s \in Slots : Step(s)
    BY <1>2 DEF Next
  <2>2. PICK r : Become(s, r) /\ (r.pc \in Updating => s \in Updaters)
    <3>1. CASE Leave(s)
      BY <3>1, IdleRequest DEF Leave, Updating
    <3>2. CASE \E n \in Notes : UpdateNote(s, n)
      BY <3>2 DEF UpdateNote
    <3>3. CASE ScanLines(s) \/ ClearLines(s)
      <4>1. s \in Updaters
        BY <3>3 DEF ScanLines, ClearLines, At, OnlyUpdaters, Updating
      <4>2. QED
        BY <3>3, <4>1 DEF ScanLines, ClearLines
    <3>4. CASE \E n \in Notes : DeleteLine(s, n)
      BY <3>4 DEF DeleteLine, Updating
    <3>5. CASE TakeLine(s) /\ ~Leave(s)
      BY <3>5 DEF TakeLine, Updating
    <3>6. CASE CountRest(s) /\ ~Leave(s)
      BY <3>6 DEF CountRest, Updating
    <3>7. CASE Renumber(s) /\ ~Leave(s)
      BY <3>7 DEF Renumber, Updating
    <3>8. CASE NumberNote(s)
      BY <3>8 DEF NumberNote, Updating
    <3>9. CASE BillNotes(s)
      BY <3>9 DEF BillNotes, Updating
    <3>10. CASE FindKey(s) /\ ~Leave(s)
      BY <3>10 DEF FindKey, Updating
    <3>11. CASE InsertKey(s) /\ ~Leave(s)
      BY <3>11 DEF InsertKey, Updating
    <3>12. CASE LockNotes(s)
      BY <3>12 DEF LockNotes, Updating
    <3>13. CASE ReadNotes(s) /\ ~Leave(s)
      <4>1. PICK c \in Customers :
              Become(s, [pc |-> "read", bill |-> req[s].bill, customer |-> c,
                         total |-> UNION {note[n].total : n \in req[s].bill.hash.ids}])
        BY <3>13 DEF ReadNotes
      <4>2. QED
        BY <4>1 DEF Updating
    <3>14. CASE ReadLines(s) /\ ~Leave(s)
      BY <3>14 DEF ReadLines, Updating
    <3>15. CASE NumberInvoice(s)
      BY <3>15 DEF NumberInvoice, Updating
    <3>16. CASE CreateNote(s) \/ WriteNote(s) \/ WriteTotal(s) \/ CommitBill(s) \/ Abort(s)
      BY <3>1, <3>16 DEF CreateNote, WriteNote, WriteTotal, CommitBill, Abort
    <3>17. QED
      BY <2>1, <3>1, <3>2, <3>3, <3>4, <3>5, <3>6, <3>7, <3>8, <3>9, <3>10, <3>11, <3>12,
         <3>13, <3>14, <3>15, <3>16 DEF Step
  <2>3. req'[s] = r /\ \A o \in Slots : o # s => req'[o] = req[o]
    BY <2>2, InvTypes DEF Become
  <2>4. QED
    BY <2>2, <2>3 DEF OnlyUpdaters
<1>3. QED
  BY <1>1, <1>2

\* Where one slot alone serves updates, as in the run, no two of them overlap: the
\* two theorems above apply.
THEOREM OneUpdater == (\A s, o \in Updaters : s = o) /\ Spec => []OneUpdate
<1>1. Init => OnlyUpdaters
  BY IdleRequest DEF Init, OnlyUpdaters, Updating
<1>2. FinInv /\ OnlyUpdaters /\ [Next]_vars => OnlyUpdaters'
  BY UpdatersStep
<1>3. (\A s, o \in Updaters : s = o) /\ OnlyUpdaters => OneUpdate
  BY DEF OnlyUpdaters, OneUpdate
<1>4. Spec => []OnlyUpdaters
  BY <1>1, <1>2, FinInvariant, PTL DEF Spec
<1>5. (\A s, o \in Updaters : s = o) => [](\A s, o \in Updaters : s = o)
  OBVIOUS
<1>6. QED
  BY <1>3, <1>4, <1>5, PTL
=============================================================================
