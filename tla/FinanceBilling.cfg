\* Two notes of up to three lines, two customers, one key of a client beside the
\* default ones; two requests at a time, of which one at most updates a note.
CONSTANTS
    n1 = n1
    n2 = n2
    kunde = kunde
    firma = firma
    wish = wish
    c1 = c1
    c2 = c2
    Notes = {n1, n2}
    Customers = {kunde, firma}
    KeyNames = {wish}
    Slots = {c1, c2}
    Updaters = {c1}
    MaxPerNote = 3
    MaxLines = 3
SPECIFICATION Spec
SYMMETRY FinanceSymmetry
INVARIANTS
    TypeOK
    TotalsAgree
    NoteKeepsLines
    NotesNumbered
    KeyNamesInvoice
PROPERTIES
    BillsOnce
