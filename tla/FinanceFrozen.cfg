\* One note and two requests: an edit that was checked before the note was billed.
CONSTANTS
    n1 = n1
    kunde = kunde
    c1 = c1
    c2 = c2
    Notes = {n1}
    Customers = {kunde}
    KeyNames = {}
    Slots = {c1, c2}
    Updaters = {c1}
    MaxPerNote = 2
    MaxLines = 3
SPECIFICATION Spec
PROPERTY
    FrozenWhenBilled
