CONSTANTS
    c1 = c1
    c2 = c2
    Slots = {c1, c2}
    MaxConsents = 2
    MaxPosts = 2
    MaxLate = 1
SPECIFICATION Spec
SYMMETRY SlotSymmetry
INVARIANTS
    TypeOK
    PostedOnce
    PublishedIsPosted
    PublishingIsHeld
    TokensBelong
    RevokedIsOlder
    AutomaticIsSaid
PROPERTIES
    OnlyCallbackRevives
