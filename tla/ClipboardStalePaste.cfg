SPECIFICATION Spec
CONSTANTS
    Texts = {a, b}
    NoText = none
    Long = {}
    Cut = a
    Pastes = {p1}
    MaxPcCopies = 1
    MaxMacCopies = 1
    Lossy = FALSE
INVARIANT QuietPasteIsRight
CHECK_DEADLOCK FALSE
