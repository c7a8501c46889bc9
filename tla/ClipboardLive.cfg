SPECIFICATION FairSpec
CONSTANTS
    Texts = {cut, long}
    NoText = none
    Long = {long}
    Cut = cut
    Pastes = {p1, p2}
    MaxPcCopies = 1
    MaxMacCopies = 1
    Lossy = TRUE
INVARIANT OnlyNewsComes
INVARIANT PasteIsRight
PROPERTY CopyArrives
PROPERTY PastePressed
CHECK_DEADLOCK FALSE
