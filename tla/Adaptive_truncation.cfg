SPECIFICATION Spec
CONSTANTS
    l1 = l1
    l2 = l2
    l3 = l3
    l3CR = l3CR
    CR = CR
    Blank = Blank
    Fragment = Fragment
    Lines <- MCLines
    Batches <- MCBatches
    Chomped <- MCChomped
    Producers = {"p"}
    Transcoders = {"p"}
    Promoters = {}
    Cells = {"c1", "c2"}
    HotSlots = {5}
    RowGroupRows = 2
    DepthModulus = 8
    WalMayFail = FALSE
    MaxCrashes = 0
    MaxPromotions = 0
INVARIANTS
    UncommittedDurable
CHECK_DEADLOCK FALSE
