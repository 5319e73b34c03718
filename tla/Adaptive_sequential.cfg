SPECIFICATION Spec
CONSTANTS
    l1 = l1
    l2 = l2
    l3 = l3
    l3CR = l3CR
    CR = CR
    Blank = Blank
    Fragment = Fragment
    Lines <- MCLines
    Batches <- MCReplayed
    Chomped <- MCChomped
    Producers = {"p"}
    Transcoders = {"p"}
    Promoters = {}
    Cells = {"c1"}
    HotSlots = {5}
    RowGroupRows = 2
    DepthModulus = 64
    WalMayFail = FALSE
    MaxCrashes = 3
    MaxPromotions = 0
INVARIANTS
    UncommittedDurable
    DepthExact
CHECK_DEADLOCK FALSE
