SPECIFICATION Spec
CONSTANTS
    l1 = l1
    l2 = l2
    l3 = l3
    l3CR = l3CR
    CR = CR
    Blank = Blank
    Fragment = Fragment
    Lines <- MCLines
    Batches <- MCLongBatches
    Chomped <- MCChomped
    Producers = {"p"}
    Transcoders = {"w", "x"}
    Promoters = {"m"}
    Cells = {"c1", "c2"}
    HotSlots = {5}
    RowGroupRows = 2
    DepthModulus = 8
    WalMayFail = TRUE
    MaxCrashes = 0
    MaxPromotions = 2
INVARIANTS
    CellsKeepTheirBatch
CHECK_DEADLOCK FALSE
