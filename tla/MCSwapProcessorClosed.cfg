CONSTANTS
    s1 = s1
    Slots = {s1}
    Txs = {t1}
    SlotOf <- OneSlot
    TxIndex <- FirstInBlock
    NumSwaps <- TwoSwaps
    MaxPending = 2
SPECIFICATION Spec
INVARIANT
    ClosedSlotIsComplete
