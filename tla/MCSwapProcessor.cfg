CONSTANTS
    s1 = s1
    Slots = {s1}
    Txs = {t1}
    SlotOf <- OneSlot
    TxIndex <- FirstInBlock
    NumSwaps <- TwoSwaps
    MaxPending = 4
SPECIFICATION Spec
INVARIANTS
    TypeOK
    AnnouncedIsTracked
    NoPhantomSettlement
    AckedIsStored
PROPERTY
    HeadClosesSlot
