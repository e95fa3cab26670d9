SPECIFICATION Spec
CONSTANTS
    KnownTokens <- MCKnownTokens
    Metadata <- MCMetadata
    Error = Error
    Word = 16
    FeeWord = 16
    Absent = Absent
    Bad = Bad
    Empty = Empty
    Nil = Nil
    Accounts <- MCAccounts
    Updates <- MCUpdates
    Transactions <- MCTransactions
    Slots = {1}
    Times = {10}
    MaxUpdates = 4
INVARIANTS DecoderInv AmountsAreChanges OppositeTradeSameMarket ReplayDecodesSame CanonicalOrderFree

