SPECIFICATION FairStoreSpec
CONSTANTS
    w1 = w1
    w2 = w2
    i1 = i1
    i2 = i2
    Writer <- TwoWriters
    Id <- TwoIds
    IdOf <- FreshIds
    None = None
    Fault = {"io"}
INVARIANTS
    AtRestThePairIsWhole
PROPERTIES
    ManifestResolves
    ImplementsAtomicDataset
CHECK_DEADLOCK FALSE
