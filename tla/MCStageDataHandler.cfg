SPECIFICATION FairSpec
CONSTANTS
    Entry <- MCEntry
    MaxStored = 2
    Amount <- MCAmount
    SizeModulus = 1024
INVARIANTS
    TypeOK
    InOrder
    QueueWaitsForGap
PROPERTIES
    CompletePrefixDelivered
    ImplementsOrderedDelivery
