CONSTANTS
    w1 = w1
    w2 = w2
    w3 = w3
    Nobody = Nobody
    Writers <- MCWriters
    Stores <- MCStores
    MaxStops = 2
SPECIFICATION FairSpec
INVARIANTS PassedIsOnDisk
PROPERTIES AcceptedStays PublicationEnds
