SPECIFICATION Spec
CONSTANTS
    MaxRounds = 3
    MaxParts = 3
    MaxRecord = 2
    Aids <- SomeAids
    Name <- SomeNames
    Cards <- SomeCards
INVARIANTS
    ListMatchesCard
PROPERTIES
    ImplementsDiscovery
    DiscoveryReturns
