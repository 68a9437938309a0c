SPECIFICATION TreeSpec
CONSTANTS
    c1 = c1
    c2 = c2
    Filters <- SomeFilters
    Malformed <- SomeMalformed
    Topics <- SomeTopics
    Subscribers <- SomeSubscribers
    MaxEntries = 3
SYMMETRY Symmetry
INVARIANTS
    TreeTypeOK
    WalkIsVisited
    FindsEveryMatch
    FindsPrefixMatches
PROPERTIES
    ImplementsTable
