SPECIFICATION FairLookupSpec
CONSTANTS
    Slots = 4
    PageSize = 2
    Lookups <- AllLookups
INVARIANTS FoundIfThere
PROPERTIES LookupEnds
