SPECIFICATION LookupSpec
CONSTANTS
    Slots = 3
    PageSize = 1
    Lookups <- TokenLookups
INVARIANTS SeveralWereFound
