SPECIFICATION Spec
CONSTANTS
    k1 = k1
    k2 = k2
    Keys = {k1, k2}
    Foreign = Foreign
    Garbled = Garbled
    Nobody = Nobody
    NoLimit = NoLimit
    NotDecimal = NotDecimal
    NoBound = NoBound
    Unreadable = Unreadable
    text = text
    none = none
    one = one
    both = both
    Compare <- MCCompare
    NoGrants = 0
    GrantSets <- MCGrantSets
    MaxHops = 3
    Casts <- MCCasts
    Within <- MCWithin
    Decidable <- MCDecidable
    CeilingOf <- MCCeilingOf
    May <- MCMay
    Operations <- MCOperations
CHECK_DEADLOCK FALSE
INVARIANTS VerifiedStands MintedHolds OpinionsAgree ScopeReadsTheLeaf
