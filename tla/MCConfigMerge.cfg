\* All embedded lists over four names, all cluster lists of up to four names.
CONSTANTS
    MaxName = 4
    MaxListed = 4
    Indexes <- MCIndexes
    Listings <- MCListings
    NoParams = NoParams
    ServicesOf <- MCServicesOf
    TypeOf <- MCTypeOf
    LevelOf <- MCLevelOf
    Queries <- MCQueries
    Unset = Unset
SPECIFICATION SearchSpec
INVARIANTS TypeOK MergeIsExact SearchIsExact
PROPERTIES Returns SearchLeavesParams
CHECK_DEADLOCK FALSE
