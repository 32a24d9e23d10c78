CONSTANT DatabaseInfo <- MCDatabaseInfo
CONSTANT Ids <- MCIds
CONSTANT Collation <- MCCollation
CONSTANT IntBits = 8
CONSTANT Users = {"", "1", "2"}
CONSTANT FirstRows <- MCFirstRows
CONSTANT Requests <- MCRequests
CONSTANT HelperCalls <- MCHelperCalls
CONSTANT MaxOpen = 1
CONSTANT MaxWrites = 2
SPECIFICATION AccessSpec
INVARIANT ReadsAreExact
PROPERTY GrantsChangeThroughAuthority
INVARIANT AuthorityIsConsistent
PROPERTY WritesAreWhole
CHECK_DEADLOCK FALSE
