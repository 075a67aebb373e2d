CONSTANTS
    NoCursor = NoCursor
    Pks <- MCPks  Times <- MCTimes  Counts <- MCCounts
    PkFollowsCreated = TRUE
SPECIFICATION Spec
INVARIANT WindowWithinCount
