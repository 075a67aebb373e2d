CONSTANTS
    NoCursor = NoCursor
    Pks <- MCPks  Times <- MCTimes  Counts <- MCCounts
    PkFollowsCreated = FALSE
SPECIFICATION Spec
INVARIANT TypeOK WindowNewestFirst
