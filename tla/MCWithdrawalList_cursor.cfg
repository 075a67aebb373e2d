\* Inserts keep _id and cr_time increasing: is a cursor that names a
\* stored request resolved?
CONSTANTS
    NoCursor = NoCursor
    Pks <- MCPks  Times <- MCTimes  Counts <- MCCounts
    PkFollowsCreated = TRUE
SPECIFICATION Spec
INVARIANT CursorResolves
