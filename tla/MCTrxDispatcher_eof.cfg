\* Shutdown through the upstream closing inTransaction; no close() call.
CONSTANTS
    a1 = a1  a2 = a2  kRouted = kRouted  kOther = kOther  Nil = Nil
    NTx <- MCNTx  Blk <- MCBlk  From <- MCFrom  To <- MCTo
    Contract <- MCContract  Logs <- MCLogs  Malformed <- MCMalformed
    Addr <- MCAddr  Topics <- MCTopics  Routed <- MCRouted
    AccCap = 1  LogCap = 1  BcastCap = 1
    DbMayFail = TRUE  SourceMayClose = TRUE  OrchestratorMayClose = FALSE
SPECIFICATION FairSpec
INVARIANT TypeOK WgAccounting BarrierSafety CheckpointSound
PROPERTY SpawnedCompletes IngestRefined
\* The dispatcher stops for good once it has signed off.
CHECK_DEADLOCK FALSE
