\* One crash, database writes succeed: does the restarted process write a
\* last known block below the one it resumed from?
CONSTANTS
    a1 = a1  a2 = a2  kRouted = kRouted  kOther = kOther  Nil = Nil
    NTx <- MCNTx  Blk <- MCBlk  From <- MCFrom  To <- MCTo
    Contract <- MCContract  Logs <- MCLogs  Malformed <- MCMalformed
    Addr <- MCAddr  Topics <- MCTopics  Routed <- MCRouted
    AccCap = 1  LogCap = 1  BcastCap = 1
    DbMayFail = FALSE  SourceMayClose = FALSE  OrchestratorMayClose = FALSE
    MaxRestarts = 1
SPECIFICATION RSpec
INVARIANT CheckpointKeptAcrossRestart
CHECK_DEADLOCK FALSE
