\* The specification's checkpoint is the highest block known processed:
\* can a tick lower it?  Database writes succeed.
CONSTANTS
    a1 = a1  a2 = a2  kRouted = kRouted  kOther = kOther  Nil = Nil
    NTx <- MCNTx  Blk <- MCBlk  From <- MCFrom  To <- MCTo
    Contract <- MCContract  Logs <- MCLogs  Malformed <- MCMalformed
    Addr <- MCAddr  Topics <- MCTopics  Routed <- MCRouted
    AccCap = 1  LogCap = 1  BcastCap = 1
    DbMayFail = FALSE  SourceMayClose = FALSE  OrchestratorMayClose = FALSE
SPECIFICATION Spec
PROPERTY CheckpointMonotone
CHECK_DEADLOCK FALSE
