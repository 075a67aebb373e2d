\* The specification's cancellation order: no send on a closed channel,
\* with both the upstream and the orchestrator free to stop.
CONSTANTS
    a1 = a1  a2 = a2  kRouted = kRouted  kOther = kOther  Nil = Nil
    NTx <- MCNTx  Blk <- MCBlk  From <- MCFrom  To <- MCTo
    Contract <- MCContract  Logs <- MCLogs  Malformed <- MCMalformed
    Addr <- MCAddr  Topics <- MCTopics  Routed <- MCRouted
    AccCap = 1  LogCap = 1  BcastCap = 1
    DbMayFail = FALSE  SourceMayClose = TRUE  OrchestratorMayClose = TRUE
SPECIFICATION Spec
INVARIANT NoSendOnClosedSigStop
CHECK_DEADLOCK FALSE
