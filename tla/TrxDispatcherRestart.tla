------------------------ MODULE TrxDispatcherRestart ------------------------
(***************************************************************************)
(* The transaction dispatcher across a crash of the API server.  A crash   *)
(* loses every goroutine, channel and in-memory value; what the database  *)
(* holds survives: the stored transactions, the account and log handler   *)
(* effects, and the last known block.  The restarted process runs init()  *)
(* and run() again (blkObserver back to 1, a new ticker, new channels),    *)
(* and the block scanner, which is not in this repository, resumes after  *)
(* the persisted last known block (specification 3. and 6.).              *)
(*                                                                         *)
(* finished is kept as a history: the transactions whose waitAndStore has  *)
(* completed in any run of the process.                                    *)
(***************************************************************************)
EXTENDS TrxDispatcher

CONSTANT MaxRestarts  \* bound on the number of crashes

VARIABLES
    restarts,  \* crashes so far
    resumed    \* the last known block the running process started from

rvars == <<vars, restarts, resumed>>

(* The events the scanner will not deliver again after a restart: those   *)
(* of blocks at or below the last known block.  The scanner delivers in   *)
(* block order (ConstAssumption), so they are the first ResumeAfter ones.  *)
ResumeAfter == Cardinality({t \in Txs : Blk[t] <= checkpoint})

RInit == Init /\ restarts = 0 /\ resumed = NoCheckpoint

(* The process dies at any point and is started again.                    *)
Restart ==
    /\ restarts < MaxRestarts
    /\ restarts' = restarts + 1
    /\ resumed' = checkpoint
    /\ sent' = ResumeAfter /\ inClosed' = FALSE
    /\ next' = ResumeAfter /\ dpc' = "select" /\ cur' = 0 /\ fan' = 0
    /\ outAccount' = <<>> /\ outLog' = <<>> /\ outClosed' = FALSE
    /\ wg' = [t \in Txs |-> 0] /\ waiting' = {} /\ cached' = {}
    /\ blkObserver' = InitObserved /\ tickerOn' = TRUE /\ tick' = FALSE
    /\ sigStop' = "empty" /\ closeCalled' = FALSE
    /\ bcast' = <<>> /\ bread' = 0
    /\ acur' = NoItem /\ lcur' = NoItem
    /\ UNCHANGED <<finished, stored, trxCount, checkpoint, panicked,
                   registered, handled>>

RNext == (Next /\ UNCHANGED <<restarts, resumed>>) \/ Restart

RSpec == RInit /\ [][RNext]_rvars

-----------------------------------------------------------------------------
(* No transaction is lost: a well-formed event the scanner will not       *)
(* deliver again (it was read, and a restart resumes after it) is stored, *)
(* or is still in the hands of process() or of its waitAndStore.          *)
NoLostTransaction ==
    \A t \in Txs \ Malformed :
        t <= next =>
            \/ t \in stored \/ t \in waiting
            \/ t = cur /\ dpc \in {"fanout", "bcast"}


(* The specification (3., 4.4, 6.): the checkpoint is the highest block   *)
(* known fully processed, read at startup to resume.  A restarted process *)
(* never writes a last known block below the one it resumed from; in the  *)
(* code init() sets blkObserver to 1 and updateLastSeenBlock writes it.    *)
CheckpointKeptAcrossRestart == checkpoint >= resumed

=============================================================================
