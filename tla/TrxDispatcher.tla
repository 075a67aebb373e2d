--------------------------- MODULE TrxDispatcher ---------------------------
(***************************************************************************)
(* The transaction dispatcher of internal/repository/svc/dispatch_trx.go  *)
(* and the routines it talks to.                                           *)
(*                                                                         *)
(* The dispatch goroutine (dispatch/process/pushAccounts) reads events     *)
(* from inTransaction, fans every transaction out into account touches     *)
(* (queue outAccount) and logs (queue outLog), counting each in the        *)
(* transaction's sync.WaitGroup before the send, spawns one waitAndStore   *)
(* goroutine per transaction and broadcasts the transaction on             *)
(* onTransaction.  The same goroutine serves the block observer ticker     *)
(* (updateLastSeenBlock), which writes the in-memory last seen block to    *)
(* the database.  close() stops the ticker and signals sigStop.            *)
(*                                                                         *)
(* The routines at the other ends of the channels are not in this          *)
(* repository's sources; they are modelled from the specification: the   *)
(* upstream producer of inTransaction, the account consumer and the log   *)
(* dispatcher (each takes one item, handles it, calls WatchDog.Done), and *)
(* a subscriber of onTransaction.                                          *)
(***************************************************************************)
EXTENDS Integers, Sequences, FiniteSets

CONSTANTS
    NTx,          \* number of ingestion events the upstream may deliver
    Blk,          \* Blk[t]: block number of the event's block
    From,         \* From[t]: sender address
    To,           \* To[t]: recipient address or Nil
    Contract,     \* Contract[t]: created contract address or Nil
    Logs,         \* Logs[t]: the sequence of first topics of the trx logs
    Malformed,    \* events with a nil block or a nil transaction
    Addr,         \* addresses
    Topics,       \* first topics (event signatures) of logs
    Routed,       \* topics the topic router has a handler for
    Nil,          \* a nil pointer
    AccCap,       \* capacity of outAccount (trxAddressQueueCapacity)
    LogCap,       \* capacity of outLog (trxLogQueueCapacity)
    BcastCap,     \* buffer of onTransaction (made by the orchestrator)
    DbMayFail,    \* database writes may return an error
    SourceMayClose,       \* the upstream may close inTransaction
    OrchestratorMayClose  \* the orchestrator may call close()

Txs == 1..NTx

ASSUME ConstAssumption ==
    /\ NTx \in Nat
    /\ Blk \in [Txs -> Nat]
    /\ Nil \notin Addr
    /\ From \in [Txs -> Addr]
    /\ To \in [Txs -> Addr \cup {Nil}]
    /\ Contract \in [Txs -> Addr \cup {Nil}]
    /\ Logs \in [Txs -> Seq(Topics)]
    /\ Malformed \subseteq Txs
    /\ Routed \subseteq Topics
    /\ AccCap \in Nat \ {0}
    /\ LogCap \in Nat \ {0}
    /\ BcastCap \in Nat \ {0}
    /\ DbMayFail \in BOOLEAN
    /\ SourceMayClose \in BOOLEAN
    /\ OrchestratorMayClose \in BOOLEAN

(* The chain data source streams blocks in chain order (specification 1.,  *)
(* 2.): an event read later never carries a lower block.                   *)
ASSUME BlockOrder == \A s, t \in Txs : s < t => Blk[s] <= Blk[t]

(* blkObserver = atomic.NewUint64(1) in init()                             *)
InitObserved == 1

(* The durable last known block before the dispatcher writes one.         *)
NoCheckpoint == 0

(* Outcomes of a database write: TRUE is success.                          *)
DbOutcomes == IF DbMayFail THEN BOOLEAN ELSE {TRUE}

(* An account touch (eventAcc without the WaitGroup pointer and block).    *)
AccTouch(t, a, act, deploy) ==
    [trx |-> t, addr |-> a, act |-> act, deploy |-> deploy]

(* Mutant: pushAccounts without the ContractAddress == nil return: every *)
(* transaction also queues a contract touch, of a nil address when it    *)
(* created no contract.                                                    *)
AccItemsNoContractCheck(t) ==
    <<AccTouch(t, From[t], "wallet", Nil)>>
    \o (IF To[t] # Nil THEN <<AccTouch(t, To[t], "wallet", Nil)>> ELSE <<>>)
    \o <<AccTouch(t, Contract[t], "contract", t)>>

(* pushAccounts: the touches of transaction t, in the order they are sent: *)
(* the sender; the recipient if any; the created contract if any, tagged   *)
(* as a contract with the deploying transaction.                           *)
AccItems(t) ==
    <<AccTouch(t, From[t], "wallet", Nil)>>
    \o (IF To[t] # Nil THEN <<AccTouch(t, To[t], "wallet", Nil)>> ELSE <<>>)
    \o (IF Contract[t] # Nil
          THEN <<AccTouch(t, Contract[t], "contract", t)>> ELSE <<>>)

NAcc(t) == Len(AccItems(t))

(* process: the derived work items of t, accounts first, then logs.        *)
NItems(t) == NAcc(t) + Len(Logs[t])

(* A log record on outLog: the transaction and the log's index in it.     *)
LogItem(t, i) == [trx |-> t, idx |-> i]

NoItem == [trx |-> 0]

VARIABLES
    sent,         \* events the upstream has written to inTransaction
    inClosed,     \* the upstream has closed inTransaction
    next,         \* events the dispatch loop has read
    dpc,          \* where the dispatch goroutine is
    cur,          \* the event process() is working on
    fan,          \* derived items of cur already sent
    outAccount,   \* the account queue
    outLog,       \* the log queue
    outClosed,    \* outAccount and outLog are closed
    wg,           \* wg[t]: counter of t's sync.WaitGroup
    waiting,      \* transactions whose waitAndStore is blocked in wg.Wait
    finished,     \* transactions whose waitAndStore has returned
    stored,       \* transactions StoreTransaction wrote
    trxCount,     \* the transaction count estimate
    cached,       \* transactions in the ring cache
    blkObserver,  \* the in-memory last seen block
    checkpoint,   \* the last known block in the database
    tickerOn,     \* the block observer ticker runs
    tick,         \* a tick is pending in bot.C (capacity 1)
    sigStop,      \* "empty", "full" or "closed"
    closeCalled,  \* close() has been called
    panicked,     \* a send on a closed channel happened
    bcast,        \* every transaction sent on onTransaction, in order
    bread,        \* how many of them the subscriber has received
    acur,         \* the account touch the account consumer is handling
    lcur,         \* the log the log dispatcher is handling
    registered,   \* <<address, act>> pairs the account consumer recorded
    handled       \* <<t, i>>: log i of t went to its topic's handler

srcVars  == <<sent, inClosed>>
dispVars == <<next, dpc, cur, fan>>
qVars    == <<outAccount, outLog, outClosed>>
trxVars  == <<wg, waiting, finished, stored, trxCount, cached>>
blkVars  == <<blkObserver, checkpoint, tickerOn, tick>>
stopVars == <<sigStop, closeCalled, panicked>>
subVars  == <<bcast, bread>>
conVars  == <<acur, lcur, registered, handled>>
vars == <<srcVars, dispVars, qVars, trxVars, blkVars, stopVars, subVars,
          conVars>>

(* The pending derived items of t: queued, or taken and not yet Done.     *)
PendingIn(q, t) == {i \in DOMAIN q : q[i].trx = t}
Pending(t) ==
    Cardinality(PendingIn(outAccount, t)) + Cardinality(PendingIn(outLog, t))
    + (IF acur.trx = t THEN 1 ELSE 0) + (IF lcur.trx = t THEN 1 ELSE 0)

-----------------------------------------------------------------------------
(* init() and run(): empty queues, observer at 1, ticker started.         *)
Init ==
    /\ sent = 0 /\ inClosed = FALSE
    /\ next = 0 /\ dpc = "select" /\ cur = 0 /\ fan = 0
    /\ outAccount = <<>> /\ outLog = <<>> /\ outClosed = FALSE
    /\ wg = [t \in Txs |-> 0]
    /\ waiting = {} /\ finished = {} /\ stored = {}
    /\ trxCount = 0 /\ cached = {}
    /\ blkObserver = InitObserved /\ checkpoint = NoCheckpoint
    /\ tickerOn = TRUE /\ tick = FALSE
    /\ sigStop = "empty" /\ closeCalled = FALSE /\ panicked = FALSE
    /\ bcast = <<>> /\ bread = 0
    /\ acur = NoItem /\ lcur = NoItem
    /\ registered = {} /\ handled = {}

(* The upstream writes the next event to inTransaction.                    *)
SourceSend ==
    /\ ~inClosed /\ sent < NTx
    /\ sent' = sent + 1
    /\ UNCHANGED <<inClosed, dispVars, qVars, trxVars, blkVars, stopVars,
                   subVars, conVars>>

(* The upstream stops and closes inTransaction.                            *)
SourceClose ==
    /\ SourceMayClose /\ ~inClosed
    /\ inClosed' = TRUE
    /\ UNCHANGED <<sent, dispVars, qVars, trxVars, blkVars, stopVars,
                   subVars, conVars>>

(* The ticker fires; a tick is dropped while one is pending.               *)
Tick ==
    /\ tickerOn /\ ~tick
    /\ tick' = TRUE
    /\ UNCHANGED <<srcVars, dispVars, qVars, trxVars, blkObserver,
                   checkpoint, tickerOn, stopVars, subVars, conVars>>

(* close(): bot.Stop() and sigStop <- true, a panic if sigStop is closed.  *)
(* Stop() does not drain a tick already in bot.C.                          *)
Close ==
    /\ OrchestratorMayClose /\ ~closeCalled
    /\ closeCalled' = TRUE
    /\ tickerOn' = FALSE
    /\ IF sigStop = "closed"
         THEN panicked' = TRUE /\ UNCHANGED sigStop
         ELSE sigStop' = "full" /\ UNCHANGED panicked
    /\ UNCHANGED <<srcVars, dispVars, qVars, trxVars, blkObserver,
                   checkpoint, tick, subVars, conVars>>

(* dispatch's deferred sign-off: close sigStop, outAccount and outLog.    *)
SignOff ==
    /\ dpc' = "exit"
    /\ sigStop' = "closed"
    /\ outClosed' = TRUE
    /\ UNCHANGED <<outAccount, outLog>>

(* select, case <-trd.sigStop: return.                                     *)
DispatchStop ==
    /\ dpc = "select" /\ sigStop = "full"
    /\ SignOff
    /\ UNCHANGED <<srcVars, next, cur, fan, trxVars, blkVars, closeCalled,
                   panicked, subVars, conVars>>

(* select, case !ok on inTransaction: the channel is closed and drained.  *)
DispatchInClosed ==
    /\ dpc = "select" /\ inClosed /\ next = sent
    /\ SignOff
    /\ UNCHANGED <<srcVars, next, cur, fan, trxVars, blkVars, closeCalled,
                   panicked, subVars, conVars>>

(* select, case <-trd.bot.C: updateLastSeenBlock writes the observer.      *)
DispatchTick ==
    /\ dpc = "select" /\ tick
    /\ tick' = FALSE
    /\ \E ok \in DbOutcomes :
          checkpoint' = IF ok THEN blkObserver ELSE checkpoint
    /\ UNCHANGED <<srcVars, dispVars, qVars, trxVars, blkObserver, tickerOn,
                   stopVars, subVars, conVars>>

(* select, case evt := <-trd.inTransaction: a malformed event is skipped, *)
(* any other one goes to process().                                        *)
DispatchReceive ==
    /\ dpc = "select" /\ next < sent
    /\ next' = next + 1
    /\ IF next + 1 \in Malformed
         THEN UNCHANGED <<dpc, cur, fan>>
         ELSE dpc' = "fanout" /\ cur' = next + 1 /\ fan' = 0
    /\ UNCHANGED <<srcVars, qVars, trxVars, blkVars, stopVars, subVars,
                   conVars>>

(* Mutant: pushAccounts without the wg.Add(1) before the send.             *)
SendAccountNoAdd ==
    /\ dpc = "fanout" /\ fan < NAcc(cur)
    /\ Len(outAccount) < AccCap
    /\ outAccount' = Append(outAccount, AccItems(cur)[fan + 1])
    /\ fan' = fan + 1
    /\ UNCHANGED <<srcVars, next, dpc, cur, outLog, outClosed, trxVars,
                   blkVars, stopVars, subVars, conVars>>

(* Mutant: the recipient's wg.Add(1) taken out of its if, so a            *)
(* transaction without a recipient is counted once too often.             *)
SendAccountAddAlways ==
    /\ dpc = "fanout" /\ fan < NAcc(cur)
    /\ Len(outAccount) < AccCap
    /\ outAccount' = Append(outAccount, AccItems(cur)[fan + 1])
    /\ wg' = [wg EXCEPT ![cur] = @ + (IF fan = 0 /\ To[cur] = Nil THEN 2 ELSE 1)]
    /\ fan' = fan + 1
    /\ UNCHANGED <<srcVars, next, dpc, cur, outLog, outClosed, waiting,
                   finished, stored, trxCount, cached, blkVars, stopVars,
                   subVars, conVars>>

(* pushAccounts: wg.Add(1), then outAccount <- touch; blocks while full.   *)
SendAccount ==
    /\ dpc = "fanout" /\ fan < NAcc(cur)
    /\ Len(outAccount) < AccCap
    /\ outAccount' = Append(outAccount, AccItems(cur)[fan + 1])
    /\ wg' = [wg EXCEPT ![cur] = @ + 1]
    /\ fan' = fan + 1
    /\ UNCHANGED <<srcVars, next, dpc, cur, outLog, outClosed, waiting,
                   finished, stored, trxCount, cached, blkVars, stopVars,
                   subVars, conVars>>

(* process, log loop: wg.Add(1), then outLog <- record; blocks while full. *)
SendLog ==
    /\ dpc = "fanout" /\ NAcc(cur) <= fan /\ fan < NItems(cur)
    /\ Len(outLog) < LogCap
    /\ outLog' = Append(outLog, LogItem(cur, fan - NAcc(cur) + 1))
    /\ wg' = [wg EXCEPT ![cur] = @ + 1]
    /\ fan' = fan + 1
    /\ UNCHANGED <<srcVars, next, dpc, cur, outAccount, outClosed, waiting,
                   finished, stored, trxCount, cached, blkVars, stopVars,
                   subVars, conVars>>

(* Mutant: waitAndStore is spawned after pushAccounts, before the log     *)
(* loop has queued (and counted) the logs.                                 *)
SpawnBeforeLogs ==
    /\ dpc = "fanout" /\ fan = NAcc(cur)
    /\ waiting' = waiting \cup {cur}
    /\ fan' = NItems(cur)
    /\ dpc' = "bcast"
    /\ UNCHANGED <<srcVars, next, cur, qVars, wg, finished, stored,
                   trxCount, cached, blkVars, stopVars, subVars, conVars>>

(* Mutant: the block observer is advanced when waitAndStore is spawned,    *)
(* before its wg.Wait.                                                     *)
SpawnObserveEarly ==
    /\ dpc = "fanout" /\ fan = NItems(cur)
    /\ waiting' = waiting \cup {cur}
    /\ dpc' = "bcast"
    /\ blkObserver' = Blk[cur]
    /\ UNCHANGED <<srcVars, next, cur, fan, qVars, wg, finished, stored,
                   trxCount, cached, checkpoint, tickerOn, tick, stopVars,
                   subVars, conVars>>

(* process: go trd.waitAndStore(evt, &wg) once every item is queued.       *)
Spawn ==
    /\ dpc = "fanout" /\ fan = NItems(cur)
    /\ waiting' = waiting \cup {cur}
    /\ dpc' = "bcast"
    /\ UNCHANGED <<srcVars, next, cur, fan, qVars, wg, finished, stored,
                   trxCount, cached, blkVars, stopVars, subVars, conVars>>

(* process: trd.onTransaction <- evt.trx; blocks while the buffer is full. *)
Broadcast ==
    /\ dpc = "bcast"
    /\ Len(bcast) - bread < BcastCap
    /\ bcast' = Append(bcast, cur)
    /\ dpc' = "select"
    /\ UNCHANGED <<srcVars, next, cur, fan, qVars, trxVars, blkVars,
                   stopVars, bread, conVars>>

(* Mutant: waitAndStore without wg.Wait.                                   *)
WaitAndStoreNoWait(t) ==
    /\ t \in waiting
    /\ waiting' = waiting \ {t}
    /\ finished' = finished \cup {t}
    /\ \E ok \in DbOutcomes :
          stored' = IF ok THEN stored \cup {t} ELSE stored
    /\ trxCount' = trxCount + 1
    /\ cached' = cached \cup {t}
    /\ blkObserver' = Blk[t]
    /\ UNCHANGED <<srcVars, dispVars, qVars, wg, checkpoint, tickerOn, tick,
                   stopVars, subVars, conVars>>

(* waitAndStore: past wg.Wait, StoreTransaction (may fail, only logged),  *)
(* IncTrxCountEstimate(1), CacheTransaction, blkObserver.Store(block).     *)
WaitAndStore(t) ==
    /\ t \in waiting /\ wg[t] = 0
    /\ waiting' = waiting \ {t}
    /\ finished' = finished \cup {t}
    /\ \E ok \in DbOutcomes :
          stored' = IF ok THEN stored \cup {t} ELSE stored
    /\ trxCount' = trxCount + 1
    /\ cached' = cached \cup {t}
    /\ blkObserver' = Blk[t]
    /\ UNCHANGED <<srcVars, dispVars, qVars, wg, checkpoint, tickerOn, tick,
                   stopVars, subVars, conVars>>

(* The subscriber receives the next broadcast transaction.                *)
SubscriberRead ==
    /\ bread < Len(bcast)
    /\ bread' = bread + 1
    /\ UNCHANGED <<srcVars, dispVars, qVars, trxVars, blkVars, stopVars,
                   bcast, conVars>>

(* The account consumer takes the next touch off outAccount.               *)
AccTake ==
    /\ acur = NoItem /\ outAccount # <<>>
    /\ acur' = Head(outAccount)
    /\ outAccount' = Tail(outAccount)
    /\ UNCHANGED <<srcVars, dispVars, outLog, outClosed, trxVars, blkVars,
                   stopVars, subVars, lcur, registered, handled>>

(* The account consumer records the account, then WatchDog.Done().         *)
AccDone ==
    /\ acur # NoItem
    /\ registered' = registered \cup {<<acur.addr, acur.act>>}
    /\ wg' = [wg EXCEPT ![acur.trx] = @ - 1]
    /\ acur' = NoItem
    /\ UNCHANGED <<srcVars, dispVars, qVars, waiting, finished, stored,
                   trxCount, cached, blkVars, stopVars, subVars, lcur,
                   handled>>

(* The log dispatcher takes the next log off outLog.                       *)
LogTake ==
    /\ lcur = NoItem /\ outLog # <<>>
    /\ lcur' = Head(outLog)
    /\ outLog' = Tail(outLog)
    /\ UNCHANGED <<srcVars, dispVars, outAccount, outClosed, trxVars,
                   blkVars, stopVars, subVars, acur, registered, handled>>

(* The log dispatcher routes the log by its first topic (an unknown topic *)
(* is dropped), then WatchDog.Done() in either case.                       *)
LogDone ==
    /\ lcur # NoItem
    /\ handled' = IF Logs[lcur.trx][lcur.idx] \in Routed
                    THEN handled \cup {<<lcur.trx, lcur.idx>>}
                    ELSE handled
    /\ wg' = [wg EXCEPT ![lcur.trx] = @ - 1]
    /\ lcur' = NoItem
    /\ UNCHANGED <<srcVars, dispVars, qVars, waiting, finished, stored,
                   trxCount, cached, blkVars, stopVars, subVars, acur,
                   registered>>

Dispatcher ==
    \/ DispatchStop \/ DispatchInClosed \/ DispatchTick \/ DispatchReceive
    \/ SendAccount \/ SendLog \/ Spawn \/ Broadcast

Consumers == AccTake \/ AccDone \/ LogTake \/ LogDone

Environment == SourceSend \/ SourceClose \/ Tick \/ Close \/ SubscriberRead

Next ==
    \/ Dispatcher
    \/ \E t \in Txs : WaitAndStore(t)
    \/ Consumers
    \/ Environment

(* Go schedules every runnable goroutine: the dispatch loop, each         *)
(* waitAndStore and the two consumer loops.  The upstream, the ticker,    *)
(* the orchestrator and the subscriber are not obliged to act.            *)
Fairness ==
    /\ WF_vars(Dispatcher)
    /\ \A t \in Txs : WF_vars(WaitAndStore(t))
    /\ WF_vars(AccTake) /\ WF_vars(AccDone)
    /\ WF_vars(LogTake) /\ WF_vars(LogDone)

Spec == Init /\ [][Next]_vars

FairSpec == Spec /\ Fairness

-----------------------------------------------------------------------------
AccTouches == [trx : Txs, addr : Addr, act : {"wallet", "contract"},
               deploy : Txs \cup {Nil}]
LogRecords == [trx : Txs, idx : Nat \ {0}]

(* The Boolean flags.                                                      *)
TypeFlags ==
    /\ inClosed \in BOOLEAN /\ outClosed \in BOOLEAN
    /\ tickerOn \in BOOLEAN /\ tick \in BOOLEAN
    /\ closeCalled \in BOOLEAN /\ panicked \in BOOLEAN

(* Counters, positions, queues and sets.                                   *)
TypeData ==
    /\ sent \in 0..NTx /\ next \in 0..NTx
    /\ dpc \in {"select", "fanout", "bcast", "exit"}
    /\ cur \in 0..NTx /\ fan \in Nat
    /\ (dpc \in {"fanout", "bcast"}) => cur \in Txs
    /\ outAccount \in Seq(AccTouches) /\ outLog \in Seq(LogRecords)
    /\ wg \in [Txs -> Int]
    /\ waiting \subseteq Txs /\ finished \subseteq Txs
    /\ stored \subseteq Txs /\ cached \subseteq Txs /\ trxCount \in Nat
    /\ blkObserver \in Nat /\ checkpoint \in Nat
    /\ sigStop \in {"empty", "full", "closed"}
    /\ bcast \in Seq(Txs) /\ bread \in Nat
    /\ acur \in AccTouches \cup {NoItem} /\ lcur \in LogRecords \cup {NoItem}
    /\ registered \subseteq Addr \X {"wallet", "contract"}
    /\ handled \subseteq Txs \X (Nat \ {0})

(* Every variable holds a value of its kind.                               *)
TypeOK == TypeFlags /\ TypeData

(* The WaitGroup of every transaction counts exactly its derived items    *)
(* that are queued or being handled: wg.Add(1) precedes each send and     *)
(* each consumer calls Done once per item, so the counter is never        *)
(* negative and reaches zero only when no work of t is left.               *)
WgAccounting == \A t \in Txs : wg[t] = Pending(t)

(* The completion barrier of waitAndStore: when a transaction is stored,  *)
(* every account it touches has been recorded and every log of it with a  *)
(* known topic has gone through its handler.                               *)
BarrierSafety ==
    \A t \in finished :
        /\ \A k \in 1..NAcc(t) :
              <<AccItems(t)[k].addr, AccItems(t)[k].act>> \in registered
        /\ \A i \in 1..Len(Logs[t]) :
              Logs[t][i] \in Routed => <<t, i>> \in handled

(* The last known block written by updateLastSeenBlock is the block of a  *)
(* transaction whose waitAndStore has completed, or one of the initial   *)
(* values (nothing written yet, or the observer's initial 1).             *)
CheckpointSound ==
    checkpoint \in {NoCheckpoint, InitObserved} \cup {Blk[t] : t \in finished}

(* The inductive strengthening of CheckpointSound: the in-memory block    *)
(* observer, which updateLastSeenBlock copies, only ever holds the block  *)
(* of a completed waitAndStore or its initial value.                       *)
ObserverSound ==
    blkObserver \in {InitObserved} \cup {Blk[t] : t \in finished}

CheckpointInv == TypeOK /\ ObserverSound /\ CheckpointSound

(* Every spawned waitAndStore goroutine eventually gets past wg.Wait and  *)
(* stores its transaction: the consumers signal every item of it.         *)
SpawnedCompletes == \A t \in Txs : t \in waiting ~> t \in finished

(* The specification (5. Cancellation): channels are closed only after    *)
(* their producers have stopped, so close() never sends on a closed       *)
(* sigStop.                                                                *)
NoSendOnClosedSigStop == ~panicked

(* The specification (3. DATA MODEL, 9.): the checkpoint is the highest  *)
(* block known fully processed, so a write of updateLastSeenBlock never   *)
(* lowers it.                                                              *)
CheckpointMonotone == [][checkpoint' >= checkpoint]_checkpoint

-----------------------------------------------------------------------------
(* The refinement of TrxIngest.  The items of t issued so far: none before *)
(* t is read or when it is malformed, fan while process() is sending the  *)
(* items of t, all of them once process() is past the fan-out.  The items *)
(* completed are the issued ones no longer pending, i.e. those whose      *)
(* consumer has called Done.                                               *)
IssuedCount(t) ==
    IF t > next \/ t \in Malformed THEN 0
    ELSE IF t = cur /\ dpc = "fanout" THEN fan
    ELSE NItems(t)

Ingest == INSTANCE TrxIngest WITH
    Work <- [t \in Txs |-> NItems(t)],
    read <- next,
    issued <- [t \in Txs |-> IssuedCount(t)],
    completed <- [t \in Txs |-> IssuedCount(t) - Pending(t)],
    persisted <- finished

(* The dispatcher implements TrxIngest under the goroutines' fairness:    *)
(* process() reads the next event only after queueing every item of the  *)
(* last one, each Done completes one issued item, and waitAndStore        *)
(* persists a transaction once, after all its items completed.  Each of  *)
(* these also eventually happens.                                          *)
IngestRefined == Ingest!Spec

-----------------------------------------------------------------------------
(* The inductive strengthening of BarrierSafety.  Every derived item that *)
(* process() has sent is queued, held by its consumer, or handled; the    *)
(* dispatch goroutine works on the last event read, and a spawned         *)
(* waitAndStore belongs to an event whose items have all been sent.       *)
AccHeld(a) == (\E i \in DOMAIN outAccount : outAccount[i] = a) \/ acur = a
LogHeld(l) == (\E i \in DOMAIN outLog : outLog[i] = l) \/ lcur = l

AccRecorded(t, k) ==
    <<AccItems(t)[k].addr, AccItems(t)[k].act>> \in registered
LogRecorded(t, i) == Logs[t][i] \in Routed => <<t, i>> \in handled

(* process() works on the last event read; a spawned waitAndStore        *)
(* belongs to a well-formed event read before, whose items are all sent.  *)
DispatchOnLast ==
    /\ dpc \in {"fanout", "bcast"} => cur = next /\ cur \notin Malformed
    /\ dpc = "fanout" => fan <= NItems(cur) /\ cur \notin waiting \cup finished
    /\ waiting \cup finished \subseteq 1..next \ Malformed

(* Every sent account touch is queued, held, or recorded.                  *)
AccAccounted ==
    \A t \in Txs : \A k \in 1..NAcc(t) :
        k <= IssuedCount(t) => AccHeld(AccItems(t)[k]) \/ AccRecorded(t, k)

(* Every sent log is queued, held, or went through its handler.            *)
LogAccounted ==
    \A t \in Txs : \A i \in 1..Len(Logs[t]) :
        NAcc(t) + i <= IssuedCount(t) =>
            LogHeld(LogItem(t, i)) \/ LogRecorded(t, i)

BarrierInv ==
    DispatchOnLast /\ AccAccounted /\ LogAccounted /\ BarrierSafety

=============================================================================
