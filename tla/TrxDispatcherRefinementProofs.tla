------------------- MODULE TrxDispatcherRefinementProofs -------------------
(***************************************************************************)
(* The dispatcher implements the safety part of TrxIngest under the       *)
(* refinement mapping of TrxDispatcher (Ingest): reading an event is Read, *)
(* a send of the fan-out is Issue, a consumer's Done is Complete and      *)
(* waitAndStore past wg.Wait is Persist; every other step leaves the     *)
(* mapped state alone.  The mapping counts the completed items of t as   *)
(* IssuedCount(t) - Pending(t); with WgAccounting this is                 *)
(* IssuedCount(t) - wg[t], which each step changes by the WaitGroup's      *)
(* Add and Done alone.                                                     *)
(***************************************************************************)
EXTENDS TrxDispatcherBarrierProofs

(* No transaction is both waiting in waitAndStore and finished.            *)
WaitingApart == waiting \cap finished = {}

(* The mapped completed counts read through the WaitGroup counters.       *)
LEMMA CompletedByWg ==
    ASSUME WgAccounting, WgAccounting'
    PROVE  /\ [t \in Txs |-> IssuedCount(t) - Pending(t)]
                 = [t \in Txs |-> IssuedCount(t) - wg[t]]
           /\ [t \in Txs |-> IssuedCount(t) - Pending(t)]'
                 = [t \in Txs |-> IssuedCount(t)' - wg'[t]]
BY DEF WgAccounting

(* Every event's count of items sent is a natural number.                 *)
LEMMA IssuedNat ==
    ASSUME TypeOK, NEW t \in Txs
    PROVE  IssuedCount(t) \in Nat
<1>1. NItems(t) \in Nat /\ fan \in Nat
  BY AccItemsType, ConstAssumption DEF NItems, NAcc, TypeOK, TypeData
<1>2. QED BY <1>1 DEF IssuedCount

(* A step that keeps the read position, the items sent, the WaitGroups    *)
(* and the finished set is a stuttering step of TrxIngest.                 *)
LEMMA RefStutter ==
    ASSUME WgAccounting, WgAccounting',
           UNCHANGED <<next, cur, fan, wg, finished>>,
           \/ dpc' = dpc
           \/ dpc' # "fanout" /\ (dpc # "fanout" \/ fan = NItems(cur))
    PROVE  UNCHANGED Ingest!avars
<1>1. \A t \in Txs : IssuedCount(t)' = IssuedCount(t)
  BY IssuedFrame
<1>2. QED BY <1>1, CompletedByWg DEF Ingest!avars

(* select, case evt := <-trd.inTransaction is Read: process() has sent  *)
(* every item of the last event before the loop selects again.            *)
LEMMA RefRead ==
    ASSUME TypeOK, WgAccounting, WgAccounting', DispatchReceive
    PROVE  Ingest!Read
<1>1. /\ dpc = "select" /\ next' = next + 1 /\ next < NTx /\ next \in Nat
      /\ UNCHANGED <<wg, finished>>
  BY ConstAssumption DEF DispatchReceive, TypeOK, TypeData, trxVars
<1>2. next = 0 \/ next \in Malformed \/ IssuedCount(next) = NItems(next)
  BY <1>1, ConstAssumption DEF IssuedCount
<1>3. next # 0 => next \in Txs
  BY <1>1 DEF Txs, TypeOK, TypeData
<1>4. \A t \in Txs : IssuedCount(t)' = IssuedCount(t)
  BY ReceiveIssued
<1>5. QED
  BY <1>1, <1>2, <1>3, <1>4, CompletedByWg
  DEF Ingest!Read, Ingest!LastFannedOut, Ingest!Txs

(* A send of pushAccounts or of the log loop is Issue: wg.Add(1) counts   *)
(* the item sent, so the mapped completed count does not move.            *)
LEMMA RefIssue ==
    ASSUME TypeOK, WgAccounting, WgAccounting', BarrierInv,
           dpc = "fanout", UNCHANGED <<next, dpc, cur, finished>>,
           fan < NItems(cur), fan' = fan + 1, wg' = [wg EXCEPT ![cur] = @ + 1]
    PROVE  Ingest!Issue
<1>1. /\ cur = next /\ cur \in Txs \ Malformed /\ IssuedCount(cur) = fan
      /\ \A t \in Txs :
            IssuedCount(t)' = IF t = cur THEN fan + 1 ELSE IssuedCount(t)
  BY SendIssued DEF BarrierInv
<1>2. wg \in [Txs -> Int] /\ \A t \in Txs : IssuedCount(t) \in Nat
  BY IssuedNat DEF TypeOK, TypeData
<1>3. [t \in Txs |-> IssuedCount(t)][next] < [t \in Txs |-> NItems(t)][next]
  BY <1>1
<1>4. [t \in Txs |-> IssuedCount(t)]' = [[t \in Txs |-> IssuedCount(t)]
                                         EXCEPT ![next] = @ + 1]
  BY <1>1
<1>5. [t \in Txs |-> IssuedCount(t)' - wg'[t]]
        = [t \in Txs |-> IssuedCount(t) - wg[t]]
  BY <1>1, <1>2
<1>6. [t \in Txs |-> IssuedCount(t) - Pending(t)]'
        = [t \in Txs |-> IssuedCount(t) - Pending(t)]
  BY <1>5, CompletedByWg
<1>7. QED
  BY <1>1, <1>3, <1>4, <1>6 DEF Ingest!Issue, Ingest!Txs, Txs

LEMMA RefSendAccount ==
    ASSUME TypeOK, WgAccounting, WgAccounting', BarrierInv, SendAccount
    PROVE  Ingest!Issue
<1>1. NAcc(cur) \in Nat /\ NItems(cur) \in Nat /\ NAcc(cur) <= NItems(cur)
  BY AccItemsType, ConstAssumption DEF NItems, NAcc, SendAccount, TypeOK,
     TypeData
<1>2. /\ dpc = "fanout" /\ UNCHANGED <<next, dpc, cur, finished>>
      /\ fan < NItems(cur) /\ fan' = fan + 1 /\ wg' = [wg EXCEPT ![cur] = @ + 1]
  BY <1>1 DEF SendAccount, trxVars, TypeOK, TypeData
<1>3. QED BY <1>2, RefIssue

LEMMA RefSendLog ==
    ASSUME TypeOK, WgAccounting, WgAccounting', BarrierInv, SendLog
    PROVE  Ingest!Issue
BY RefIssue DEF SendLog, trxVars

(* A consumer's WatchDog.Done() is Complete for the transaction of the   *)
(* item it holds: that item is issued and not yet completed.               *)
LEMMA RefComplete ==
    ASSUME TypeOK, WgAccounting, WgAccounting', NEW t \in Txs,
           \/ acur # NoItem /\ acur.trx = t
           \/ lcur # NoItem /\ lcur.trx = t,
           wg' = [wg EXCEPT ![t] = @ - 1],
           UNCHANGED <<next, dpc, cur, fan, finished>>
    PROVE  Ingest!Complete(t)
<1>1. Pending(t) > 0
  <2>1. /\ Cardinality(PendingIn(outAccount, t)) \in Nat
        /\ Cardinality(PendingIn(outLog, t)) \in Nat
    BY WgTypes, PendingInNat
  <2>2. QED BY <2>1 DEF Pending
<1>2. \A u \in Txs : IssuedCount(u)' = IssuedCount(u)
  BY IssuedFrame
<1>3. wg \in [Txs -> Int] /\ \A u \in Txs : IssuedCount(u) \in Nat
  BY IssuedNat DEF TypeOK, TypeData
<1>4. [u \in Txs |-> IssuedCount(u)' - wg'[u]]
        = [[u \in Txs |-> IssuedCount(u) - wg[u]] EXCEPT ![t] = @ + 1]
  <2>1. \A u \in Txs : IssuedCount(u)' - wg'[u]
                       = IF u = t THEN (IssuedCount(u) - wg[u]) + 1
                                  ELSE IssuedCount(u) - wg[u]
    BY <1>2, <1>3
  <2>2. QED BY <2>1
<1>5. IssuedCount(t) - Pending(t) < IssuedCount(t)
  BY <1>1, <1>3 DEF WgAccounting
<1>6. QED
  BY <1>2, <1>4, <1>5, CompletedByWg DEF Ingest!Complete, Ingest!Txs, Txs

(* waitAndStore past wg.Wait() is Persist: the event was read, is well    *)
(* formed, is stored once, and every item of it has completed.            *)
LEMMA RefPersist ==
    ASSUME TypeOK, WgAccounting, WgAccounting', BarrierInv, WaitingApart,
           NEW t \in Txs, WaitAndStore(t)
    PROVE  Ingest!Persist(t)
<1>1. /\ t \in waiting /\ wg[t] = 0 /\ finished' = finished \cup {t}
      /\ UNCHANGED <<next, dpc, cur, fan, wg>>
  BY DEF WaitAndStore, dispVars
<1>2. t <= next /\ t \notin Malformed /\ t \notin finished
  BY <1>1 DEF BarrierInv, DispatchOnLast, WaitingApart
<1>3. IssuedCount(t) - Pending(t) = NItems(t)
  <2>1. IssuedCount(t) = NItems(t) /\ NItems(t) \in Nat
    BY <1>1, SpawnedIssued, AccItemsType, ConstAssumption
    DEF BarrierInv, NItems, NAcc
  <2>2. QED BY <1>1, <2>1 DEF WgAccounting
<1>4. \A u \in Txs : IssuedCount(u)' = IssuedCount(u)
  BY <1>1, IssuedFrame
<1>5. QED
  BY <1>1, <1>2, <1>3, <1>4, CompletedByWg DEF Ingest!Persist, Ingest!Txs, Txs

(* waitAndStore is spawned for the event being fanned out, which is      *)
(* neither waiting nor finished, and leaves waiting as it finishes.       *)
LEMMA ApartStep ==
    ASSUME TypeOK, BarrierInv, WaitingApart, [Next]_vars
    PROVE  WaitingApart'
<1>1. CASE Spawn
  <2>1. cur \notin finished /\ waiting' = waiting \cup {cur} /\ finished' = finished
    BY <1>1 DEF Spawn, BarrierInv, DispatchOnLast
  <2>2. QED BY <2>1 DEF WaitingApart
<1>2. CASE \E t \in Txs : WaitAndStore(t)
  BY <1>2 DEF WaitAndStore, WaitingApart
<1>3. CASE ~Spawn /\ ~\E t \in Txs : WaitAndStore(t)
  <2>1. UNCHANGED <<waiting, finished>>
    BY <1>3, Zenon DEF Next, Dispatcher, Consumers, Environment, SourceSend,
       SourceClose, Tick, Close, DispatchTick, SubscriberRead, DispatchStop,
       DispatchInClosed, DispatchReceive, SendAccount, SendLog, Broadcast,
       AccTake, AccDone, LogTake, LogDone, vars, srcVars, dispVars, qVars,
       trxVars, blkVars, stopVars, subVars, conVars
  <2>2. QED BY <2>1 DEF WaitingApart
<1>4. QED BY <1>1, <1>2, <1>3

(* The initial state maps to the initial state of TrxIngest: nothing     *)
(* read, issued, completed or persisted.                                   *)
LEMMA RefInit == Init => Ingest!Init
<1> SUFFICES ASSUME Init PROVE Ingest!Init
  OBVIOUS
<1>1. ASSUME NEW t \in Txs PROVE IssuedCount(t) = 0 /\ Pending(t) = 0
  <2>1. IssuedCount(t) = 0
    BY DEF Init, IssuedCount, Txs
  <2>2. PendingIn(outAccount, t) = {} /\ PendingIn(outLog, t) = {}
    BY DEF Init, PendingIn
  <2>3. acur.trx # t /\ lcur.trx # t
    BY DEF Init, NoItem, Txs
  <2>4. QED BY <2>1, <2>2, <2>3, FS_EmptySet DEF Pending
<1>2. QED BY <1>1 DEF Init, Ingest!Init, Ingest!Txs, Txs

(* Every step of the dispatcher, its consumers and its environment is a   *)
(* step of TrxIngest or leaves the mapped state alone.                     *)
LEMMA RefStep ==
    ASSUME TypeOK, WgAccounting, WgAccounting', BarrierInv, WaitingApart,
           [Next]_vars
    PROVE  [Ingest!Next]_Ingest!avars
<1>1. CASE DispatchReceive
  BY <1>1, RefRead DEF Ingest!Next
<1>2. CASE SendAccount
  BY <1>2, RefSendAccount DEF Ingest!Next
<1>3. CASE SendLog
  BY <1>3, RefSendLog DEF Ingest!Next
<1>4. CASE Spawn
  <2>1. /\ UNCHANGED <<next, cur, fan, wg, finished>>
        /\ dpc' # "fanout" /\ fan = NItems(cur)
    BY <1>4 DEF Spawn, qVars
  <2>2. QED BY <2>1, RefStutter
<1>5. CASE \E t \in Txs : WaitAndStore(t)
  <2>1. PICK t \in Txs : WaitAndStore(t)
    BY <1>5
  <2>2. Ingest!Persist(t)
    BY <2>1, RefPersist
  <2>3. QED BY <2>2 DEF Ingest!Next, Ingest!Txs, Txs
<1>6. CASE AccTake \/ LogTake
  <2>1. UNCHANGED <<next, dpc, cur, fan, wg, finished>>
    BY <1>6 DEF AccTake, LogTake, dispVars, trxVars
  <2>2. QED BY <2>1, RefStutter
<1>7. CASE AccDone
  <2>1. /\ acur # NoItem /\ acur.trx \in Txs
        /\ wg' = [wg EXCEPT ![acur.trx] = @ - 1]
        /\ UNCHANGED <<next, dpc, cur, fan, finished>>
    BY <1>7 DEF AccDone, dispVars, TypeOK, TypeData, AccTouches
  <2>2. Ingest!Complete(acur.trx)
    BY <2>1, RefComplete
  <2>3. QED BY <2>1, <2>2 DEF Ingest!Next, Ingest!Txs, Txs
<1>8. CASE LogDone
  <2>1. /\ lcur # NoItem /\ lcur.trx \in Txs
        /\ wg' = [wg EXCEPT ![lcur.trx] = @ - 1]
        /\ UNCHANGED <<next, dpc, cur, fan, finished>>
    BY <1>8 DEF LogDone, dispVars, TypeOK, TypeData, LogRecords
  <2>2. Ingest!Complete(lcur.trx)
    BY <2>1, RefComplete
  <2>3. QED BY <2>1, <2>2 DEF Ingest!Next, Ingest!Txs, Txs
<1>9. CASE \/ SourceSend \/ SourceClose \/ Tick \/ Close \/ DispatchTick
           \/ SubscriberRead \/ DispatchStop \/ DispatchInClosed \/ Broadcast
           \/ UNCHANGED vars
  <2>1. UNCHANGED <<next, cur, fan, wg, finished>>
    BY <1>9, Zenon DEF SourceSend, SourceClose, Tick, Close, DispatchTick,
       SubscriberRead, DispatchStop, DispatchInClosed, SignOff, Broadcast, vars,
       srcVars, dispVars, qVars, trxVars, blkVars, stopVars, subVars, conVars
  <2>2. \/ dpc' = dpc
        \/ dpc' # "fanout" /\ dpc # "fanout"
    BY <1>9, Zenon DEF SourceSend, SourceClose, Tick, Close, DispatchTick,
       SubscriberRead, DispatchStop, DispatchInClosed, SignOff, Broadcast, vars,
       dispVars
  <2>3. QED BY <2>1, <2>2, RefStutter
<1>10. QED
  BY <1>1, <1>2, <1>3, <1>4, <1>5, <1>6, <1>7, <1>8, <1>9
  DEF Next, Dispatcher, Consumers, Environment

(* The dispatcher implements the safety part of TrxIngest: an event is   *)
(* read only after every item of the last one is queued, each send is an *)
(* issue, each Done completes an issued item, and waitAndStore persists  *)
(* a well-formed event once, after all its items completed.                *)
THEOREM IngestSafety == Spec => Ingest!Init /\ [][Ingest!Next]_Ingest!avars
<1>1. Init => WaitingApart
  BY DEF Init, WaitingApart
<1>2. Spec => []WaitingApart
  BY <1>1, ApartStep, TypeCorrect, BarrierInvHolds, PTL DEF Spec
<1>3. QED
  BY <1>2, RefInit, RefStep, TypeCorrect, WgAccountingHolds, BarrierInvHolds,
     PTL DEF Spec

=============================================================================
