------------------------ MODULE TrxDispatcherProofs ------------------------
(***************************************************************************)
(* Proofs about the transaction dispatcher, for every value of the        *)
(* constants that satisfies ConstAssumption.                               *)
(***************************************************************************)
EXTENDS TrxDispatcher, TLAPS

(* The touches pushAccounts sends for an event are account touches.      *)
LEMMA AccItemsType ==
    ASSUME NEW t \in Txs
    PROVE  AccItems(t) \in Seq(AccTouches)
<1>1. AccTouch(t, From[t], "wallet", Nil) \in AccTouches
  BY ConstAssumption DEF AccTouch, AccTouches
<1>2. To[t] # Nil => AccTouch(t, To[t], "wallet", Nil) \in AccTouches
  BY ConstAssumption DEF AccTouch, AccTouches
<1>3. Contract[t] # Nil => AccTouch(t, Contract[t], "contract", t) \in AccTouches
  BY ConstAssumption DEF AccTouch, AccTouches
<1>4. QED
  BY <1>1, <1>2, <1>3 DEF AccItems

-----------------------------------------------------------------------------
(* Type correctness: every reachable state satisfies TypeOK.              *)
THEOREM TypeCorrect == Spec => []TypeOK
<1>1. Init => TypeOK
  <2>1. Init => TypeFlags
    BY Zenon DEF Init, TypeFlags
  <2>2. Init => TypeData
    BY ConstAssumption DEF Init, TypeData, NoItem, InitObserved,
                           NoCheckpoint, Txs
  <2>3. QED
    BY <2>1, <2>2 DEF TypeOK
<1>2. TypeOK /\ [Next]_vars => TypeFlags'
  BY Zenon
  DEF TypeOK, TypeFlags, Next, vars, Dispatcher, Consumers, Environment,
      SourceSend, SourceClose, Tick, Close, DispatchStop, DispatchInClosed,
      SignOff, DispatchTick, DispatchReceive, SendAccount, SendLog, Spawn,
      Broadcast, WaitAndStore, SubscriberRead, AccTake, AccDone, LogTake,
      LogDone, srcVars, dispVars, qVars, trxVars, blkVars, stopVars, subVars,
      conVars
<1>3. TypeOK /\ [Next]_vars => TypeData'
  <2> SUFFICES ASSUME TypeOK, [Next]_vars PROVE TypeData'
    OBVIOUS
  <2>0. NTx \in Nat
    BY ConstAssumption
  <2> USE <2>0 DEF TypeOK, TypeData, Txs
  <2>1. CASE SourceSend
    BY <2>1 DEF SourceSend, dispVars, qVars, trxVars, blkVars, stopVars,
                subVars, conVars
  <2>2. CASE SourceClose
    BY <2>2 DEF SourceClose, dispVars, qVars, trxVars, blkVars, stopVars,
                subVars, conVars
  <2>3. CASE Tick
    BY <2>3 DEF Tick, srcVars, dispVars, qVars, trxVars, stopVars, subVars,
                conVars
  <2>4. CASE Close
    BY <2>4 DEF Close, srcVars, dispVars, qVars, trxVars, subVars, conVars
  <2>5. CASE DispatchStop
    BY <2>5 DEF DispatchStop, SignOff, srcVars, trxVars, blkVars, subVars,
                conVars
  <2>6. CASE DispatchInClosed
    BY <2>6 DEF DispatchInClosed, SignOff, srcVars, trxVars, blkVars,
                subVars, conVars
  <2>7. CASE DispatchTick
    BY <2>7 DEF DispatchTick, DbOutcomes, srcVars, dispVars, qVars, trxVars,
                stopVars, subVars, conVars
  <2>8. CASE DispatchReceive
    <3>1. next + 1 \in Txs
      BY <2>8 DEF DispatchReceive
    <3>2. CASE next + 1 \in Malformed
      BY <2>8, <3>1, <3>2 DEF DispatchReceive, srcVars, qVars, trxVars,
                              blkVars, stopVars, subVars, conVars
    <3>3. CASE next + 1 \notin Malformed
      BY <2>8, <3>1, <3>3 DEF DispatchReceive, srcVars, qVars, trxVars,
                              blkVars, stopVars, subVars, conVars
    <3>4. QED
      BY <3>2, <3>3
  <2>9. CASE SendAccount
    <3>1. cur \in Txs /\ fan < NAcc(cur)
      BY <2>9 DEF SendAccount
    <3>2. AccItems(cur)[fan + 1] \in AccTouches
      BY <3>1, AccItemsType DEF NAcc
    <3>3. outAccount' \in Seq(AccTouches)
      BY <2>9, <3>2 DEF SendAccount
    <3>4. wg' \in [Txs -> Int] /\ fan' \in Nat
      BY <2>9, <3>1 DEF SendAccount
    <3>5. QED
      BY <2>9, <3>3, <3>4 DEF SendAccount, srcVars, trxVars, blkVars,
                              stopVars, subVars, conVars
  <2>10. CASE SendLog
    <3>1. cur \in Txs /\ NAcc(cur) <= fan
      BY <2>10 DEF SendLog
    <3>2. NAcc(cur) \in Nat
      BY <3>1, AccItemsType DEF NAcc
    <3>3. LogItem(cur, fan - NAcc(cur) + 1) \in LogRecords
      BY <3>1, <3>2 DEF LogItem, LogRecords
    <3>4. outLog' \in Seq(LogRecords)
      BY <2>10, <3>3 DEF SendLog
    <3>5. wg' \in [Txs -> Int] /\ fan' \in Nat
      BY <2>10, <3>1 DEF SendLog
    <3>6. QED
      BY <2>10, <3>4, <3>5 DEF SendLog, srcVars, trxVars, blkVars,
                               stopVars, subVars, conVars
  <2>11. CASE Spawn
    BY <2>11 DEF Spawn, srcVars, qVars, blkVars, stopVars, subVars, conVars
  <2>12. CASE Broadcast
    BY <2>12 DEF Broadcast, srcVars, qVars, trxVars, blkVars, stopVars,
                 conVars
  <2>13. ASSUME NEW t \in Txs, WaitAndStore(t) PROVE TypeData'
    BY <2>13, ConstAssumption DEF WaitAndStore, DbOutcomes, srcVars, dispVars, qVars,
                 stopVars, subVars, conVars
  <2>14. CASE SubscriberRead
    BY <2>14, SMTT(30) DEF SubscriberRead, srcVars, dispVars, qVars, trxVars, blkVars,
                 stopVars, conVars
  <2>15. CASE AccTake
    BY <2>15 DEF AccTake, srcVars, dispVars, trxVars, blkVars, stopVars,
                 subVars
  <2>16. CASE AccDone
    <3>1. acur \in AccTouches
      BY <2>16 DEF AccDone
    <3>2. acur.trx \in Txs /\ acur.addr \in Addr
          /\ acur.act \in {"wallet", "contract"}
      BY <3>1 DEF AccTouches
    <3>3. wg' \in [Txs -> Int]
      <4>1. wg' = [wg EXCEPT ![acur.trx] = @ - 1]
        BY <2>16 DEF AccDone
      <4>2. QED
        BY <3>2, <4>1
    <3>4. registered' \subseteq Addr \X {"wallet", "contract"}
      BY <2>16, <3>2 DEF AccDone
    <3>5. QED
      BY <2>16, <3>3, <3>4 DEF AccDone, srcVars, dispVars, qVars,
                               blkVars, stopVars, subVars
  <2>17. CASE LogTake
    BY <2>17 DEF LogTake, srcVars, dispVars, trxVars, blkVars, stopVars,
                 subVars
  <2>18. CASE LogDone
    <3>1. lcur \in LogRecords
      BY <2>18 DEF LogDone
    <3>2. handled' \subseteq Txs \X (Nat \ {0})
      BY <2>18, <3>1 DEF LogDone, LogRecords
    <3>3. wg' \in [Txs -> Int]
      <4>1. lcur.trx \in Txs
        BY <3>1 DEF LogRecords
      <4>2. wg' = [wg EXCEPT ![lcur.trx] = @ - 1]
        BY <2>18 DEF LogDone
      <4>3. QED
        BY <4>1, <4>2
    <3>4. QED
      BY <2>18, <3>2, <3>3, SMTT(30) DEF LogDone, srcVars, dispVars, qVars,
                                       blkVars, stopVars, subVars
  <2>19. CASE UNCHANGED vars
    BY <2>19 DEF vars, srcVars, dispVars, qVars, trxVars, blkVars, stopVars,
                 subVars, conVars
  <2>20. QED
    BY <2>1, <2>2, <2>3, <2>4, <2>5, <2>6, <2>7, <2>8, <2>9, <2>10, <2>11,
       <2>12, <2>13, <2>14, <2>15, <2>16, <2>17, <2>18, <2>19
    DEF Next, Dispatcher, Consumers, Environment
<1>4. QED
  BY <1>1, <1>2, <1>3, PTL DEF Spec, TypeOK

-----------------------------------------------------------------------------
(* The part of the state CheckpointSound is about.                         *)
ObsVars == <<blkObserver, checkpoint, finished>>

ObsInv == ObserverSound /\ CheckpointSound

(* A step that leaves the observer, the checkpoint and the completed set  *)
(* alone preserves ObsInv.                                                 *)
LEMMA ObsInvUnchanged ==
    ASSUME ObsInv, UNCHANGED ObsVars
    PROVE  ObsInv'
BY DEF ObsInv, ObsVars, ObserverSound, CheckpointSound, InitObserved,
       NoCheckpoint

(* updateLastSeenBlock only ever writes a block whose transaction has     *)
(* been stored by waitAndStore (or the observer's initial 1): the         *)
(* checkpoint never names a block that no completed waitAndStore saw.     *)
THEOREM CheckpointSoundness == Spec => []CheckpointSound
<1>1. Init => ObsInv
  BY DEF Init, ObsInv, ObserverSound, CheckpointSound
<1>2. TypeOK /\ ObsInv /\ [Next]_vars => ObsInv'
  <2> SUFFICES ASSUME TypeOK, ObsInv, [Next]_vars PROVE ObsInv'
    OBVIOUS
  <2>1. ASSUME NEW t \in Txs, WaitAndStore(t) PROVE ObsInv'
    <3>1. finished' = finished \cup {t} /\ blkObserver' = Blk[t]
          /\ checkpoint' = checkpoint
      BY <2>1 DEF WaitAndStore
    <3>2. QED
      BY <3>1 DEF ObsInv, ObserverSound, CheckpointSound
  <2>2. CASE DispatchTick
    <3>1. UNCHANGED <<blkObserver, finished>>
      BY <2>2 DEF DispatchTick, trxVars
    <3>2. checkpoint' \in {checkpoint, blkObserver}
      BY <2>2 DEF DispatchTick
    <3>3. QED
      BY <3>1, <3>2 DEF ObsInv, ObserverSound, CheckpointSound
  <2>3. CASE Next /\ ~DispatchTick /\ ~\E t \in Txs : WaitAndStore(t)
    <3>1. UNCHANGED ObsVars
      BY <2>3, Zenon
      DEF Next, Dispatcher, Consumers, Environment, ObsVars,
          SourceSend, SourceClose, Tick, Close, DispatchStop,
          DispatchInClosed, DispatchReceive, SendAccount, SendLog, Spawn,
          Broadcast, SubscriberRead, AccTake, AccDone, LogTake, LogDone,
          srcVars, dispVars, qVars, trxVars, blkVars, stopVars, subVars,
          conVars
    <3>2. QED
      BY <3>1, ObsInvUnchanged
  <2>4. CASE UNCHANGED vars
    <3>1. UNCHANGED ObsVars
      BY <2>4 DEF vars, ObsVars, trxVars, blkVars
    <3>2. QED
      BY <3>1, ObsInvUnchanged
  <2>5. QED
    BY <2>1, <2>2, <2>3, <2>4 DEF Next
<1>3. QED
  BY <1>1, <1>2, TypeCorrect, PTL DEF Spec, ObsInv

=============================================================================
