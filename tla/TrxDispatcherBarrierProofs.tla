-------------------- MODULE TrxDispatcherBarrierProofs --------------------
(***************************************************************************)
(* Proof of the completion barrier of waitAndStore (BarrierSafety): when  *)
(* a transaction is stored, every account it touches is recorded and     *)
(* every log of it with a routed topic is handled.  The inductive         *)
(* invariant is BarrierInv: every item process() has sent is queued, held *)
(* by its consumer, or done; with WgAccounting, a zero WaitGroup counter  *)
(* then means that every item is done.                                     *)
(***************************************************************************)
EXTENDS TrxDispatcherQueueProofs

(* The items sent for t never exceed its derived items.                   *)
LEMMA IssuedBound ==
    ASSUME TypeOK, DispatchOnLast, NEW t \in Txs
    PROVE  IssuedCount(t) \in 0..NItems(t)
<1>1. NAcc(t) \in Nat /\ NItems(t) \in Nat
  BY AccItemsType, ConstAssumption DEF NItems, NAcc
<1>2. QED BY <1>1 DEF IssuedCount, DispatchOnLast, TypeOK, TypeData

(* A spawned or completed waitAndStore belongs to a fully sent event.     *)
LEMMA SpawnedIssued ==
    ASSUME TypeOK, DispatchOnLast, NEW t \in waiting \cup finished
    PROVE  IssuedCount(t) = NItems(t)
BY DEF IssuedCount, DispatchOnLast, TypeOK, TypeData

(* A step that moves neither the read position nor the fan-out keeps the *)
(* items sent of every event.                                              *)
LEMMA IssuedFrame ==
    ASSUME next' = next, cur' = cur, fan' = fan,
           \/ dpc' = dpc
           \/ dpc' # "fanout" /\ (dpc # "fanout" \/ fan = NItems(cur))
    PROVE  \A t \in Txs : IssuedCount(t)' = IssuedCount(t)
BY DEF IssuedCount

(* Account side unchanged: the touches stay accounted for.                 *)
LEMMA AccFrame ==
    ASSUME AccAccounted, outAccount' = outAccount, acur' = acur,
           registered \subseteq registered',
           \A t \in Txs : IssuedCount(t)' = IssuedCount(t)
    PROVE  AccAccounted'
BY DEF AccAccounted, AccHeld, AccRecorded

(* Log side unchanged: the logs stay accounted for.                        *)
LEMMA LogFrame ==
    ASSUME LogAccounted, outLog' = outLog, lcur' = lcur,
           handled \subseteq handled',
           \A t \in Txs : IssuedCount(t)' = IssuedCount(t)
    PROVE  LogAccounted'
BY DEF LogAccounted, LogHeld, LogRecorded

(* Completed transactions stay completely handled while the records only *)
(* grow.                                                                   *)
LEMMA SafetyFrame ==
    ASSUME BarrierSafety, finished' = finished,
           registered \subseteq registered', handled \subseteq handled'
    PROVE  BarrierSafety'
BY DEF BarrierSafety

(* With no item of t pending, no touch or log of t is held anywhere.      *)
LEMMA NothingHeld ==
    ASSUME TypeOK, NEW t \in Txs, Pending(t) = 0
    PROVE  /\ \A k \in 1..NAcc(t) : ~AccHeld(AccItems(t)[k])
           /\ \A i \in 1..Len(Logs[t]) : ~LogHeld(LogItem(t, i))
<1>1. /\ Cardinality(PendingIn(outAccount, t)) \in Nat
      /\ Cardinality(PendingIn(outLog, t)) \in Nat
  BY WgTypes, PendingInNat
<1>2. /\ Cardinality(PendingIn(outAccount, t)) = 0
      /\ Cardinality(PendingIn(outLog, t)) = 0
      /\ acur.trx # t /\ lcur.trx # t
  BY <1>1 DEF Pending
<1>3. PendingIn(outAccount, t) = {} /\ PendingIn(outLog, t) = {}
  BY <1>2, WgTypes, PendingInFinite, FS_EmptySet
<1>4. ASSUME NEW k \in 1..NAcc(t) PROVE ~AccHeld(AccItems(t)[k])
  <2>1. AccItems(t)[k].trx = t
    BY AccItemTrx
  <2>2. QED BY <1>2, <1>3, <2>1 DEF AccHeld, PendingIn
<1>5. ASSUME NEW i \in 1..Len(Logs[t]) PROVE ~LogHeld(LogItem(t, i))
  BY <1>2, <1>3 DEF LogHeld, PendingIn, LogItem
<1>6. QED BY <1>4, <1>5

(* A send keeps every queued touch queued and queues the new one.         *)
LEMMA AppendHeld ==
    ASSUME NEW S, NEW q \in Seq(S), NEW x \in S
    PROVE  /\ \A a : (\E i \in DOMAIN q : q[i] = a)
                        => \E i \in DOMAIN Append(q, x) : Append(q, x)[i] = a
           /\ \E i \in DOMAIN Append(q, x) : Append(q, x)[i] = x
<1>1. ASSUME NEW a, NEW i \in DOMAIN q, q[i] = a
      PROVE  i \in DOMAIN Append(q, x) /\ Append(q, x)[i] = a
  BY <1>1
<1>2. Len(q) + 1 \in DOMAIN Append(q, x) /\ Append(q, x)[Len(q) + 1] = x
  OBVIOUS
<1>3. QED BY <1>1, <1>2

(* A receive moves the head into the consumer's hands and keeps the rest. *)
LEMMA TailHeld ==
    ASSUME NEW S, NEW q \in Seq(S), q # << >>, NEW a,
           \E i \in DOMAIN q : q[i] = a
    PROVE  Head(q) = a \/ \E i \in DOMAIN Tail(q) : Tail(q)[i] = a
<1>1. PICK i \in DOMAIN q : q[i] = a
  OBVIOUS
<1>2. CASE i = 1
  BY <1>1, <1>2
<1>3. CASE i # 1
  <2>1. i - 1 \in DOMAIN Tail(q) /\ Tail(q)[i - 1] = a
    BY <1>1, <1>3
  <2>2. QED BY <2>1
<1>4. QED BY <1>2, <1>3

(* The items of a transaction are never NoItem.                            *)
LEMMA ItemsNotNoItem ==
    ASSUME NEW t \in Txs
    PROVE  /\ \A k \in 1..NAcc(t) : AccItems(t)[k] # NoItem
           /\ \A i \in 1..Len(Logs[t]) : LogItem(t, i) # NoItem
<1>1. 0 \notin Txs
  BY DEF Txs
<1>2. \A k \in 1..NAcc(t) : AccItems(t)[k].trx = t
  BY AccItemTrx
<1>3. QED BY <1>1, <1>2 DEF NoItem, LogItem

-----------------------------------------------------------------------------
(* The state BarrierInv reads, other than dpc.                             *)
BarVars == <<next, cur, fan, outAccount, acur, outLog, lcur, registered,
             handled, waiting, finished>>

(* A step that keeps BarVars and moves dpc at most out of the fan-out    *)
(* keeps BarrierInv.                                                        *)
LEMMA BarrierFrame ==
    ASSUME BarrierInv, UNCHANGED BarVars,
           \/ dpc' = dpc
           \/ dpc' \in {"exit", "select"} /\ dpc # "fanout"
    PROVE  BarrierInv'
<1>1. \A t \in Txs : IssuedCount(t)' = IssuedCount(t)
  BY IssuedFrame DEF BarVars
<1>2. DispatchOnLast'
  BY DEF BarrierInv, DispatchOnLast, BarVars
<1>3. QED BY <1>1, <1>2, AccFrame, LogFrame, SafetyFrame DEF BarrierInv, BarVars

(* The upstream, the ticker, the orchestrator, the subscriber, the tick   *)
(* and stop cases of the select loop and the broadcast keep BarrierInv.   *)
LEMMA BarrierQuiet ==
    ASSUME BarrierInv,
           \/ SourceSend \/ SourceClose \/ Tick \/ Close \/ DispatchTick
           \/ SubscriberRead \/ DispatchStop \/ DispatchInClosed \/ Broadcast
           \/ UNCHANGED vars
    PROVE  BarrierInv'
<1>1. UNCHANGED BarVars
  BY Zenon DEF BarVars, SourceSend, SourceClose, Tick, Close, DispatchTick,
     SubscriberRead, DispatchStop, DispatchInClosed, SignOff, Broadcast, vars,
     srcVars, dispVars, qVars, trxVars, blkVars, stopVars, subVars, conVars
<1>2. \/ dpc' = dpc
      \/ dpc' \in {"exit", "select"} /\ dpc # "fanout"
  BY Zenon DEF SourceSend, SourceClose, Tick, Close, DispatchTick,
     SubscriberRead, DispatchStop, DispatchInClosed, SignOff, Broadcast, vars,
     dispVars
<1>3. QED BY <1>1, <1>2, BarrierFrame

(* Reading an event changes no event's count of items sent: the new     *)
(* event has none yet, as before it was read, and the events read before *)
(* keep all theirs.                                                        *)
LEMMA ReceiveIssued ==
    ASSUME TypeOK, DispatchReceive
    PROVE  \A t \in Txs : IssuedCount(t)' = IssuedCount(t)
<1> SUFFICES ASSUME NEW t \in Txs PROVE IssuedCount(t)' = IssuedCount(t)
  OBVIOUS
<1>1. /\ dpc = "select" /\ next' = next + 1 /\ next \in Nat /\ next + 1 \in Txs
      /\ \/ next + 1 \in Malformed /\ UNCHANGED <<dpc, cur, fan>>
         \/ next + 1 \notin Malformed /\ dpc' = "fanout" /\ cur' = next + 1
            /\ fan' = 0
  <2>1. dpc = "select" /\ next' = next + 1 /\ next \in Nat /\ next + 1 \in Txs
    BY ConstAssumption DEF DispatchReceive, TypeOK, TypeData, Txs
  <2>2. \/ next + 1 \in Malformed /\ UNCHANGED <<dpc, cur, fan>>
        \/ next + 1 \notin Malformed /\ dpc' = "fanout" /\ cur' = next + 1
           /\ fan' = 0
    BY DEF DispatchReceive
  <2>3. QED BY <2>1, <2>2
<1>2. CASE next + 1 \in Malformed /\ UNCHANGED <<dpc, cur, fan>>
  BY <1>1, <1>2, ConstAssumption DEF IssuedCount, Txs
<1>3. CASE next + 1 \notin Malformed /\ dpc' = "fanout" /\ cur' = next + 1
           /\ fan' = 0
  <2>1. CASE t = next + 1
    BY <1>1, <1>3, <2>1, ConstAssumption DEF IssuedCount, Txs
  <2>2. CASE t # next + 1
    BY <1>1, <1>3, <2>2, ConstAssumption DEF IssuedCount, Txs
  <2>3. QED BY <2>1, <2>2
<1>4. QED BY <1>1, <1>2, <1>3

(* Reading an event: the new event has no item sent yet, and the events  *)
(* read before keep theirs.                                                *)
LEMMA BarrierReceive ==
    ASSUME TypeOK, BarrierInv, DispatchReceive
    PROVE  BarrierInv'
<1>1. /\ dpc = "select" /\ next' = next + 1 /\ next \in Nat /\ next + 1 \in Txs
      /\ \/ next + 1 \in Malformed /\ UNCHANGED <<dpc, cur, fan>>
         \/ next + 1 \notin Malformed /\ dpc' = "fanout" /\ cur' = next + 1
            /\ fan' = 0
      /\ UNCHANGED <<outAccount, acur, outLog, lcur, registered, handled,
                     waiting, finished>>
  <2>1. dpc = "select" /\ next' = next + 1 /\ next \in Nat /\ next + 1 \in Txs
    BY ConstAssumption DEF DispatchReceive, TypeOK, TypeData, Txs
  <2>2. \/ next + 1 \in Malformed /\ UNCHANGED <<dpc, cur, fan>>
        \/ next + 1 \notin Malformed /\ dpc' = "fanout" /\ cur' = next + 1
           /\ fan' = 0
    BY DEF DispatchReceive
  <2>3. UNCHANGED <<outAccount, acur, outLog, lcur, registered, handled,
                    waiting, finished>>
    BY DEF DispatchReceive, qVars, trxVars, conVars
  <2>4. QED BY <2>1, <2>2, <2>3
<1>2. \A t \in Txs : IssuedCount(t)' = IssuedCount(t)
  BY ReceiveIssued
<1>3. DispatchOnLast'
  <2>1. NItems(next + 1) \in Nat
    BY <1>1, AccItemsType, ConstAssumption DEF NItems, NAcc
  <2>2. QED BY <1>1, <2>1 DEF BarrierInv, DispatchOnLast
<1>4. QED BY <1>1, <1>2, <1>3, AccFrame, LogFrame, SafetyFrame DEF BarrierInv

(* go waitAndStore: the spawned event has every item sent.                *)
LEMMA BarrierSpawn ==
    ASSUME TypeOK, BarrierInv, Spawn
    PROVE  BarrierInv'
<1>1. /\ dpc = "fanout" /\ fan = NItems(cur) /\ dpc' = "bcast"
      /\ waiting' = waiting \cup {cur} /\ cur \in Txs
      /\ UNCHANGED <<next, cur, fan, outAccount, acur, outLog, lcur,
                     registered, handled, finished>>
  BY DEF Spawn, TypeOK, TypeData, trxVars, conVars, qVars
<1>2. \A t \in Txs : IssuedCount(t)' = IssuedCount(t)
  BY <1>1, IssuedFrame
<1>3. DispatchOnLast'
  BY <1>1 DEF BarrierInv, DispatchOnLast, Txs
<1>4. QED BY <1>1, <1>2, <1>3, AccFrame, LogFrame, SafetyFrame DEF BarrierInv

(* A send of the fan-out counts one more item sent for the event in hand *)
(* (the last event read) and for no other.                                 *)
LEMMA SendIssued ==
    ASSUME TypeOK, DispatchOnLast, dpc = "fanout",
           UNCHANGED <<next, dpc, cur>>, fan' = fan + 1
    PROVE  /\ cur = next /\ cur \in Txs \ Malformed /\ IssuedCount(cur) = fan
           /\ \A t \in Txs :
                 IssuedCount(t)' = IF t = cur THEN fan + 1 ELSE IssuedCount(t)
<1>1. cur \in Txs /\ cur = next /\ cur \notin Malformed
  BY DEF DispatchOnLast, TypeOK, TypeData
<1>2. IssuedCount(cur) = fan
  BY <1>1, ConstAssumption DEF IssuedCount, Txs
<1>3. \A t \in Txs : IssuedCount(t)' = IF t = cur THEN fan + 1 ELSE IssuedCount(t)
  BY <1>1, ConstAssumption DEF IssuedCount, Txs
<1>4. QED BY <1>1, <1>2, <1>3

(* pushAccounts sends the next touch of the event in hand: it is queued.  *)
LEMMA BarrierSendAccount ==
    ASSUME TypeOK, BarrierInv, SendAccount
    PROVE  BarrierInv'
<1>1. /\ dpc = "fanout" /\ cur \in Txs /\ fan \in Nat /\ fan < NAcc(cur)
      /\ outAccount' = Append(outAccount, AccItems(cur)[fan + 1])
      /\ fan' = fan + 1
      /\ UNCHANGED <<next, dpc, cur, acur, outLog, lcur, registered, handled,
                     waiting, finished>>
  BY DEF SendAccount, TypeOK, TypeData, trxVars, conVars
<1>2. /\ NAcc(cur) \in Nat /\ NItems(cur) \in Nat /\ NAcc(cur) <= NItems(cur)
      /\ AccItems(cur)[fan + 1] \in AccTouches
      /\ outAccount \in Seq(AccTouches)
  BY <1>1, AccItemsType, ConstAssumption DEF NItems, NAcc, TypeOK, TypeData
<1>3. /\ cur = next /\ cur \notin Malformed /\ IssuedCount(cur) = fan
      /\ \A t \in Txs :
            IssuedCount(t)' = IF t = cur THEN fan + 1 ELSE IssuedCount(t)
  BY <1>1, SendIssued DEF BarrierInv
<1>4. \A t \in Txs : IssuedCount(t)' = IF t = cur THEN fan + 1 ELSE IssuedCount(t)
  BY <1>3
<1>5. DispatchOnLast'
  BY <1>1, <1>2 DEF BarrierInv, DispatchOnLast
<1>6. AccAccounted'
  <2> SUFFICES ASSUME NEW t \in Txs, NEW k \in 1..NAcc(t),
                      k <= IssuedCount(t)'
               PROVE  AccHeld(AccItems(t)[k])' \/ AccRecorded(t, k)'
    BY DEF AccAccounted
  <2>1. CASE t = cur /\ k = fan + 1
    BY <1>1, <1>2, <2>1, AppendHeld DEF AccHeld
  <2>2. CASE ~(t = cur /\ k = fan + 1)
    <3>1. k <= IssuedCount(t)
      BY <1>1, <1>3, <1>4, <2>2, IssuedBound DEF BarrierInv
    <3>2. AccHeld(AccItems(t)[k]) \/ AccRecorded(t, k)
      BY <3>1 DEF BarrierInv, AccAccounted
    <3>3. \A a : (\E j \in DOMAIN outAccount : outAccount[j] = a)
                 => \E j \in DOMAIN outAccount' : outAccount'[j] = a
      BY <1>1, <1>2, AppendHeld
    <3>4. QED BY <1>1, <3>2, <3>3 DEF AccHeld, AccRecorded
  <2>3. QED BY <2>1, <2>2
<1>7. LogAccounted'
  <2> SUFFICES ASSUME NEW t \in Txs, NEW i \in 1..Len(Logs[t]),
                      NAcc(t) + i <= IssuedCount(t)'
               PROVE  LogHeld(LogItem(t, i))' \/ LogRecorded(t, i)'
    BY DEF LogAccounted
  <2>1. NAcc(t) + i <= IssuedCount(t)
    BY <1>1, <1>2, <1>3, <1>4
  <2>2. QED BY <1>1, <2>1 DEF BarrierInv, LogAccounted, LogHeld, LogRecorded
<1>8. QED BY <1>1, <1>5, <1>6, <1>7, SafetyFrame DEF BarrierInv

(* The log loop sends the next log of the event in hand: it is queued.    *)
LEMMA BarrierSendLog ==
    ASSUME TypeOK, BarrierInv, SendLog
    PROVE  BarrierInv'
<1>1. /\ dpc = "fanout" /\ cur \in Txs /\ fan \in Nat
      /\ NAcc(cur) <= fan /\ fan < NItems(cur)
      /\ outLog' = Append(outLog, LogItem(cur, fan - NAcc(cur) + 1))
      /\ fan' = fan + 1
      /\ UNCHANGED <<next, dpc, cur, outAccount, acur, lcur, registered,
                     handled, waiting, finished>>
  BY DEF SendLog, TypeOK, TypeData, trxVars, conVars
<1>2. /\ NAcc(cur) \in Nat /\ Len(Logs[cur]) \in Nat
      /\ NItems(cur) = NAcc(cur) + Len(Logs[cur])
      /\ LogItem(cur, fan - NAcc(cur) + 1) \in LogRecords
      /\ outLog \in Seq(LogRecords)
  BY <1>1, AccItemsType, ConstAssumption
  DEF NItems, NAcc, LogItem, LogRecords, TypeOK, TypeData
<1>3. /\ cur = next /\ cur \notin Malformed /\ IssuedCount(cur) = fan
      /\ \A t \in Txs :
            IssuedCount(t)' = IF t = cur THEN fan + 1 ELSE IssuedCount(t)
  BY <1>1, SendIssued DEF BarrierInv
<1>4. \A t \in Txs : IssuedCount(t)' = IF t = cur THEN fan + 1 ELSE IssuedCount(t)
  BY <1>3
<1>5. DispatchOnLast'
  BY <1>1, <1>2 DEF BarrierInv, DispatchOnLast
<1>6. AccAccounted'
  <2> SUFFICES ASSUME NEW t \in Txs, NEW k \in 1..NAcc(t),
                      k <= IssuedCount(t)'
               PROVE  AccHeld(AccItems(t)[k])' \/ AccRecorded(t, k)'
    BY DEF AccAccounted
  <2>1. k <= IssuedCount(t)
    BY <1>1, <1>2, <1>3, <1>4
  <2>2. QED BY <1>1, <2>1 DEF BarrierInv, AccAccounted, AccHeld, AccRecorded
<1>7. LogAccounted'
  <2> SUFFICES ASSUME NEW t \in Txs, NEW i \in 1..Len(Logs[t]),
                      NAcc(t) + i <= IssuedCount(t)'
               PROVE  LogHeld(LogItem(t, i))' \/ LogRecorded(t, i)'
    BY DEF LogAccounted
  <2>1. NAcc(t) \in Nat
    BY AccItemsType DEF NAcc
  <2>0. /\ outLog \in Seq(LogRecords)
        /\ LogItem(cur, fan - NAcc(cur) + 1) \in LogRecords
        /\ outLog' = Append(outLog, LogItem(cur, fan - NAcc(cur) + 1))
    BY <1>1, <1>2
  <2>2. CASE t = cur /\ i = fan - NAcc(cur) + 1
    <3>1. \E j \in DOMAIN outLog' : outLog'[j] = LogItem(cur, fan - NAcc(cur) + 1)
      BY <2>0, AppendHeld
    <3>2. QED BY <3>1, <2>2 DEF LogHeld
  <2>3. CASE ~(t = cur /\ i = fan - NAcc(cur) + 1)
    <3>1. NAcc(t) + i <= IssuedCount(t)
      BY <1>1, <1>2, <1>3, <1>4, <2>1, <2>3
    <3>2. LogHeld(LogItem(t, i)) \/ LogRecorded(t, i)
      BY <3>1 DEF BarrierInv, LogAccounted
    <3>3. \A l : (\E j \in DOMAIN outLog : outLog[j] = l)
                 => \E j \in DOMAIN outLog' : outLog'[j] = l
      BY <2>0, AppendHeld
    <3>4. QED BY <1>1, <3>2, <3>3 DEF LogHeld, LogRecorded
  <2>4. QED BY <2>2, <2>3
<1>8. QED BY <1>1, <1>5, <1>6, <1>7, SafetyFrame DEF BarrierInv

(* waitAndStore past wg.Wait: with the counter at zero no item of t is    *)
(* queued or held, and every item of t was sent, so all are recorded.     *)
LEMMA BarrierWait ==
    ASSUME TypeOK, WgAccounting, BarrierInv, NEW t \in Txs, WaitAndStore(t)
    PROVE  BarrierInv'
<1>1. /\ t \in waiting /\ wg[t] = 0
      /\ waiting' = waiting \ {t} /\ finished' = finished \cup {t}
      /\ UNCHANGED <<next, dpc, cur, fan, outAccount, acur, outLog, lcur,
                     registered, handled>>
  BY DEF WaitAndStore, dispVars, qVars, conVars
<1>2. Pending(t) = 0
  BY <1>1 DEF WgAccounting
<1>3. IssuedCount(t) = NItems(t)
  BY <1>1, SpawnedIssued DEF BarrierInv
<1>4. NAcc(t) \in Nat /\ Len(Logs[t]) \in Nat /\ NItems(t) = NAcc(t) + Len(Logs[t])
  BY AccItemsType, ConstAssumption DEF NItems, NAcc
<1>5. \A k \in 1..NAcc(t) : AccRecorded(t, k)
  <2> SUFFICES ASSUME NEW k \in 1..NAcc(t) PROVE AccRecorded(t, k)
    OBVIOUS
  <2>1. k <= IssuedCount(t)
    BY <1>3, <1>4
  <2>2. ~AccHeld(AccItems(t)[k])
    BY <1>2, NothingHeld
  <2>3. QED BY <2>1, <2>2 DEF BarrierInv, AccAccounted
<1>6. \A i \in 1..Len(Logs[t]) : LogRecorded(t, i)
  <2> SUFFICES ASSUME NEW i \in 1..Len(Logs[t]) PROVE LogRecorded(t, i)
    OBVIOUS
  <2>1. NAcc(t) + i <= IssuedCount(t)
    BY <1>3, <1>4
  <2>2. ~LogHeld(LogItem(t, i))
    BY <1>2, NothingHeld
  <2>3. QED BY <2>1, <2>2 DEF BarrierInv, LogAccounted
<1>7. BarrierSafety'
  BY <1>1, <1>5, <1>6 DEF BarrierInv, BarrierSafety, AccRecorded, LogRecorded
<1>8. \A u \in Txs : IssuedCount(u)' = IssuedCount(u)
  BY <1>1, IssuedFrame
<1>9. DispatchOnLast'
  BY <1>1 DEF BarrierInv, DispatchOnLast
<1>10. QED BY <1>1, <1>7, <1>8, <1>9, AccFrame, LogFrame DEF BarrierInv

(* The account consumer takes the head: it moves from the queue into its *)
(* hands, and the idle consumer held no touch of any transaction.         *)
LEMMA BarrierAccTake ==
    ASSUME TypeOK, BarrierInv, AccTake
    PROVE  BarrierInv'
<1>1. /\ acur = NoItem /\ outAccount # << >>
      /\ acur' = Head(outAccount) /\ outAccount' = Tail(outAccount)
      /\ UNCHANGED <<next, dpc, cur, fan, outLog, lcur, registered, handled,
                     waiting, finished>>
      /\ outAccount \in Seq(AccTouches)
  BY DEF AccTake, dispVars, trxVars, TypeOK, TypeData
<1>2. \A t \in Txs : IssuedCount(t)' = IssuedCount(t)
  BY <1>1, IssuedFrame
<1>3. AccAccounted'
  <2> SUFFICES ASSUME NEW t \in Txs, NEW k \in 1..NAcc(t),
                      k <= IssuedCount(t)'
               PROVE  AccHeld(AccItems(t)[k])' \/ AccRecorded(t, k)'
    BY DEF AccAccounted
  <2>1. AccHeld(AccItems(t)[k]) \/ AccRecorded(t, k)
    BY <1>2 DEF BarrierInv, AccAccounted
  <2>2. AccItems(t)[k] # NoItem
    BY ItemsNotNoItem
  <2>3. CASE AccHeld(AccItems(t)[k])
    <3>1. \E i \in DOMAIN outAccount : outAccount[i] = AccItems(t)[k]
      BY <1>1, <2>2, <2>3 DEF AccHeld
    <3>2. Head(outAccount) = AccItems(t)[k]
          \/ \E i \in DOMAIN Tail(outAccount) : Tail(outAccount)[i] = AccItems(t)[k]
      BY <1>1, <3>1, TailHeld
    <3>3. QED BY <1>1, <3>2 DEF AccHeld
  <2>4. CASE AccRecorded(t, k)
    BY <1>1, <2>4 DEF AccRecorded
  <2>5. QED BY <2>1, <2>3, <2>4
<1>4. QED BY <1>1, <1>2, <1>3, LogFrame, SafetyFrame
      DEF BarrierInv, DispatchOnLast

(* The account consumer records the touch it holds.                        *)
LEMMA BarrierAccDone ==
    ASSUME TypeOK, BarrierInv, AccDone
    PROVE  BarrierInv'
<1>1. /\ acur # NoItem
      /\ registered' = registered \cup {<<acur.addr, acur.act>>}
      /\ acur' = NoItem
      /\ UNCHANGED <<next, dpc, cur, fan, outAccount, outLog, lcur, handled,
                     waiting, finished>>
  BY DEF AccDone, dispVars, qVars
<1>2. \A t \in Txs : IssuedCount(t)' = IssuedCount(t)
  BY <1>1, IssuedFrame
<1>3. AccAccounted'
  <2> SUFFICES ASSUME NEW t \in Txs, NEW k \in 1..NAcc(t),
                      k <= IssuedCount(t)'
               PROVE  AccHeld(AccItems(t)[k])' \/ AccRecorded(t, k)'
    BY DEF AccAccounted
  <2>1. AccHeld(AccItems(t)[k]) \/ AccRecorded(t, k)
    BY <1>2 DEF BarrierInv, AccAccounted
  <2>2. CASE acur = AccItems(t)[k]
    BY <1>1, <2>2 DEF AccRecorded
  <2>3. CASE acur # AccItems(t)[k]
    BY <1>1, <2>1, <2>3 DEF AccHeld, AccRecorded
  <2>4. QED BY <2>2, <2>3
<1>4. QED BY <1>1, <1>2, <1>3, LogFrame, SafetyFrame
      DEF BarrierInv, DispatchOnLast

(* The log dispatcher takes the head of outLog into its hands.             *)
LEMMA BarrierLogTake ==
    ASSUME TypeOK, BarrierInv, LogTake
    PROVE  BarrierInv'
<1>1. /\ lcur = NoItem /\ outLog # << >>
      /\ lcur' = Head(outLog) /\ outLog' = Tail(outLog)
      /\ UNCHANGED <<next, dpc, cur, fan, outAccount, acur, registered,
                     handled, waiting, finished>>
      /\ outLog \in Seq(LogRecords)
  BY DEF LogTake, dispVars, trxVars, TypeOK, TypeData
<1>2. \A t \in Txs : IssuedCount(t)' = IssuedCount(t)
  BY <1>1, IssuedFrame
<1>3. LogAccounted'
  <2> SUFFICES ASSUME NEW t \in Txs, NEW i \in 1..Len(Logs[t]),
                      NAcc(t) + i <= IssuedCount(t)'
               PROVE  LogHeld(LogItem(t, i))' \/ LogRecorded(t, i)'
    BY DEF LogAccounted
  <2>1. LogHeld(LogItem(t, i)) \/ LogRecorded(t, i)
    BY <1>2 DEF BarrierInv, LogAccounted
  <2>2. LogItem(t, i) # NoItem
    BY ItemsNotNoItem
  <2>3. CASE LogHeld(LogItem(t, i))
    <3>1. \E j \in DOMAIN outLog : outLog[j] = LogItem(t, i)
      BY <1>1, <2>2, <2>3 DEF LogHeld
    <3>2. Head(outLog) = LogItem(t, i)
          \/ \E j \in DOMAIN Tail(outLog) : Tail(outLog)[j] = LogItem(t, i)
      BY <1>1, <3>1, TailHeld
    <3>3. QED BY <1>1, <3>2 DEF LogHeld
  <2>4. CASE LogRecorded(t, i)
    BY <1>1, <2>4 DEF LogRecorded
  <2>5. QED BY <2>1, <2>3, <2>4
<1>4. QED BY <1>1, <1>2, <1>3, AccFrame, SafetyFrame
      DEF BarrierInv, DispatchOnLast

(* The log dispatcher routes the log it holds: a log with a known topic  *)
(* is handled, one with an unknown topic needs no handler.                 *)
LEMMA BarrierLogDone ==
    ASSUME TypeOK, BarrierInv, LogDone
    PROVE  BarrierInv'
<1>1. /\ lcur # NoItem
      /\ handled' = IF Logs[lcur.trx][lcur.idx] \in Routed
                      THEN handled \cup {<<lcur.trx, lcur.idx>>}
                      ELSE handled
      /\ lcur' = NoItem
      /\ UNCHANGED <<next, dpc, cur, fan, outAccount, outLog, acur,
                     registered, waiting, finished>>
  BY DEF LogDone, dispVars, qVars
<1>2. \A t \in Txs : IssuedCount(t)' = IssuedCount(t)
  BY <1>1, IssuedFrame
<1>3. handled \subseteq handled'
  BY <1>1
<1>4. LogAccounted'
  <2> SUFFICES ASSUME NEW t \in Txs, NEW i \in 1..Len(Logs[t]),
                      NAcc(t) + i <= IssuedCount(t)'
               PROVE  LogHeld(LogItem(t, i))' \/ LogRecorded(t, i)'
    BY DEF LogAccounted
  <2>1. LogHeld(LogItem(t, i)) \/ LogRecorded(t, i)
    BY <1>2 DEF BarrierInv, LogAccounted
  <2>2. CASE lcur = LogItem(t, i)
    <3>1. lcur.trx = t /\ lcur.idx = i
      BY <2>2 DEF LogItem
    <3>2. QED BY <1>1, <3>1 DEF LogRecorded
  <2>3. CASE lcur # LogItem(t, i)
    BY <1>1, <1>3, <2>1, <2>3 DEF LogHeld, LogRecorded
  <2>4. QED BY <2>2, <2>3
<1>5. QED BY <1>1, <1>2, <1>3, <1>4, AccFrame, SafetyFrame
      DEF BarrierInv, DispatchOnLast

-----------------------------------------------------------------------------
(* Before the first event nothing is sent and nothing is spawned.          *)
LEMMA BarrierInit == Init => BarrierInv
<1> SUFFICES ASSUME Init PROVE BarrierInv
  OBVIOUS
<1>1. \A t \in Txs : IssuedCount(t) = 0
  BY ConstAssumption DEF Init, IssuedCount, Txs
<1>2. AccAccounted
  BY <1>1 DEF AccAccounted
<1>3. LogAccounted
  <2> SUFFICES ASSUME NEW t \in Txs, NEW i \in 1..Len(Logs[t]),
                      NAcc(t) + i <= IssuedCount(t)
               PROVE  FALSE
    BY DEF LogAccounted
  <2>1. NAcc(t) \in Nat
    BY AccItemsType DEF NAcc
  <2>2. QED BY <1>1, <2>1
<1>4. QED BY <1>2, <1>3 DEF Init, BarrierInv, DispatchOnLast, BarrierSafety

(* Every step of the dispatcher, of waitAndStore, of the consumers and of *)
(* the environment keeps BarrierInv.                                       *)
LEMMA BarrierStep ==
    ASSUME TypeOK, WgAccounting, BarrierInv, [Next]_vars
    PROVE  BarrierInv'
<1>1. CASE DispatchReceive
  BY <1>1, BarrierReceive
<1>2. CASE SendAccount
  BY <1>2, BarrierSendAccount
<1>3. CASE SendLog
  BY <1>3, BarrierSendLog
<1>4. CASE Spawn
  BY <1>4, BarrierSpawn
<1>5. CASE \E t \in Txs : WaitAndStore(t)
  BY <1>5, BarrierWait
<1>6. CASE AccTake
  BY <1>6, BarrierAccTake
<1>7. CASE AccDone
  BY <1>7, BarrierAccDone
<1>8. CASE LogTake
  BY <1>8, BarrierLogTake
<1>9. CASE LogDone
  BY <1>9, BarrierLogDone
<1>10. CASE \/ SourceSend \/ SourceClose \/ Tick \/ Close \/ DispatchTick
            \/ SubscriberRead \/ DispatchStop \/ DispatchInClosed \/ Broadcast
            \/ UNCHANGED vars
  BY <1>10, BarrierQuiet
<1>11. QED
  BY <1>1, <1>2, <1>3, <1>4, <1>5, <1>6, <1>7, <1>8, <1>9, <1>10
  DEF Next, Dispatcher, Consumers, Environment

(* BarrierInv holds in every reachable state.                             *)
LEMMA BarrierInvHolds == Spec => []BarrierInv
BY BarrierInit, BarrierStep, TypeCorrect, WgAccountingHolds, PTL DEF Spec

(* When waitAndStore stores a transaction, every account the transaction *)
(* touches has been registered and every log of it with a routed topic   *)
(* has gone through its handler: wg.Wait() is a sound completion barrier. *)
THEOREM BarrierSafe == Spec => []BarrierSafety
<1>1. BarrierInv => BarrierSafety
  BY DEF BarrierInv
<1>2. QED BY <1>1, BarrierInvHolds, PTL

=============================================================================
