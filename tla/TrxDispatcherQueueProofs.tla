--------------------- MODULE TrxDispatcherQueueProofs ---------------------
(***************************************************************************)
(* Proofs of the WaitGroup accounting and of the completion barrier of    *)
(* the transaction dispatcher, for every value of the constants that     *)
(* satisfies ConstAssumption.  They rest on two lemmas about the queues:  *)
(* how Append and Tail change the number of items of a transaction.       *)
(***************************************************************************)
EXTENDS TrxDispatcherProofs, FiniteSetTheorems

(* The items of t in a queue are a finite set of its positions.           *)
LEMMA PendingInFinite ==
    ASSUME NEW S, NEW q \in Seq(S), NEW t
    PROVE  /\ IsFiniteSet(PendingIn(q, t))
           /\ PendingIn(q, t) \subseteq 1..Len(q)
<1>1. PendingIn(q, t) \subseteq 1..Len(q)
  BY DEF PendingIn
<1>2. IsFiniteSet(1..Len(q))
  BY FS_Interval
<1>3. QED BY <1>1, <1>2, FS_Subset

(* A send (Append) adds one item of t when the sent item belongs to t.   *)
LEMMA PendingAppend ==
    ASSUME NEW S, NEW q \in Seq(S), NEW x \in S, NEW t
    PROVE  Cardinality(PendingIn(Append(q, x), t))
             = Cardinality(PendingIn(q, t)) + (IF x.trx = t THEN 1 ELSE 0)
<1>1. PendingIn(Append(q, x), t)
        = IF x.trx = t THEN PendingIn(q, t) \cup {Len(q) + 1}
                       ELSE PendingIn(q, t)
  BY DEF PendingIn
<1>2. Len(q) + 1 \notin PendingIn(q, t)
  BY PendingInFinite
<1>3. IsFiniteSet(PendingIn(q, t))
  BY PendingInFinite
<1>4. CASE x.trx = t
  <2>1. Cardinality(PendingIn(q, t) \cup {Len(q) + 1})
          = Cardinality(PendingIn(q, t)) + 1
    BY <1>2, <1>3, FS_AddElement
  <2>2. QED BY <1>1, <1>4, <2>1
<1>5. CASE x.trx # t
  BY <1>1, <1>3, <1>5, FS_CardinalityType
<1>6. QED BY <1>4, <1>5

(* A receive (Tail) removes one item of t when the head belongs to t.     *)
LEMMA PendingTail ==
    ASSUME NEW S, NEW q \in Seq(S), q # << >>, NEW t
    PROVE  Cardinality(PendingIn(Tail(q), t))
             = Cardinality(PendingIn(q, t)) - (IF Head(q).trx = t THEN 1 ELSE 0)
<1> DEFINE T == PendingIn(Tail(q), t)
           P == PendingIn(q, t)
           f == [i \in T |-> i + 1]
<1>1. f \in Bijection(T, P \ {1})
  <2>1. \A i \in T : i + 1 \in P \ {1}
    BY DEF PendingIn
  <2>2. f \in [T -> P \ {1}]
    BY <2>1
  <2>3. \A j \in P \ {1} : j - 1 \in T /\ f[j - 1] = j
    BY DEF PendingIn
  <2>4. \A i, k \in T : f[i] = f[k] => i = k
    BY DEF PendingIn
  <2>5. QED BY <2>2, <2>3, <2>4 DEF Bijection, Injection, Surjection, IsInjective
<1>2. IsFiniteSet(T) /\ IsFiniteSet(P)
  <2>1. Tail(q) \in Seq(S)
    OBVIOUS
  <2>2. IsFiniteSet(T)
    BY <2>1, PendingInFinite
  <2>3. IsFiniteSet(P)
    BY PendingInFinite
  <2>4. QED BY <2>2, <2>3
<1>3. Cardinality(T) = Cardinality(P \ {1})
  BY <1>1, <1>2, FS_Bijection DEF ExistsBijection
<1>4. 1 \in P <=> Head(q).trx = t
  BY DEF PendingIn
<1>5. Cardinality(P \ {1}) = IF 1 \in P THEN Cardinality(P) - 1 ELSE Cardinality(P)
  BY <1>2, FS_RemoveElement
<1>6. Cardinality(P) \in Nat
  BY <1>2, FS_CardinalityType
<1>7. CASE Head(q).trx = t
  BY <1>3, <1>4, <1>5, <1>7
<1>8. CASE Head(q).trx # t
  BY <1>3, <1>4, <1>5, <1>6, <1>8
<1>9. QED BY <1>7, <1>8

-----------------------------------------------------------------------------
(* The touches pushAccounts queues for t belong to t.                      *)
LEMMA AccItemTrx ==
    ASSUME NEW t \in Txs, NEW k \in 1..NAcc(t)
    PROVE  AccItems(t)[k].trx = t
<1>1. CASE To[t] # Nil /\ Contract[t] # Nil
  BY <1>1 DEF NAcc, AccItems, AccTouch
<1>2. CASE To[t] # Nil /\ Contract[t] = Nil
  BY <1>2 DEF NAcc, AccItems, AccTouch
<1>3. CASE To[t] = Nil /\ Contract[t] # Nil
  BY <1>3 DEF NAcc, AccItems, AccTouch
<1>4. CASE To[t] = Nil /\ Contract[t] = Nil
  BY <1>4 DEF NAcc, AccItems, AccTouch
<1>5. QED BY <1>1, <1>2, <1>3, <1>4

(* The state WgAccounting is about: the counters, the queues and the items *)
(* the consumers hold.                                                     *)
WgVars == <<wg, outAccount, outLog, acur, lcur>>

(* A step that touches none of them keeps WgAccounting.                    *)
LEMMA WgFrame ==
    ASSUME WgAccounting, UNCHANGED WgVars
    PROVE  WgAccounting'
BY DEF WgAccounting, Pending, PendingIn, WgVars

(* The steps of the dispatcher other than the sends, and the steps of the  *)
(* environment and of waitAndStore, leave the counters and queues alone.  *)
LEMMA WgUntouched ==
    ASSUME [Next]_vars, ~SendAccount, ~SendLog, ~AccTake, ~AccDone,
           ~LogTake, ~LogDone
    PROVE  UNCHANGED WgVars
BY Zenon
DEF WgVars, Next, vars, Dispatcher, Consumers, Environment,
    SourceSend, SourceClose, Tick, Close, DispatchStop, DispatchInClosed,
    SignOff, DispatchTick, DispatchReceive, Spawn, Broadcast, WaitAndStore,
    SubscriberRead, srcVars, dispVars, qVars, trxVars, blkVars, stopVars,
    subVars, conVars

(* The number of items of t in a queue is a natural number.              *)
LEMMA PendingInNat ==
    ASSUME NEW S, NEW q \in Seq(S), NEW t
    PROVE  Cardinality(PendingIn(q, t)) \in Nat
BY PendingInFinite, FS_CardinalityType

(* The types of the state WgAccounting is about.                          *)
LEMMA WgTypes ==
    ASSUME TypeOK
    PROVE  /\ wg \in [Txs -> Int]
           /\ outAccount \in Seq(AccTouches) /\ outLog \in Seq(LogRecords)
           /\ acur \in AccTouches \cup {NoItem}
           /\ lcur \in LogRecords \cup {NoItem}
           /\ fan \in Nat
           /\ dpc = "fanout" => cur \in Txs
BY DEF TypeOK, TypeData

(* WgAccounting is preserved by every step between well-typed states.    *)
LEMMA WgStep ==
    ASSUME TypeOK, WgAccounting, [Next]_vars
    PROVE  WgAccounting'
<1> SUFFICES ASSUME NEW t \in Txs PROVE wg'[t] = Pending(t)'
  BY DEF WgAccounting
<1>0. /\ 0 \notin Txs /\ NoItem.trx = 0
      /\ wg[t] = Pending(t)
      /\ Cardinality(PendingIn(outAccount, t)) \in Nat
      /\ Cardinality(PendingIn(outLog, t)) \in Nat
  BY WgTypes, PendingInNat DEF Txs, NoItem, WgAccounting
<1>1. CASE SendAccount
  <2>0. cur \in Txs /\ fan \in Nat /\ fan < NAcc(cur)
    BY <1>1, WgTypes DEF SendAccount
  <2>1. fan \in 0..NAcc(cur) - 1 /\ cur \in Txs
    BY <2>0, AccItemsType DEF NAcc
  <2>2. AccItems(cur)[fan + 1] \in AccTouches /\ AccItems(cur)[fan + 1].trx = cur
    BY <2>1, AccItemTrx, AccItemsType DEF NAcc
  <2>3. Cardinality(PendingIn(outAccount', t))
          = Cardinality(PendingIn(outAccount, t)) + (IF cur = t THEN 1 ELSE 0)
    <3>1. outAccount' = Append(outAccount, AccItems(cur)[fan + 1])
      BY <1>1 DEF SendAccount
    <3>2. QED BY <3>1, <2>2, WgTypes, PendingAppend
  <2>4. wg'[t] = wg[t] + (IF cur = t THEN 1 ELSE 0)
    BY <1>1, <2>1, WgTypes DEF SendAccount
  <2>5. UNCHANGED <<outLog, acur, lcur>>
    BY <1>1 DEF SendAccount, conVars
  <2>6. QED BY <1>0, <2>3, <2>4, <2>5 DEF Pending
<1>2. CASE SendLog
  <2>1. cur \in Txs /\ fan \in Nat /\ NAcc(cur) <= fan
    BY <1>2, WgTypes DEF SendLog
  <2>2. LogItem(cur, fan - NAcc(cur) + 1) \in LogRecords
        /\ LogItem(cur, fan - NAcc(cur) + 1).trx = cur
    <3>1. NAcc(cur) \in Nat
      BY <2>1, AccItemsType DEF NAcc
    <3>2. QED BY <2>1, <3>1 DEF LogItem, LogRecords
  <2>3. Cardinality(PendingIn(outLog', t))
          = Cardinality(PendingIn(outLog, t)) + (IF cur = t THEN 1 ELSE 0)
    <3>1. outLog' = Append(outLog, LogItem(cur, fan - NAcc(cur) + 1))
      BY <1>2 DEF SendLog
    <3>2. QED BY <3>1, <2>2, WgTypes, PendingAppend
  <2>4. wg'[t] = wg[t] + (IF cur = t THEN 1 ELSE 0)
    BY <1>2, <2>1, WgTypes DEF SendLog
  <2>5. UNCHANGED <<outAccount, acur, lcur>>
    BY <1>2 DEF SendLog, conVars
  <2>6. QED BY <1>0, <2>3, <2>4, <2>5 DEF Pending
<1>3. CASE AccTake
  <2>1. outAccount # << >> /\ outAccount' = Tail(outAccount)
    BY <1>3 DEF AccTake
  <2>2. Cardinality(PendingIn(outAccount', t))
          = Cardinality(PendingIn(outAccount, t))
            - (IF Head(outAccount).trx = t THEN 1 ELSE 0)
    BY <2>1, WgTypes, PendingTail
  <2>3. acur = NoItem /\ acur' = Head(outAccount)
    BY <1>3 DEF AccTake
  <2>4. UNCHANGED <<wg, outLog, lcur>>
    BY <1>3 DEF AccTake, trxVars
  <2>5. QED BY <1>0, <2>2, <2>3, <2>4 DEF Pending
<1>4. CASE LogTake
  <2>1. outLog # << >> /\ outLog' = Tail(outLog)
    BY <1>4 DEF LogTake
  <2>2. Cardinality(PendingIn(outLog', t))
          = Cardinality(PendingIn(outLog, t))
            - (IF Head(outLog).trx = t THEN 1 ELSE 0)
    BY <2>1, WgTypes, PendingTail
  <2>3. lcur = NoItem /\ lcur' = Head(outLog)
    BY <1>4 DEF LogTake
  <2>4. UNCHANGED <<wg, outAccount, acur>>
    BY <1>4 DEF LogTake, trxVars
  <2>5. QED BY <1>0, <2>2, <2>3, <2>4 DEF Pending
<1>5. CASE AccDone
  <2>1. acur \in AccTouches /\ acur' = NoItem
    BY <1>5, WgTypes DEF AccDone, AccTouches, NoItem
  <2>2. acur.trx \in Txs
    BY <2>1 DEF AccTouches
  <2>3. wg'[t] = wg[t] - (IF acur.trx = t THEN 1 ELSE 0)
    BY <1>5, <2>2, WgTypes DEF AccDone
  <2>4. UNCHANGED <<outAccount, outLog, lcur>>
    BY <1>5 DEF AccDone, qVars
  <2>5. QED BY <1>0, <2>1, <2>3, <2>4 DEF Pending
<1>6. CASE LogDone
  <2>1. lcur \in LogRecords /\ lcur' = NoItem
    BY <1>6, WgTypes DEF LogDone, LogRecords, NoItem
  <2>2. lcur.trx \in Txs
    BY <2>1 DEF LogRecords
  <2>3. wg'[t] = wg[t] - (IF lcur.trx = t THEN 1 ELSE 0)
    BY <1>6, <2>2, WgTypes DEF LogDone
  <2>4. UNCHANGED <<outAccount, outLog, acur>>
    BY <1>6 DEF LogDone, qVars
  <2>5. QED BY <1>0, <2>1, <2>3, <2>4 DEF Pending
<1>7. CASE ~SendAccount /\ ~SendLog /\ ~AccTake /\ ~AccDone /\ ~LogTake /\ ~LogDone
  BY <1>7, WgUntouched, WgFrame DEF WgAccounting
<1>8. QED BY <1>1, <1>2, <1>3, <1>4, <1>5, <1>6, <1>7

(* The WaitGroup of every transaction counts exactly its items that are   *)
(* queued or held by a consumer (WgAccounting), in every reachable state. *)
THEOREM WgAccountingHolds == Spec => []WgAccounting
<1>1. Init => WgAccounting
  <2> SUFFICES ASSUME Init, NEW t \in Txs PROVE wg[t] = Pending(t)
    BY DEF WgAccounting
  <2>1. PendingIn(outAccount, t) = {} /\ PendingIn(outLog, t) = {}
    BY DEF Init, PendingIn
  <2>2. acur.trx # t /\ lcur.trx # t
    BY ConstAssumption DEF Init, NoItem, Txs
  <2>3. wg[t] = 0
    BY DEF Init
  <2>4. QED BY <2>1, <2>2, <2>3, FS_EmptySet DEF Pending
<1>2. QED BY <1>1, WgStep, TypeCorrect, PTL DEF Spec

=============================================================================
