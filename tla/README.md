# Formal models of explorer-api-gql

This directory holds TLA+ models of two parts of the API server. The first is
the transaction dispatcher (`internal/repository/svc/dispatch_trx.go`), alone,
across a crash and restart, and as a refinement of an abstract ingestion
contract. The second is the withdraw request collection
(`internal/repository/db/withdrawal.go`): its keyset pagination and the
writes of `AddWithdrawal`. All are checked with TLC on small instances, and
every safety invariant of the passing dispatcher, pagination and store runs,
and the safety half of the dispatcher's refinement, are proved with TLAPS
for every value of the constants.

## Inventory of the system

| Part | Source | Status | Module |
|---|---|---|---|
| Transaction dispatcher: `init`, `run`, `close`, the `dispatch` select loop, `process`, `pushAccounts`, `waitAndStore`, `updateLastSeenBlock` | `svc/dispatch_trx.go` | modelled | `TrxDispatcher` |
| Account consumer, log dispatcher and topic router (the other ends of `outAccount` and `outLog`) | not in `src/` | from the specification | `TrxDispatcher` |
| Upstream producer of `inTransaction`; subscriber of `onTransaction` | not in `src/` | from the specification | `TrxDispatcher` |
| Withdraw request list: `Withdrawals`, `wrListInit`, `wrListCollectRangeMarks`, `wrListBorderPk`, `wrListFilter`, `wrListOptions`, `wrListLoad` | `db/withdrawal.go` | modelled | `WithdrawalList` |
| Dispatcher crash and restart (`init`/`run` again, scanner resuming after the checkpoint) | `svc/dispatch_trx.go` | modelled | `TrxDispatcherRestart` |
| What the dispatcher promises: the ingestion contract | specification 4.1, 5. | abstract | `TrxIngest` |
| Withdraw request store: `AddWithdrawal`, `isWithdrawalKnown`, `UpdateWithdrawal`, `initWithdrawalsCollection` | `db/withdrawal.go` | modelled | `WithdrawalStore` (and the insert in `WithdrawalList`) |
| `Withdrawal` (single lookup), `WithdrawalsSumValue` (aggregation) | `db/withdrawal.go` | not modelled | read-only database calls |
| Cache bridge (BigCache construction) | `unnamed/part_003` | not modelled | configuration only |
| Governance RPC bridge | `p2p/bridge_test.go` | not modelled | read-only RPC calls and formatting |
| GraphQL schema, Dockerfile, example config | `unnamed/part_000..002`, `*.graphql`, `docker/`, `doc/` | not modelled | no behaviour |

### How the dispatcher's parts interact

A block scanner writes transaction events to `inTransaction`. The dispatch
goroutine is one `select` over three cases: `sigStop`, the ticker `bot.C` and
`inTransaction`. For each well-formed event, `process` works through the
transaction in this order:

1. It creates a fresh `sync.WaitGroup`.
2. `pushAccounts` calls `wg.Add(1)` and then sends on `outAccount`, once for
   the sender, once for the recipient and once for a created contract.
3. It does the same for every log, sending on `outLog`.
4. It spawns `waitAndStore`.
5. It broadcasts the transaction on `onTransaction`.

`waitAndStore` blocks in `wg.Wait()` until the consumers have called `Done`
on every item of the transaction. It then:

- stores the transaction (a failure is only logged);
- bumps the count estimate;
- caches the transaction;
- stores the transaction's block number in the atomic `blkObserver`.

On every tick the same dispatch goroutine copies `blkObserver` into the
database (`UpdateLastKnownBlock`). The dispatcher stops in one of two ways:

- `close()` stops the ticker and sends on `sigStop`;
- the upstream closes `inTransaction`.

Either way the deferred function closes `sigStop`, `outAccount` and `outLog`.

## Modules

### `TrxDispatcher.tla`

**Constants.**
- `NTx` events, with their block numbers `Blk`, addresses `From`, `To` and
  `Contract` (or `Nil`), and the first topics of their logs `Logs`.
- `Malformed`: the events with a nil block or transaction.
- `Routed`: the topics the router has handlers for.
- `AccCap`, `LogCap` and `BcastCap`: the channel capacities.
- Three switches: whether database writes may fail, whether the upstream may
  close, and whether the orchestrator may call `close()`.

**State** (one variable per piece of program state):
- `dpc`: where the dispatch goroutine is (`select`, `fanout`, `bcast`, `exit`).
- `cur` and `fan`: the event in hand and how many of its items are already
  sent.
- The two queues as sequences.
- `wg[t]`: the WaitGroup counter of each transaction.
- `waiting` and `finished`: `waitAndStore` goroutines blocked and done.
- `stored`, `trxCount` and `cached`: the results of the database and cache
  calls.
- `blkObserver` and `checkpoint`: the atomic observer and the persisted last
  known block.
- `tickerOn` and `tick`: the ticker and its one-slot channel.
- `sigStop`: `empty`, `full` or `closed`.
- `closeCalled` and `panicked`.
- `bcast` and `bread`: the `onTransaction` buffer.
- `acur`, `lcur`, `registered` and `handled`: the consumers.

**Actions, and the code each one models:**

| Action | Models |
|---|---|
| `DispatchStop` | the `sigStop` case |
| `DispatchInClosed` | `!ok` on `inTransaction`, reached only once the channel is drained |
| `DispatchTick` | `updateLastSeenBlock`, where the write may fail |
| `DispatchReceive` | reading an event; a malformed one is skipped with `continue` |
| `SendAccount` | `wg.Add(1)` together with the blocking send in `pushAccounts` |
| `SendLog` | `wg.Add(1)` together with the blocking send in `process`'s log loop |
| `Spawn` | `go waitAndStore` |
| `Broadcast` | `onTransaction <- trx` |
| `WaitAndStore(t)` | the whole goroutine after `Wait` returns |
| `Close` | `close()` |
| `Tick` | the ticker firing |

- The deferred sign-off is `SignOff`, which is part of both stopping actions.
- The consumers are `AccTake`/`AccDone` and `LogTake`/`LogDone`. A log whose
  topic has no handler is dropped, but `Done` is still called.

### `WithdrawalList.tla`

**Model of the data.** A document is a pair `[pk, cr]`: its `_id` and
`cr_time`. The collection `docs` only grows, through `AddWithdrawal`. The
constant `PkFollowsCreated` says whether each insert has the largest `_id` and
`cr_time` so far. That is the case when ids are allocated in time order.

**Actions.** One client runs the three queries of `Withdrawals` as three
actions, and inserts may land between them:

| Action | Models |
|---|---|
| `Withdrawals` | the zero-count error and `wrListInit`'s count and empty-list return |
| `CollectRangeMarks` | `wrListCollectRangeMarks` and `wrListBorderPk`; with a cursor it is always an error, because the string cursor is matched against the numeric `_id` and the row is decoded as `uint64` |
| `ListLoad` | `wrListFilter`, `wrListOptions`, the Find, `wrListLoad` and the final `Reverse` |

**Helpers.**
- `Fetch` selects by the `_id` range (`InRange`), sorts by `(cr_time, _id)` in
  the count's direction, and keeps `|count|+1` rows.
- `LoadItems` keeps all rows but the last, adds the last back when a boundary
  flag is set, and reverses the list for a negative count.

### `TrxIngest.tla` and the refinement

`TrxIngest` states what the dispatcher promises without channels or
WaitGroups. It has four variables: `read`, the events read; `issued[t]` and
`completed[t]`, the work items of `t` handed out and signalled done; and
`persisted`. Its actions say the following:

- `Read`: an event is read only once the last one is fully issued.
- `Issue`: the items of the last event read are issued.
- `Complete(t)`: an issued item completes.
- `Persist(t)`: a transaction is persisted once all its items completed.

Weak fairness on the last three is the promise that work is not left
half-done. `TrxDispatcher` instantiates it as `Ingest` with this mapping:

- `read <- next`;
- `issued` from `IssuedCount`, which is `fan` while `process` is sending the
  items of `cur` and all of them afterwards;
- `completed` as issued minus `Pending`, the items still queued or in a
  consumer's hands;
- `persisted <- finished`.

`IngestRefined == Ingest!Spec` is a property of the two main runs.

### `TrxDispatcherRestart.tla`

It extends `TrxDispatcher` with a bounded number of crashes (`MaxRestarts`).

- **What a crash keeps.** The database survives: `stored`, `trxCount`, the
  checkpoint and the consumers' effects.
- **What a crash loses.** Every goroutine, channel, WaitGroup and the
  observer.
- **What `Restart` does.** It models `init` and `run` again: `blkObserver`
  is back to 1 and there is a new ticker. The scanner (specification 3. and
  6.) resumes with the first event whose block is above the persisted
  checkpoint (`ResumeAfter`).

The history variable `resumed` records the checkpoint the latest start read.
`TrxDispatcher`'s `BlockOrder` asks that events come in block order, as the
chain data source delivers them; resuming "after a block" relies on it.

### `WithdrawalStore.tla`

A request is a record `(addr, to, req)`, and `docs[w]` counts its documents.
`AddWithdrawal(w)` models the whole call:

1. `IsWithdrawalKnown` finds `w` when it is stored and the lookup succeeds. A
   lookup error reads as "unknown", as in the code.
2. Then comes either `UpdateWithdrawal` (an upsert, which leaves the count
   alone) or `InsertWithdrawal`.
3. `InsertWithdrawal` is refused by a database error or, once the index
   exists, by the unique `(addr, to)` index (`PairTaken`).
4. After the first successful insert the `sync.Once` runs
   `initWithdrawalsCollection`. It creates the index, or panics if
   `PairDuplicated`.

The log handlers call it from the single log dispatcher goroutine, so calls
do not interleave. `calls[w] < MaxCalls` bounds the repeated deliveries of
one log.

### MC modules

`MCTrxDispatcher`, `MCTrxDispatcherRestart`, `MCWithdrawalList` and
`MCWithdrawalStore` give the constants concrete values. Addresses, topics,
delegators, validators and request IDs are model values.

## Runs

| Run | Checks | Result |
|---|---|---|
| `dispatch_close` | `TypeOK`, `WgAccounting`, `BarrierSafety`, `CheckpointSound`, `SpawnedCompletes`, `IngestRefined`; shutdown through `close()` | pass |
| `dispatch_eof` | the same, with shutdown by the upstream closing `inTransaction` | pass |
| `dispatch_regress` | `CheckpointMonotone` | violated: the last known block goes 3, then 2 |
| `restart_reset` | `CheckpointKeptAcrossRestart` | violated: the first tick after a restart writes block 1 over the checkpoint |
| `restart_lost` | `NoLostTransaction` | violated: a crash after the checkpoint ran ahead loses a transaction |
| `close_after_eof` | `NoSendOnClosedSigStop` | violated: `close()` panics |
| `store_pass` | `NoDuplicateRequest`, with failing lookups and writes | pass |
| `store_lost` | `AddedAreStored` | violated: the unique `(addr, to)` index refuses a second request |
| `list_pass` | `TypeOK`, `WindowNewestFirst` | pass |
| `list_count` | `WindowWithinCount` | violated |
| `list_flags` | `BoundaryFlagsExact` | violated |
| `list_cursor` | `CursorResolves` | violated: a cursor naming a stored request fails |

**What the dispatcher properties say.**
- `WgAccounting`: every WaitGroup counter equals the number of that
  transaction's items that are queued or in a consumer's hands. Hence the
  counter is never negative, and it is zero only when no work is left.
- `BarrierSafety`: when `waitAndStore` completes, every account of the
  transaction is recorded and every routed log is handled.
- `CheckpointSound`: the persisted block is the block of a completed
  transaction, or one of the initial values.
- `SpawnedCompletes`: every spawned `waitAndStore` eventually completes.
- `IngestRefined`: every behaviour of the dispatcher is a behaviour of
  `TrxIngest` under the mapping above, including its fairness. In
  particular, the dispatcher reads the next event only after the last one is
  fully fanned out, and it persists a transaction only after every item is
  done.

**What the store property says.** `NoDuplicateRequest`: no request is ever
stored twice, even when a lookup fails and a stored request is inserted
again. Only the unique index prevents that.

**What the pagination properties say.**
- `WindowNewestFirst`: every page is newest-first, including after the reverse
  for a negative count.

**The violations** are findings; `PROJECT.json` describes them.
- The `waitAndStore` goroutines finish in any order, and each stores its own
  block in the observer. So the persisted last known block can go down.
  The specification leaves this open in 9.
- After a restart `blkObserver` starts again at 1, and the first tick writes
  it over the checkpoint the process resumed from
  (`CheckpointKeptAcrossRestart`).
- The checkpoint can also run ahead of an unstored earlier transaction. If
  the process then crashes, the scanner resumes after the checkpoint and
  that transaction is never stored.
- `close()` after the upstream has closed its channel sends on the closed
  `sigStop`.
- `AddWithdrawal` identifies a request by `(addr, to, req_id)`, but the
  unique index is on `(addr, to)`. A delegator's second withdraw request to
  the same validator is therefore never stored.
- Pages can hold `|count|+1` items when an insert lands between the queries.
- The boundary flags are set without looking at the data.
- A cursor is a string, `_id` is a number: `FindOne({_id: *cursor})` matches
  nothing and every request with a cursor fails (`CursorResolves`), where the
  specification (4.5, scenario A) returns the page after it.

## Bounds and why they suffice

**Dispatcher.** Three events are enough to reach every case:

- event 2 is malformed;
- event 1 has a recipient and two logs, one routed and one not;
- event 3 creates a contract and lies in a higher block than the other two.

The three queues have one slot each, so every blocking send happens. Two
transactions can have their `waitAndStore` pending at once, so they complete
in both orders. Ticks can fall between any two steps. That is what reaches
the checkpoint run-ahead and the `Stop`/pending-tick race.

**Restart.** The three events of `dispatch_close`, with one crash. A single
crash can fall between any two steps, including between a tick that has
written a run-ahead checkpoint and the `waitAndStore` of the earlier event,
and between a tick that wrote block 3 and the first tick of the new process.

**Store.** Two delegators, one validator and two request IDs give four
requests, two of them sharing each `(addr, to)` pair. Each is added up to
twice, and every lookup and write may fail. Two calls per request are the
fewest that reach "stored, lookup fails, insert again"; with two request IDs
per pair, the unique index can refuse a request.

**Pagination.** Three `_id`s, two creation times and counts -2..2 give:

- both directions, with and without a cursor (every cursor is a stored `_id` or none);
- documents whose `_id` order disagrees with their `cr_time` order;
- up to three inserts between the queries.

## Fairness

Go's scheduler runs every runnable goroutine, so weak fairness is assumed
for:

- the dispatch goroutine;
- each `waitAndStore`;
- the two consumer loops.

The upstream, the ticker, the orchestrator and the subscriber get no
fairness: they are free to stop. `CHECK_DEADLOCK FALSE` is set in the
dispatcher's cfgs because the system really does stop once the dispatcher has
signed off and the queues are drained. The pagination model never deadlocks:
a new request is always possible. The restart runs and `store_pass` do not
check deadlock: the bounds on crashes and calls end every behaviour.

## Proofs

Six modules hold the TLAPS proofs. Each EXTENDS the module it is about, and
each proof holds for every value of the constants that satisfies the named
assumption (`ConstAssumption`, `WithdrawalListAssumption`,
`WithdrawalStoreAssumption`). Every inductive invariant below was checked
with TLC on a run before it was proved.

### `TrxDispatcherProofs.tla`

- **`TypeCorrect`: `Spec => []TypeOK`**, for every `NTx` and every capacity.
  `TypeOK` is split into `TypeFlags`, proved with Zenon, and `TypeData`,
  proved per action with SMT. The lemma `AccItemsType` shows that the
  touches of `pushAccounts` are account touches.
- **`CheckpointSoundness`: `Spec => []CheckpointSound`.** `CheckpointSound`
  alone is not inductive: a tick copies `blkObserver`, so the proof needs the
  strengthening `ObserverSound`. It says that `blkObserver` is 1 or the block
  of a completed `waitAndStore`. `WaitAndStore(t)` adds `t` to `finished` as
  it sets the observer to `Blk[t]`. `DispatchTick` copies the observer or
  leaves the checkpoint alone.

### `TrxDispatcherQueueProofs.tla`

**`WgAccountingHolds`: `Spec => []WgAccounting`.** The invariant is
inductive given `TypeOK`. The proof rests on cardinality lemmas about the
positions of `t`'s items in a queue:

- `PendingAppend`: a send adds one position when the item belongs to `t`;
- `PendingTail`: a receive removes one position exactly when the head
  belongs to `t`.

Each `wg.Add(1)` pairs with a send, and each `Done` with a consumer
dropping the item it holds.

### `TrxDispatcherBarrierProofs.tla`

**`BarrierSafe`: `Spec => []BarrierSafety`.** `BarrierSafety` alone is not
inductive: it speaks only of finished transactions. The strengthening
`BarrierInv` adds three things:

- `DispatchOnLast`: the dispatcher works on the last event read, and a
  spawned `waitAndStore` belongs to an event whose items were all sent;
- `AccAccounted` and `LogAccounted`: every sent item is queued, held by a
  consumer, or recorded.

When `wg.Wait` returns, `WgAccounting` gives zero pending items. Then
`NothingHeld` shows that every item is recorded. One lemma per action
proves the step (`BarrierReceive`, `BarrierSendAccount`, ...,
`BarrierQuiet` for the actions that touch none of this state). Together
they give `BarrierInvHolds`.

### `TrxDispatcherRefinementProofs.tla`

**`IngestSafety`: `Spec => Ingest!Init /\ [][Ingest!Next]_Ingest!avars`.**
This is the safety part of `IngestRefined`. The pattern is the usual one:
the initial state maps to `Ingest!Init` (`RefInit`), and every step maps to
an abstract step or a stutter (`RefStep`).

The mapped `completed[t]` is `IssuedCount(t) - Pending(t)`. Under
`WgAccounting` this equals `IssuedCount(t) - wg[t]` (`CompletedByWg`), so:

- a send is `Issue`;
- a `Done` is `Complete`;
- `DispatchReceive` is `Read`: `DispatchOnLast` says the last event is fully
  issued;
- `WaitAndStore` is `Persist`.

`Persist` needs `t \notin persisted`. That follows from the extra
invariant `WaitingApart` (no transaction is both waiting and finished),
proved inline from `DispatchOnLast`.

### `WithdrawalStoreProofs.tla`

**`NoDuplicates`: `Spec => []NoDuplicateRequest`.** The proof uses the
strengthening `StoreInv`:

- nothing is stored before the `sync.Once` has created the unique index;
- once it has run, the index exists or the process panicked.

An insert after the Once is refused for a pair already taken. The lemmas
`InsertEffect` and `AddEffect` give what the two write paths do.

### `WithdrawalListProofs.tla`

**`ListTypeCorrect` and `PagesNewestFirst`** prove `TypeOK` and
`WindowNewestFirst`. They share the strengthening `ListInv`, which adds
three facts:

- a running query has a non-zero count;
- `wrListCollectRangeMarks` runs only on a non-empty collection;
- `wrListLoad` runs only without a cursor, since a cursor ends in the error.

The model sorts by rank: position `i` holds the document with `i - 1`
documents before it. Generic lemmas (`RankBound`, `RankMonotone`,
`RankOnto`, `SortedByRank`) show that this lists a finite set in order, for
any strict total order. `NewerOrder` shows that `(cr_time, _id)` is such an
order. `FetchShape` and `LoadShape` carry the order through the `Find`
limit and through the final reversal for a negative count.

### Only model-checked

- `SpawnedCompletes`, and the fairness conjuncts of `IngestRefined`. These
  are liveness under weak fairness, and TLAPS does not handle `ENABLED` or
  liveness under fairness.
- The `violation` runs (`CheckpointMonotone`, `NoSendOnClosedSigStop`,
  `NoLostTransaction`, `WindowWithinCount`, `BoundaryFlagsExact`,
  `CursorResolves`, `CheckpointKeptAcrossRestart`, `AddedAreStored`). These state what the spec says,
  and TLC shows that the code breaks it, so there is nothing to prove.
- The restart model `TrxDispatcherRestart`: both of its runs are
  violations.

## Not modelled

- `Withdrawal` and `WithdrawalsSumValue` only read the collection.
- The cache bridge only builds a BigCache from configuration.
- The governance RPC bridge makes read-only contract calls and converts their
  results.
- The schema, the Dockerfile and the example configuration have no
  behaviour.

## Plan for further work

1. A consumer that stops while items are queued, to show `waitAndStore`
   blocked forever.
2. Filters in the pagination.
3. A restart that keeps the checkpoint (clamped to the value read at start), and proofs of the dispatcher's invariants across it.
