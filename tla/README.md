# A verification development for the order execution module

The program (`src/order-execution-module/`, C++17, headers under `src/`) turns
trading signals into orders on centralised (CEX) and decentralised (DEX)
exchanges.  A signal without a group goes through a single-leg pipeline; two
signals of one group form an arbitrage pair whose legs must both execute or be
taken back.  Exchanges are mocks that answer on threads of their own.

Paths below are relative to `src/order-execution-module/src/` unless they name a
document of the repository.

## 1. Inventory

| component | state | operations | hard behaviour |
|---|---|---|---|
| `core/arb_coordinator.h` ArbCoordinator | `pairs_` under `mutex_`; thread list under `threads_mutex_` | `add_leg`, `dispatch_pair`, `on_fill`, acknowledgement threads, deadline, risk-window monitor, unwind threads, `reset`, destructor | six kinds of threads per group share one status; locks released between decision and sending; one-shot timers; no cancel at the exchange |
| `core/portfolio_guard.h` PortfolioGuard over `model/portfolio.h` | cash, `margin_reserved`, `margin_used`, `positions` under a spin lock | check-and-reserve (one, pair), fill, release, `get_state` (unlocked), `reset` | margin entries shared by key, checks that must hold under every order of operations |
| `core/order_manager.h` OrderManager | `orders_` under a spin lock, dispatch threads | `process_signal`, single-leg pipeline, `on_fill`, `wait_for_completion`, `reset` | fills matched by an exchange id that another thread stores; check and registration in two sections |
| `core/conflict_resolver.h` ConflictResolver | in-flight entries per symbol under a spin lock | `check`, `register_order`, `update_status`, `cleanup` | cancels with a 500 ms limit while spinning others out; stale entries |
| `util/flat_hash_map.h` FlatHashMap | fixed open-addressing table | find, get-or-insert, erase with re-hashing, clear | probing chains after an erase, leftover values, a full table |
| `gateway/mock_cex_gateway.h`, `mock_dex_gateway.h` | cancelled ids, pending threads, callback | `send_order`, `cancel_order`, fill or revert callback | answers and fills on different threads |
| `transport/signal_receiver.h` SignalReceiver | none | `validate` | truncation, clock differences |
| `util/async_logger.h` AsyncLogger | ring of slots with a `ready` flag each, two heads, an I/O thread | push, print, destructor | slots a lap apart, producers waiting for one slot |
| `util/thread_pool.h` MPMCQueue, ThreadPool | cells with sequence numbers, two positions, workers (not used by the program) | enqueue, dequeue, submit, destructor | lock-free claims overtaken before the cell is written, draining while tasks submit tasks |
| `util/spinlock.h`, `fixed_point.h`, `uuid.h`, `pos_key.h`, `latency_tracker.h` | flag; none; counters | lock, unlock; conversions | - |
| `main.cpp`, `test/`, `config/` | - | scenarios | - |

How they interact.  `process_signal` validates and calls `add_leg` or the
single-leg pipeline on the caller's thread.  Both reserve margin in the one
PortfolioGuard and call `send_order`, which returns a future; a thread per order
waits for it.  Gateways report fills and reverts through one callback
(`OrderManager::on_fill`), on the gateway's threads; it passes every report to the
coordinator and then to its own orders.  A revert is a report with quantity and
price 0.

What makes the components correct.  Coordinator: a pair is dispatched whole, once
and only if it is paid for; its legs' margin stays reserved until they are booked
or given up; both legs are booked or none; a reverse order needs an executed CEX leg
and a cause of its own; when all is over the margin is used or back; every pair
settles; no worker in progress is lost, and none is waited for in vain.  Ledger:
reserved and used margin never exceed the cash; positions agree with what is booked.  Pipeline: what is acceptable gets an order and nothing else
leaves a trace; every fill is booked once; an end is final.  Resolver: a signal
passes only when nothing against it can still be cancelled, and a fill is not
forgotten for a cancel.  Map: behaves as a map.  Logger: prints what was logged, in
order and in full.  Pool: a first-in first-out queue whose accepted tasks all run.

PROJECT.json lists the hazards at their lines and the property that watches each.

## 2. Plan and modules

The order in which the parts were taken, the most important behaviour first.

| part | modules | abstract specification | proofs |
|---|---|---|---|
| coordinator and ledger (section 3) | `PortfolioGuard`, `ArbCoordinator`, `MCArb` | `ArbPromise` | `PortfolioGuardProofs`, `ArbCoordinatorProofs` |
| its threads and locks (section 4) | `ArbThreads`, `MCThreads` | - | `ArbThreadsProofs` |
| table (section 5) | `FlatHashMap`, `MCTable` | `KeyedStore` | `FlatHashMapProofs` |
| single-leg pipeline (section 6) | `OrderManager` over `PortfolioGuard` and `SignalReceiver`, `MCManager` | - | `OrderManagerProofs` |
| conflict resolver (section 7) | `ConflictResolver`, `MCResolver` | - | `ConflictResolverProofs` |
| logger (section 8) | `AsyncLogger` | - | `AsyncLoggerProofs` |
| thread pool (section 9) | `ThreadPool`, `MCPool` | `PoolPromise` | `ThreadPoolProofs` |

Every safety property of a passing run is also a theorem, but for `MarginComesBack`.
Left: the composition of the
pipeline with the coordinator through one ledger whose margin entries are shared by
signals of one id.

## 3. The coordinator

### Modules

- `PortfolioGuard.tla`: the ledger as a record and its operations as functions on
  it.  Each operation of the code is one critical section of a spin lock, so a
  handler that calls several composes them.  Keys stand for "symbol:signal_id".
  An absent entry and an entry of 0 are one and the same, which is what an exact
  map gives.  Amounts are integers.
- `ArbCoordinator.tla`: one action per critical section of `mutex_` and per step a
  thread makes outside it.

  | code | actions |
  |---|---|
  | `add_leg` up to the unlock | `AddLeg` (and the caller is counted in `callers` when it goes on to `dispatch_pair`) |
  | `start_deadline_timer`'s thread | `DeadlineFires` |
  | `dispatch_pair` under the lock | `DispatchTooLate`, `DispatchUnaffordable`, `DispatchPair` |
  | the rest of `dispatch_pair` | `SendLeg` for CEX, then DEX; `StartRiskWindowMonitor` |
  | gateways | `GatewayAccepts`, `GatewayRefuses`, `GatewayFills`, `GatewayReverts` |
  | acknowledgement threads | `AckArrives`, `RefusalArrives` |
  | `on_fill` | `FillArrives`, `RevertArrives`, `UnmatchedReport` |
  | `start_risk_window_monitor`'s thread | `RiskWindowExceeded` |
  | `start_unwind`'s thread | `UnwindAccepted`, `UnwindRefused`, `UnwindReports` |

  A sleep is an action that may be taken at any moment after its start; a future
  that is ready is an `ack` of "ok" or "fail"; a gateway's fill thread may run
  before or after the future is waited for.  "NONE" is a group without an ArbPair,
  ALL_FILLED never survives its critical section.  An order is the n-th leg
  submitted for a venue of a group; `leg` says which one the slot holds, `copied`
  which one was sent, and `reversals` which ones `start_unwind` made the reverse of:
  it copies the signal that is in the slot when it runs (line 347).
- `ArbPromise.tla`: what a user may rely on, without statuses and threads: a group
  is decided once; of a live or broken group each leg executes at most once;
  hedged only after both executed, and finally; reverse orders only for a broken
  group whose CEX leg was executed, two at most.  A leg of a broken group may still be
  sent and executed: the code does nothing against it, so nothing is promised.
- `MCArb.tla`: the values TLC uses.

### Runs

| run | instance | shows |
|---|---|---|
| `arb_pairs` | two groups, one leg each per venue, cash for one pair (1.6 million states, groups symmetric) | `TypeOK`, `InFlightIsReserved`, `NoOvercommit`, `BookedTogether`, `PositionsMatchUsed`, `MarginComesBack` |
| `arb_resubmit` | one group, two legs per venue, fair (74 thousand states) | `ReversesJustified`, `CompletedIsEarned`, `PromiseKept`, `HedgedStaysCompleted` when late and duplicate legs meet every state; `AssemblyEnds`; `PairSettles`, that a pair settles and stays so unless a leg was submitted again |

Bounds.  `MaxSubmits` caps the calls of `add_leg` per group and venue; a second
call is the first that overwrites, and a third overwrites in the same way.  Two
groups meet only in the ledger, and cash for one pair makes each outcome of the
race there (first, second, unaffordable, freed again) reachable.  The CEX refuses
and the DEX reverts, as the mocks do.  Deadlock is not checked: signals end, and
the threads with them.

Fairness (`FairSpec`).  Threads are scheduled, sleeps end and futures become
ready, so each internal step is weakly fair; a gateway's choice between two
answers is fair as a disjunction.  That an accepted order is filled or reverted
in the end is a fact about the venue: it is assumed for the venues in
`Answering`.  Signals need not come.

`ReversesJustified` says how far a reverse order can be trusted: the exchange executed
the CEX leg, there is at most one for the risk window and one for a DEX reject, and what
is reversed is the executed order or one submitted later that has taken its slot.  The
last two allowances are what the code does; the documents want neither
(`bad_reversed_once` below).  `MarginComesBack` likewise names the one way margin is lost.

### Theorems

`PortfolioGuardProofs.tla` holds the lemmas about the ledger's operations that
both components cite.  `ArbCoordinatorProofs.tla` proves, for any groups, keys, signals,
prices, gateways and bounds that satisfy `GuardAssumption` and `ArbAssumption`, every
property of the two runs that is neither liveness nor `MarginComesBack`: `TypeCorrect`, `ReservedWhileInFlight`,
`NoBlindUnwind`, `CompletionEarned`; `Refinement` and from it `HedgedIsKept`; and of the
books `HedgesAreWhole`, `CashSuffices` and `PositionsAreUsed`.

All rest on one inductive invariant, `IInv`: `TypeOK` and, for each group,
`GroupInv`; reversals and books add a layer of their own.  None of the properties is inductive alone.  That margin stays
reserved in flight needs to know that nobody can call `dispatch_pair` without
both legs (`LegsPresent`) and that an undecided pair holds nothing
(`Undecided`), or its dispatch would reserve on top of something.  That an unwind
reverses an executed order needs that a FILLED leg is one the exchange reported
(`FilledIsReported`), although acknowledgements overwrite FILLED and late legs
replace the order; that there is one cause for each, and that the slot then holds the
executed order or a later one, is `ReversalInv`: no monitor runs before the dispatch is
over, reversals are made only in UNWINDING, FAILED and COMPLETED, and no more unwind
threads exist than reversals were made.  The last is also why the promise may say "two
at most".  That COMPLETED is earned, and final once hedged, needs that
the future of an executed order cannot say it was refused (`RefusalIsTrue`), that
gateways are untouched before the dispatching thread gets to them
(`UnsentIsIdle`), and that unwind threads exist only for pairs that have left the
fill states (`UnwindsKnown`).  Every action touches one group: each has a lemma
that it preserves the group's invariant and leaves the others' state alone
(`Frame`), `GroupStepKeepsInv` puts the two together.

The refinement maps each step to a step of the promise or a stutter:
`FateStep` for those that decide, hedge or break, `GatewayFillsPromise` and
`UnwindAcceptedPromise` for those that execute or reverse.

The theorems about the books need a second invariant, `BooksInv`, on top of it
(`BooksInvariance`).  That a pair is booked whole is not inductive, because a leg that is
submitted again changes which order a slot stands for: `LegIsLatest` says that a slot
holds the last leg submitted, `RecordedIsSent` that a reported fill is that of an order
that was sent, `UsedIsRecorded` that only a recorded order has used margin (so the order a
completing pair books has none yet, and is booked once), and `BookedWhole` that a group
has used margin for both sent orders in full or for none, unless a slot was taken over.
Every step either books nothing (`BooksNothing`), reserves for a dispatch, or completes a
pair (`StepKinds`); completing is taken as two bookings one after the other.

The sums in `NoOvercommit`, `PositionsMatchUsed` and, in section 6, `Solvent` and
`PositionsAreFills` are the ledger's own, over the keys.  The prover cannot instantiate
an induction principle with a predicate, so `PortfolioGuardProofs` does the induction on a
set: the sizes at which the fold of `SumFunction` fails to be what it should be have no
least element (`LeastElement`, `Induction`).  From it come what the proofs cite: a sum is
an integer (`SumType`), changes with one entry by as much as the entry does
(`SumUpdate`), is monotone (`SumIsMonotone`), and is 0 of zeros (`SumOfZeros`).  It needs
`Keys` to be finite, which `GuardAssumption` states: the code's table has a fixed number
of slots.

Two theorems speak of what their property does: `NoOvercommit` holds for orders that
execute no dearer than they were margined, and `PositionsMatchUsed` when no order executes
at a margin of zero, since an order booked at zero moves a position and leaves no used
margin behind to tell.  Liveness is only model-checked.

### Where the code departs from its documents

Each run below finds the behaviour; PROJECT.json quotes the lines.

| run | what happens |
|---|---|
| `bad_dex_reject_unwinds` | fill, then acknowledgement, then DEX revert: the acknowledgement turned FILLED into ACKNOWLEDGED, so no unwind |
| `bad_reversed_once` | the risk window starts an unwind (line 407); a DEX reject that comes later finds the CEX leg still FILLED and starts a second one (lines 325-329): two reverse orders for one execution |

Three more show as an exception that a checked property has to make.  `ReversesJustified`
allows a later order: when a second CEX leg has overwritten the executed one (line 80),
the reverse of an order that was never sent goes out (line 347); with `MaxSubmits` 2 TLC
finds that against `ReversedOnce` as well.  `MarginComesBack` excepts the DEX leg that
was filled before the CEX order was refused, whose margin stays reserved for ever (line
318 skips it).  `PairSettles` excepts groups with a leg submitted again: it replaces an
order that is out, whose report then matches nothing, and the pair may wait for ever.

The model has more of the kind, which no property is about: with the DEX leg filled
and the CEX leg refused or late the pair is FAILED and nobody unwinds the DEX
position (lines 311 and 411); the DEX leg is sent although the CEX order has been refused
and the pair failed meanwhile (line 262); the risk-window monitor looks
once, so a CEX fill that comes after it leaves the window open until the DEX
reports; a leg set to CANCELLED is not cancelled at its exchange and may fill (line
319); a leg that comes after the deadline stays CREATED while its caller is told
success (line 79); a late refusal or revert takes an unwound pair out of COMPLETED
(line 325), which is why `HedgedStaysCompleted` speaks of hedged pairs only.

### Abstractions

Time is the order of events.  Exchange types stand for exchanges, so two CEX
venues are not told apart.  The symbol, side, quantity and price of an order are
constants.  `order_update_cb_` is never set by the program and is left out.  The
unwind order's own fill matches no leg and changes nothing, so only its
acceptance is modelled.  `reset()`, the destructor and the second lock are in
section 4.  The group id's truncation to 15 characters would merge groups and is not
modelled.  Spreads, latencies and time stamps are only logged.

## 4. The coordinator's threads and locks

`ArbThreads.tla` takes the same code by its locks: `mutex_`, under which the pairs are
worked on, and `threads_mutex_`, under which threads are added to
`worker_threads_` and joined by `reset()` and the destructor.  A section that waits
for nothing is one step.  Two kinds of section wait for `threads_mutex_` with
`mutex_` held: the first leg's, which starts the deadline timer (`AddFirstLeg`,
`StartWorker`, `StoreFirstLeg`), and those that start an unwind (`BeginUnwind`,
`StartWorker`).  `dispatch_pair` starts its threads without `mutex_`; a
leg is sent just before the thread that waits for its future is started, so its
report may come from then on.  `reset()` joins with `threads_mutex_` held
(`Reset`, `JoinAll`), drops the list (`ClearThreads`) and then the pairs
(`ClearPairs`); the destructor is `Destroy` and `Destroyed`, and comes when nobody
calls the coordinator any more.

What the sections do to a pair is section 3's; here a pair is only as much as decides
which threads are started, and where a section may end a pair or begin an unwind
both are possible, so every schedule of the code is one of the model's.

`arb_locks` (112 thousand states) has a complete pair, a lone leg of another, one
`reset` and the destructor at any moment.  The inversion of the two locks is real: a
worker that begins an unwind holds `mutex_` and waits for `threads_mutex_`, which the
joining owner holds while it waits for that worker.  The run shows that a join hangs in
no other way (`JoinReturns`), and that reset drops no thread that somebody starts while
it joins (`WorkersAreJoinable`).  That no step leads out of the inversion
(`DeadlockIsForEver`) is proved.
The repository says nothing of reset during traffic, so it is no finding against a
document.  One reset is enough: it leaves the coordinator as it was made.

Fairness is that of all internal steps together (`Progress`).  It is enough because
no thread goes round in a loop: a step that can be taken is taken in the end unless
the system comes to a stop.  Signals, resets and reports need not come.

`ArbThreadsProofs.tla` proves `TypeCorrect`, `AllJoinable` and `DeadlockStays` for any
signals, gateways and number of resets.  `WorkersAreJoinable` is strengthened by
`StartersAreBusy` (who is about to start a thread is in a state that says so),
`StoringHoldsMutex`, `ListIsComplete` (every worker in progress is on the list, and
none is between the joins and the clear) and `NoLateCalls` (nobody calls once the
destructor runs).

## 5. The table

The ledger's maps are `util/flat_hash_map.h`: slots of a fixed array, linear
probing, no tombstones; an erase takes every entry behind the hole out and puts it
back in.

- `FlatHashMap.tla`: the array (`slots`, with the value a free slot still has),
  `size`, and `dummy`, the static value a full table answers with.  The calls are
  those of the ledger: `Add` is `m[k] += v`, `Assign` is `m[k] = v`, `Erase` with
  one action per turn of its loop (`Reinsert`, `EraseReturns`), `Clear`.  The
  ledger's lock keeps operations apart.
- `KeyedStore.tla`: what a user relies on.  An operation changes its own key's
  entry only; an entry is there until erased.  It leaves open which value a write
  gives, because that is where the table departs from a map (below).
- `MCTable.tla`: four slots and five keys.  Three keys begin at slot 2, so that a
  chain runs over the end of the array; the fifth key finds the table full.

| run | shows |
|---|---|
| `table_map` (20 thousand states) | `EveryEntryIsFound` and `SizeIsExact`; `OthersUndisturbed`, that the table implements `KeyedStore`; `EraseEnds`, under weak fairness of the erasing thread's loop; `SurplusIsLeftover` |

`SurplusIsLeftover` says what a new entry is worth.  An erase that moves an entry leaves
its value in the old slot (line 106 resets key and flag only), and the next first
reservation that lands there adds to it: the margin of a signal is overstated by exactly
what the slot still held, and only the loop of another key's erase leaves anything there.

Bounds.  `MaxValue` is 2 with amounts of 1, so an entry and what is left over can
be told apart from one another; a key and a hash say nothing but where probing
begins, so longer arrays add longer chains of the same kind.  The type of keys is
abstract: a key of the ledger, symbol and signal id of at most 15 characters each
and a colon, fits the 31 characters of a slot.

Theorems (`FlatHashMapProofs.tla`), for every set of keys, capacity, hash and order of
operations: `TypeCorrect`, `CounterIsExact`, `EntriesAreFound`, `SurplusExplained`, and
`Refinement`, that the table implements `KeyedStore`.  The invariant is what the code relies on
without saying so: occupied slots hold keys (`KeysAreReal`), one each
(`OneEntryPerKey`), and no slot between a key's first slot and the one it is in is
free (`Chained`).  The last is broken while an erase is under way; what then holds is
that each gap is one the loop will still get to, before the entry that is cut
off by it (`LoopWillReach`).  `EraseEnds` is only model-checked.

The other modules use exact maps for the ledger.  What they show of amounts holds
for the program as long as the table gives what an exact map would.  It does not in
two cases: the left-over value above, and the full table, into whose `dummy` a fill's
used margin goes uncounted (`get_or_insert`, line 83).  The second is in the model, but
for `KeyedStore` such a write is no step, and no property is about it: a user of a full
table has been promised nothing that could be checked.

## 6. The single-leg pipeline

- `SignalReceiver.tla`: `validate` as an operator.  A signal comes with the optional
  fields it has and its age in microseconds, which `AgeMs` cuts to milliseconds
  towards zero as the code does, negative ages of a clock that is ahead included.
- `OrderManager.tla`: `process_signal`'s validation, `process_single_leg`, its dispatch
  threads and `on_fill`, with the ledger as operations of `PortfolioGuard` and the
  resolver's entries in `tracked`.  Every order has a caller of its own that can be
  held up between any two critical sections.

  | code | actions |
  |---|---|
  | `SignalReceiver::validate` | `Validate`, `RejectInvalid` |
  | `ConflictResolver::check` | `Check` |
  | `check_and_reserve` | `ReserveMargin`, `RejectUnaffordable` |
  | `store_order`, `register_order` | `StoreOrder`, `RegisterOrder` |
  | gateway lookup | `DispatchOrder`; `RejectUnrouted`, then `ReleaseUnrouted` |
  | gateways | `GatewayAccepts`, `GatewayRefuses`, `GatewayFills`, `GatewayReverts` |
  | dispatch thread after `get()` | `AckArrives`, `RefusalArrives` |
  | `on_fill` | `FillArrives`, `RevertArrives`, `UnmatchedReport` |

  `known` holds the orders whose exchange id the dispatch thread has stored, by
  which `on_fill` finds them.  A section of `orders_mutex_` that calls the ledger or
  the resolver is one action: the calls take those components' locks one after the
  other, but concern this order's entries only, and the ledger's position is only
  added to.  `Check` would cancel the conflicting orders in `Cancellable`; that set
  is always empty (`CheckCancelsNothing`, a theorem), so the loop and its
  outcomes have no action here.  They are in section 7.
- `MCManager.tla`: a CEX buy, a CEX market sell, a DEX buy that comes 0.9 ms over its
  limit, one that comes 1 ms over it, and an order for an exchange without a gateway
  whose sender's clock is ahead, all of one symbol; cash 3, where the market sell
  takes 2 of margin and the others 1, so every order can be the one that is refused.

| run | shows |
|---|---|
| `pipeline` (50 thousand states) | `IntakeIsExact`, `LedgerFollowsOrders`, `Solvent`, `PositionsAreFills`, `TerminalIsFinal`, `AcknowledgedOrderEnds` |
| `bad_fill_is_recorded` | a fill that overtakes its acknowledgement is dropped; the order stays open and its margin reserved |
| `bad_conflict_is_cancelled` | a sell passes the conflict check while an acknowledged buy of its symbol is still working and no cancel is asked for |

The last departs from `claude_code_prompt_v2.md:226-229` and `:414` and from
`test_conflict_resolver.cpp:62`: the resolver is there to cancel the first order, but
`register_order` is called before the order has an exchange id, nothing ever gives the
entry one, and `check` skips entries without.  `CheckCancelsNothing`, proved, says
that this is so in every run and no accident of timing.

One more departure has no run of its own: the limits that
`claude_code_prompt_v2.md:196-197` gives (5000 and 200 ms) are exceeded by what the
cut to milliseconds takes off, less than one; `IntakeIsExact` states that limit.  The
resolver's entry of an order rejected for want of a gateway, or reverted, stays SENT
(lines 205 and 265); as nothing is ever cancelled, nothing comes of it.

`AcknowledgedOrderEnds` is the liveness that is left: an order whose
acknowledgement was handled while it was still working ends.  Fairness as in
section 3: threads run, a started call goes on, and venues in `Answering` report in
the end.  Signals need not come, so deadlock is not checked.

Theorems (`OrderManagerProofs.tla`), for any orders, exchanges, prices, ages, limits and
cash: `TypeCorrect`, `IntakeExact`, `LedgerFollowed`, `NothingCancelled`,
`EndsForGood`, `StaysSolvent`, `PositionsAddUp`.  The inductive invariant is `TypeOK` and `OrderInv` of every order.
That FILLED is never overwritten, although the dispatch thread assigns the status
blindly, rests on `UnhandledIsSent` (without the acknowledgement there is no id, and
without it `on_fill` finds nothing) and `AnswerGivesGateway`; that a report finds
the margin still reserved, and only once, on `HandledIsKnown`.  A step about one
order leaves the others' state and margin entries alone (`Frame`).  `Solvent` is then a matter
of one step: only a reservation commits more, and it looked at the whole sum under the
ledger's lock; a fill uses no more than was reserved for it, which is why the hypothesis
about prices is there.  For `PositionsAreFills`, the step that books a fill is the one
that makes the order FILLED, and no order becomes so twice.  Both use the lemmas about
sums of section 3.  Liveness is only model-checked.

## 7. The conflict resolver

`ConflictResolver.tla` drives the class as its unit tests do: an order may be
registered with its exchange id, so that `check` does cancel.

| code | actions |
|---|---|
| `check`, its first look | `CheckPasses`, `CheckRejectsNew`, `CheckCancels` |
| the cancel loop | `AskCancel`, `CancelConfirmed`, `CancelFails`, `CancelTimesOut`, `TimedOutReturns`, `AllCancelled` |
| `register_order`, `update_status`, `cleanup`, `reset` | `RegisterOrder`, `UpdateStatus`, `Cleanup`, `ResetResolver` |
| `cancel_order` and the fill threads of the mocks | `GatewayCancels`, `GatewayCancelFails`, `FillThreadRuns` |

`check` keeps the spin lock from its first look to its return, the waits of up to 500 ms
for each cancel included (`lock`).  After a time-out it is held longer still: the
future comes from `std::async`, whose destructor waits for the cancel
(`TimedOutReturns`).  `wait_for` may time out only for orders in `Slow`, the mock
DEX's; `QUEUE` is treated as `CANCEL_AND_REPLACE`, as the code does.  The entries are
a set, and in which order the loop takes the conflicts is left open, which is more
than the code's vector allows.

`resolver` (48 thousand states): three buys, one that is cancelled at once, one whose
cancel may fail or take too long, one without an id, against two sells, under both
strategies.  `PassedIsClear`: a signal passes when each conflict with an id and a
gateway has been cancelled, not just asked to be.  `FillIsKept`: a fill whose
`update_status` spins on the lock is not overwritten by CANCELLED afterwards.
`StaleOnlyByTimeout`: an entry that stays active for a cancelled order, and refuses
signals from then on, needs a time-out.  `CheckReturns`, under weak fairness of the
thread in `check` and of the gateways' answers to cancels.  Two signals are enough
for one to spin while the other waits; orders and signals end, so deadlock is not
checked.

`ConflictResolverProofs.tla` proves all but `CheckReturns`, for any orders, signals,
outcomes and strategies: `TypeCorrect`, `FillsAreKept`, `StaleByTimeout`,
`PassesWhenClear`.  The invariant: only the check that holds the lock has work left
(`LockIsHeld`) and waits for a cancel (`AskedIsCurrent`); what it set out to cancel
stays a conflict until it gets there (`ConflictsStay`) and includes all there are
(`NoneIsSkipped`); a cancelled order with an active entry was given up or is about
to be marked (`MarkedOrGivenUp`).

## 8. The logger

`AsyncLogger.tla` takes `push_impl` and `io_loop` apart into the steps other threads can
get between: the index is taken (`TakeIndex`), the slot's `ready` is seen false
(`WaitForSlot`), the line is written (`WriteLine`), `ready` is set (`SetReady`); the
I/O thread sees `ready` (`PollSlot`), prints, clears the flag and advances.  The
destructor is `Stop` and `Joined`.  Nothing keeps two producers a lap apart from
both seeing one slot free; they then write into it at once, a data race, of which
any mixture may come (`Torn`).  The history variable `fault` says how far it has
come: an index taken a lap ahead of the reader, then producers in one slot.

`async_log` (20 thousand states) has three lines and two slots, so that the first and
the third meet; a longer ring needs more lines for the same and adds none.
`OutputIsFaithful` says exactly what each stage of `fault` still guarantees: in order,
whole and complete; whole, once and complete; nothing.  `LinesArePrinted`: a line begun
is printed unless there was a collision.  Its fairness is strong for a producer's
steps, because the slot it spins on may be taken again by others a lap later; lines
are finite in number, so no schedule starves it for ever.  The audit trail that
`claude_code_prompt_v2.md:552` asks for is thus complete only as long as no more
than the ring's slots are waiting; after a collision a line may be missing, and a
producer or the destructor may wait for ever.

`AsyncLoggerProofs.tla` proves `TypeCorrect` and `FaithfulOutput` for any number of lines
and slots.  The invariant: indices are given once (`IndicesAreGiven`) and printed in
turn (`ReaderCounts`); without a collision a slot has one producer, never while it is
ready (`SlotIsOwned`), and a ready slot holds an unprinted line of its own
(`ReadyIsFresh`); hence nothing is printed twice (`PrintedOnce`), nor, without an
overrun, out of order (`InOrder`), since indices less than a lap apart have slots of
their own (`LapsApart`).

## 9. The thread pool

`ThreadPool.tla` has one action per load, store and compare-and-swap of `MPMCQueue` and
of the workers' loop; the weak compare-and-swap may fail without a reason.
`PoolPromise.tla` is a queue: tasks are accepted, taken in that order, run once, and
the pool is gone when all have run.  The refinement maps a claimed position to an
accepted task, which is in its thread's hand until it is in the cell (`TaskAt`, `Fifo`,
`Taken`).

`task_pool` (107 thousand states): three callers and a task that submits a fourth, two
cells, two workers, destroyed at any moment at which no outside caller is in a call.
`TypeOK` includes that a thread in a given step has what the step works on
(`StepsAreTheirs`): a worker that has read a cell has a task in hand and never an empty
cell; and that the readers never pass the writers.
`KeepsPromise` is the refinement with the promise's fairness;
`RefusedOnlyWhenLapped`: a submit is refused only while the task a lap before is still
in its cell; `DestructorReturns`.  Two cells and four tasks give two laps; a cell is
told from its neighbour and from itself a lap later.  Threads are scheduled (weak
fairness of each), and a claim that can be made again and again is made in the end
(strong fairness of the two compare-and-swaps).

`Cap` is at least 2: the code's `static_assert` would let 1 pass, with which a cell that
is full for one position is free for the next.  The pool's queue has 64 cells, and
the program uses the pool nowhere.  There is at least one worker (the class's default
is 4), without which a destroyed pool would be gone with tasks in it.  Memory is
sequentially consistent.

`ThreadPoolProofs.tla` proves, for any callers, tasks, workers and cells: `TypeCorrect`;
`RefusedWhenLapped`; and `PromiseIsSafe`, the refinement without its fairness, so that
the lock-free queue is first-in first-out, starts and runs each accepted task once, and
is empty when the destructor returns.  The inductive invariant has four parts.

- `TypeOK`, with `StepsAreTheirs`: only workers dequeue, and who submits or runs has a
  task in hand.
- `QueueInv`: a cell serves one position at a time (`Serves`), for which its number tells
  whether it waits for its writer, is being written, is full or is being read
  (`CellsServe`); what a thread has read of the positions was true once, and what it has
  claimed is its own (`PositionHolds`, `ClaimsDiffer`).  The heart of the argument is
  that numbers in a cell only grow and that two positions of one cell are a lap apart
  (`SameCell`): a thread whose compare-and-swap succeeds finds the position unchanged, so
  the number it read before is still that of its own position (`ToBeClaimed`,
  `ToBeGrabbed`), although any number of others ran in between.  Adjacent positions never
  share a cell (`Adjacent`), which is where `Cap` of at least 2 is used.
- `TaskInv`: a task on its way is in one hand or one slot, has not run, and what a task
  submits is nowhere before the task runs.
- `EndInv`: the last worker to leave leaves an empty queue.  It needs `EmptyWhenNotFull`: a
  worker that sees its cell not full, when nobody is between claim and publication, has
  seen the queue empty.

## 10. Bounds, and what stays with the model checker

| bound | where | why it is enough |
|---|---|---|
| `MaxSubmits` 1 and 2, groups 2 and 1 | coordinator | section 3: a third submit overwrites as the second does; groups meet in the ledger only |
| `Resets` 1, three signals | threads | section 4 |
| `MaxValue` 2, four slots, five keys | table | section 5; the theorems have no bound |
| five orders, cash 3 | pipeline | each kind of ending, and each order the one that is refused |
| three orders, two signals | resolver | one order for each way a cancel goes |
| three lines, `Cap` 2 | logger | the first overrun and the first collision |
| four tasks, `Cap` 2, two workers | pool | two laps, two threads on each side |

The theorems hold for every value of the constants that the modules' ASSUMEs allow, and
cover every safety property of the passing runs but `MarginComesBack`, which is only
model-checked.  So are the liveness
properties (`AssemblyEnds`, `PairSettles`, `EraseEnds`, `JoinReturns`,
`AcknowledgedOrderEnds`, `CheckReturns`, `LinesArePrinted`, `DestructorReturns`, and the
fairness of `KeepsPromise`), since the prover has no support for fairness.  The four
runs that find a violation check a property that is false.

## 11. Not modelled

- `OrderManager`: the routing of grouped signals to the coordinator and the
  coordinator's share of `on_fill` (its orders have ids of their own, so a report
  finds at most one of the two); `wait_for_completion`, `reset` and the destructor;
  signals that share an id and a symbol, and with them a margin entry.
- The gateways after their owner is gone, `query_order` and `set_config`.
- Readers without a lock (`get_order`, `get_all_orders`, `get_state`): they change nothing,
  and a race on a hash map has no outcomes one could list.
- Weak memory: all models take loads and stores in one order.
- `util/spinlock.h` is taken as mutual exclusion; the bytes of a `Task`, the formatting
  of lines, `fixed_point.h` (used by nothing) and `latency_tracker.h` (a record of time
  stamps) are left out.
- `main.cpp`, the tests and the configuration are scenarios and data; they were read
  for what the code is expected to do.
