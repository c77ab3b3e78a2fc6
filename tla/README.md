# Verification of the two-leg arbitrage engine

The program holds hedged positions on two perpetual-futures venues: it buys on one and sells the same quantity on the other when the spread between them is wide enough, and closes both when it has come back. It trades real accounts through IOC orders whose outcome it may learn late or never. What can go wrong is rarely a computation; it is an order that fills after everybody stopped looking, a save that did not happen, a request that arrives between a decision and its execution. This directory models that part of the program in TLA+, checks it with TLC and proves parts of it with TLAPS.

Contents: [inventory](#inventory), [modules](#modules), [runs](#runs), [fairness](#fairness), [proofs](#proofs), [a disagreement](#a-disagreement-between-code-and-comment), [what is not modelled](#what-is-not-modelled), [plan](#plan).

## Inventory

All paths are below `src/internal/`.

**Pair actor** (`engine/pair.go`, `settlement.go`, `checkpoint.go`). One goroutine per traded pair. It keeps the step ledger, the mode (`WARMUP`, `RUNNING`, `REDUCE_ONLY`, `PAUSED`), the believed positions, the execution it could not settle (`pending`), the quarantine mark (`checkpoint`, `checkpoint_exit`) with its clock, and atomics that other goroutines read: `settled`, `flatPos`, `busy`, `draining`, `drainConfirmed`, `emergencyRequested`, `riskBlocked`. Operations: load and reconcile at start-up; `decideOnce` (resolve a pending execution, recover a checkpoint, carry out an emergency or a drain, or let the strategy open or close); `apply`, `unwind`, `resolvePending`, `recoverExternalIntervention`, `recoverCheckpoint`, `recoverCheckpointExit`; `persist`. Two other goroutines call it: the picker (`Drain`, `Drained`) and its own risk watcher (`watchRisk`). Hard: crashes between sending and saving, orders of a dead process filling later, requests that race a decision, flags read one at a time. Correct when: the state file never denies an order that may still fill; nothing opens over such an order; a settled actor is hedged as booked; a slot is given back only flat; drains, emergencies and recoveries end.

**Two-leg executor** (`execution/executor.go`, `rescue.go`). No state of its own between calls: the caller keeps a `Result` that remembers sent orders, unconfirmed batches, targets and what was accounted. Operations: `ExecuteBounded`, `ResolveOutstanding`, `ResolveTerminals`, `EmergencyFlatten`, `FlattenToZero`, each of them running `submitAndResolve` in one goroutine per leg, `confirmPositions` and `flatten`. Hard: missed reports, fills inferred from positions, lagging position reads, trades by somebody else, cancellation anywhere. Correct when: one batch at a time can execute; a settlement is true; fills are accounted once.

**Order tracker** (`execution/tracker.go`). Fans order streams out to one-place waiters, one per order. Correct when a terminal report reaches its waiter whatever follows it, and stream ends and shutdown release every waiter.

**State store** (`store/store.go`, `dirsync_*.go`). Saves by temporary file, sync, rename, directory sync; loads and lists state files. Correct when a reader finds an old or a new state and never a mixture.

**Auto picker and recovery budget** (`engine/auto.go`, `admission.go`). Ranks candidates, restores saved pairs, promotes pairs to actors, drains and cancels them, and reserves notional per account. Correct when the reservations of running, draining and restored actors never exceed the account's cap, a market has one actor at most, and nothing is promoted before recovery is over.

**Margin and risk** (`engine/margin.go`). Assesses distance to liquidation from positions, entries and marks that arrive with different ages. Correct when stale or missing data block openings and an emergency is requested only on data that shows one.

**Lighter adapter** (`exchange/lighter/`). Order sending (`orders.go`): a send lock and a nonce cache that is dropped whenever an outcome is unknown. Book stream (`stream.go`, `ws.go`): snapshots, deltas, gap detection, reconnects, invalidation; a collector goroutine of the actor or picker takes books from a one-place channel into a cache and wakes the decision loop. REST and signing (`rest.go`, `lighter.go`). Correct when a nonce is refused only after an outcome stayed unknown, an order reported as not sent can never execute, a published book is one the venue had, and every broken stream comes back.

**Strategy** (`strategy/strategy.go`). Decides on open, close or nothing from quote, statistics, steps and mode. Correct when the capacity band and the direction lock hold through every sequence of decisions.

**Estimators** (`spread/`, `volatility/`, `adaptive/`, `engine/latency.go`). Windows over rings of samples, sized by measured latency, and the rings of execution outcomes behind the failure rate and the tick coefficient. Correct when a window's statistics are those of the samples in it, across gaps and window changes.

**Scan, symbols, domain, config, monitor, samples, trade log, analytics, backtest, commands**. Ranking statistics, look-ups, value types, parsing, observation and offline reports; none of them keeps state that a trading decision depends on over time, except scan's health score, which enters the picker as a rank.

How they interact: the picker starts one actor per pair and calls `Drain`, polls `Drained` and cancels it; the risk watcher sets atomics and calls the registered cancel function of the execution in progress; the actor calls the executor synchronously with a cancellable context; the executor calls the venues and waits on the tracker, which the order streams feed; the actor saves through the store before it sends and after it settles. All actors share venues and the account.

## Modules

| module | models | kind |
|---|---|---|
| `PairActor` | the pair actor with its state file, its restarts, both venues, the picker's calls and the risk watcher | detailed |
| `PairActorProofs` | theorems about `PairActor` | proofs |
| `ExecContract` | what an actor may rely on when it calls the executor | abstract |
| `Executor` | one execution from its first call to its settlement | detailed, implements `ExecContract` |
| `ExecutorProofs` | theorems about `Executor`, with the refinement of `ExecContract` | proofs |
| `AutoPicker` | the picker of auto mode: restored state files, reservations, selection, promotion, drains, over several pairs and processes | composes actors by what `PairActor` shows of them |
| `AutoPickerProofs` | theorems about `AutoPicker` | proofs |
| `BookStream` | one order book from the venue through the websocket client and a subscriber's channel into a decision | composes adapter, collector and decision loop |
| `OrderPath` | sending under the nonce cache, the order stream, the tracker and the call that waits for an order's end | composes adapter, tracker and the executor's calls |
| `BookStreamProofs`, `OrderPathProofs` | theorems about `BookStream` and `OrderPath` | proofs |
| `Strategy` | decisions and settlements of one pair's ledger | decision function over sequences of settlements |
| `MeanWindow` | the windowed mean of the spread | algorithm against its history |
| `Feedback` | latency samples, the volatility ring, the failure ring and the tick coefficient | algorithms against their history |
| `StateFile` | the store's saves by several goroutines, kills and power losses | detailed form of the save `PairActor` assumes |
| `Margin` | the margin watch: wake-ups, account reads, assessment, emergency request | detailed form of the watcher `PairActor` assumes |
| `PartsProofs` | theorems about `StateFile`, `Strategy` and `Margin` | proofs |
| `EstimatorProofs` | theorems about `MeanWindow` and `Feedback` | proofs |
| `Sums`, `SumTheorems` | the sum of a function over a set, induction, and what sums obey | definitions, proofs |
| `MCPairActor`, `MCExecutor`, `MCAutoPicker`, `MCBookStream`, `MCOrderPath`, `MCParts` | instances for TLC | |

### PairActor

State: `pos`, `orders` are the venues (`orders[g]` are the orders process number `g` left, and outlive it); `disk` is the state file; `gen`, `stop` the process; `pc` the control point of the actor's goroutine; `led` the ledger; `checkpoint`, `exit`, `clock`, `due` the quarantine; `pending`, `ex` the unresolved execution; the rest are the atomics under their own names. `nExt` and `drift` only record what somebody else traded.

One action is one stretch of the code between two points where another goroutine, the venue or a crash can interfere: every save is an action of its own (`SaveSend`, `SaveDone`, `SaveFail`, `SaveClear`, `SaveMark`, `SaveRelease`, `SaveFinal`), each can fail (`SaveErr`) with the file replaced or not, and the process may die before, during or after it (`Crash`). `reconcile` reads the two positions one after the other (`ReadLeft`, then one of `ReadMatch`, `ReadMismatch`, `ReadFailed`); the settled flag it raises for an instant in quarantine is visible (`ReadMatch`, then `ReconciledQuarantined`). `Drain()` is two actions (flag, then cancel), `Drained()` is read one atomic at a time by `PickerPoll`, `watchRisk` sets and then cancels. `Register` and `Recheck` are the two sides of the window that the second check in `apply` closes.

Abstractions. The ledger is its signed sum: steps of one actor never have mixed directions, so the sum is zero exactly when there are none. Quantities are integers in the common lot of both markets. The strategy may open or close whenever mode, direction and capacity allow it. Prices, fees and PnL are left out, except that a step without entry prices (`unpriced`, `legacy`) keeps the actor paused. `ReturnMisaccounted` stands for every way accounting can refuse settled positions. `MayOpen` is a free choice. Dry-run mode, rate limits and the query interval are not there. When `resolvePending` reaches the stall limit the intervention begins in the same pass. The executor appears through `ExecContract`'s promises (`ExecSubmit`, `ExecRescue`, `AtTarget`, `ReturnUnresolved`).

Assumption on the venues: `CheckpointGrace` (15 minutes by default) is longer than a signed order stays executable, as the comment at `pair.go` and `docs/trading-safety-fixes.md` claim; `GraceElapses` waits for the orders of earlier processes.

### Executor and ExecContract

State of `Executor`: the venues as above, with `shown` for what the position endpoint returns; the call (`pc`, `cancelled`, `todo`, `got`, `reads`, `verdict`); the retained `Result` (`stage`, `zero` = `res.emergency`, `urgent` = `rescue.Immediate`, `rep` = what is known of each order, `at` = `PosL/PosR`, `before`, `target`, `counted` = `accountedQty`, `rescued` = `RescueFilled`, `intervention`). Batch 0 is the IOC pair, batch b the b-th rescue batch.

`SubmitLeg` and `ReadPosition` are taken per leg, as the code runs one goroutine per leg. `Collect` is `awaitOrder`/`queryExisting`: any of the orders that have ended may have been reported. A submission ends refused, sent (`live`) or sent into the void (`lost`: the transaction never arrives and the venue answers unknown for ever). `Confirmed` and `Disagree` are one round of `confirmPositions` with `verifyDelta` and `inferLeg`; `GiveUp` is every way out of its retries. `Resume` is `ResolveOutstanding`, `Intervene` with `QueryTerminals` and `Reread` is the intervention; its two consecutive position reads are one, since only the second is used. `Intervene` is allowed after one contradiction instead of three in a row.

With `Lagging` a fill shows in the position endpoint at any later time, but not later than SettleDelay: `Collect`, which stands before that pause, brings `shown` up to date.

`ExecContract` states the promise in ten short actions. `Executor!Contract` instantiates it: an order counts as live from the moment its batch is decided, so a submission that is then refused or skipped is an order that ended unfilled.

The contract is for an account nobody else trades. If somebody's trade moves a position exactly as a missing report would have, an ordinary execution infers the fill while the order lives (`OrdersTerminal` in the code says so: "external account changes can invalidate that inference"); `PairActor` excludes this coincidence. Exits do not trust the inference, and `ExitWaitsForReports` checks that.

`OneBatchAtATime` says of the orders of an earlier batch that each has ended *or* can no longer fill, being reduce-only on a position that is gone. The second case is real. Suppose an exit infers a full fill from a read made while another of its orders was filling: the order it believes full is still live, on a flat position. With lagging reads, hedges of 1 and 2 and four batches TLC shows it. The executor waits for that order's report before it settles (`ExitWaitsForReports`).

### AutoPicker

State: `steps`, `unresolved` are the state files; `extra`, `late` the venues, by market, beyond what the ledgers account for (positions nobody booked; orders of a dead process); `up`, `active`, `budget`, `waiting` (`rt.recovering`), `failRate`, `promoteAge`, `demoteAge` the picker; `reconciled`, `opening`, `confirmed`, `failing`, `ended` the actors. `active[p]` joins the flags of an `activeRun`: `trading`, `draining`, `stopping`. `promoteSince` and `demoteSince` become ages in polls, with 0 for no entry.

`Restore` is `restorePairs`: the refusals (`LedgersApart`, `PositionsCovered`), the two exposures of a ledger (`Used`, `FullBudget`) and the plan by pair key. The loop over the keys decides for each pair from those before it; `Plan` states what its result satisfies, which determines that result: a pair trades if its whole reservation fits beside the reservations of the trading pairs before it and the bare exposures of all others. What an account or a ledger holds is a sum over a set (`SumOf`). `Poll` is `selectPairs` with the promotions it makes. It is one step, because it reads each flag of an actor once and `active` belongs to its goroutine. `PickerFails` is its early return on an actor that ended on its own; with `Stop` it ends all actors (`Down`), and their orders in flight turn into `late`.

An actor is the short form of `PairActor` that its properties justify: `LiveOrderIsCheckpointed` is why `Open` sets the mark with the order and why `Down` leaves it; `OpeningNeedsCleanAccount` is why `Reconcile` of a marked pair waits until nothing is late on its markets; `ReleasedIsFlat` is why `Unwind` ends with nothing on them. Closing is one step, since a closing order only reduces; the opening order is kept apart, since it is what consumes the account. One market may belong to several candidates.

Abstractions: notionals are integers, with the positions taken at entry prices; the score of a candidate is a small number, 0 for one that is not ready; the health score is read once in a poll, where the code may see a slightly later one for the pair it displaces. Failing to size, stale books and a refused build are one refusal (`Doubtful`), possible as long as the market moves. `CalmDown` settles scores and rates for good and exists for the liveness properties, which say what the picker does when nothing changes any more.

### BookStream

State: `nonce` and `feed` are the venue's book and the nonce of what it sent last, `up`, `down`, `link` the connection; `loop`, `conn`, `made`, `todo` the client's loop; `jobs` the goroutines that subscribe or resubscribe, each holding the connection it captured; `book` is `bookState`; `joined`, `chan` one subscriber; `collector`, `cache`, `wake` its goroutine; `decider`, `seen` the decision loop. A book is a nonce and the size at each level, so that a lost delta leaves a book that the venue never had.

`Serve`, `Update`, `Trade` and `Cut` are the venue and the network: a delta names the nonce it starts from, may be lost or arrive malformed, and the connection may break in either direction, at most `MaxFaults` times together. Read timeouts and missing pongs are `Cut`. A second subscription of a channel is refused or answered by another snapshot; both happen. `onBook` is the whole handler with its gap check, invalidation and resubscription. `Reset` forgets every book before anything is read from a new connection. `Capture`, `Unsubscribe` and `sendSub` are the steps of a resubscription, between which the loop may have replaced the connection. `SubscribeBook` to `Leave` are one subscriber, which may come late, go and come back; the loop may already run for another market when it comes (`Init`).

Assumptions and abstractions. The venue's nonces start at 1: the gap check is skipped when one of the two nonces is 0, as `stream.go:189` has it, and the property would fail on a venue that sends 0. The decision loop also looks at its cache on a timer; that timer is left out, because it would hide a lost wake-up. The depth of the published book, its age and the staleness check of the decision are not there; prices of levels are names.

### OrderPath

One order and one other transaction of the same account. State: `pc` the control of each call; `lock` = `sendMu`; `next`, `valid` the nonce cache; `tx`, `account`, `ord` the venue; `reports` what the stream has not delivered; `watch`, `held` the tracker's waiter and its one place; `tries`, `again`, `result` the call. A transaction arrives at any later time or never, and is accepted exactly when it carries the nonce the account is at. Reports are dropped and overtake each other.

`Watch` to `Finish` is `submitAndResolve` with the `Submit` it calls: `lockSend` (with the second look at the context), `take` (a cached or fetched nonce), `sendTx`, and one of `Reply` (accepted or refused by the venue) and `Unknown` (an HTTP error after which the transaction may or may not arrive). `signFails` keeps the nonce. `Hear`, `StreamEnds` and `Timeout` are `awaitOrder`; `QueryActive`, `QueryInactive`, `QueryFails`, `NextTry` and `queryExisting` the queries, of which a "not found" answers none. A context may end at every point the code looks at it (`Refuse`, `takeFails`, `Abandon`). `stopVenue` ends the stream and closes the waiters. `CancelOrder` has the shape of the other transaction, and no caller in the program.

### Strategy, MeanWindow, Feedback, StateFile, Margin

These five hold state of their own and meet the rest through calls. `MCParts` explores each alone (`part` says which one moves), since in the code they share nothing.

`Strategy`: `steps`, `mode`, `lastDir`, `capEngaged` under their names; `lowest` is the smallest step count since the capacity was last reached. `SettleOpen` and `SettleClose` are a decision with its settlement, which may be partial; `SettleExit` an emergency exit; `Reload` a restart. Spreads are integers, fees are in `EdgeBps`, and both directions of one quote never pay at once (`Quotes`: a book is not crossed). A settlement books any part of what was asked for. The resizing of steps to `StepQty`, NaN inputs and depth that differs between the legs are left out. After a restart inside the band the engagement is rebuilt from the loaded steps alone, as `docs/system-design.md:164` says; `lowest` restarts there with it, so `CapHolds` speaks of the band as rebuilt from the loaded steps, not of one remembered across a restart.

`MeanWindow`: `SMA` whole, with `heard` as its history. Time may stand still, jump past the window or go back (such a sample is refused).

`Feedback`: the volatility ring with its lazily maintained trailing sum, the windows chosen from latency samples, the ring of failures and the ring behind the tick coefficient. The last two see the same outcomes over the same window and are one ring here. The square root, the EWMA of the variance and the mean and deviation of latencies are left out; of a latency window only "enough samples, so any window may be asked for" remains. `Reset` of the rings is used by the backtest only. (`volatility.go:31` says the effective window never drops below `warmK`; `Window`'s own comment and `SetWindow` allow 1. The model has what `SetWindow` does.)

`StateFile`: a save is create, write, sync, rename and directory sync under the key's lock, any call of which can fail. A kill stops every goroutine between two calls. A power loss also tears what was not synced and takes back renames whose directory was not synced since; syncing the directory settles the renames of every key. `kept[k]` remembers the last confirmed save and those begun after it. `Close` waits for saves in progress and refuses later ones. `validate` (a pure check of the state) and Windows, where syncing a directory does nothing, are left out.

`Margin`: an account reading is a record of what `assess` tells apart; the distance of the mark from liquidation is one of five levels (at the trigger, at the floor, inside the hysteresis band, above it). Each venue's read may fail or be late by itself, so ages differ by leg; an age stops at "too old". `armed`, `blocked` and `emergency` are the watcher's; `dipped` records that the open floor was touched and the band not left since.

## Runs

| run | bounds | properties | size |
|---|---|---|---|
| `restart` | step 1, one step, stall limit 2, two restarts | `ExitSurvives`, `LiveOrderIsCheckpointed`, `FileMatchesAccount`, `OpeningNeedsCleanAccount`, `ReleasedIsFlat` | 0.6 M states |
| `watched` | step 2 (partial fills), one step, no restart, one manual trade, risk watcher | `SettledMeansHedged`, `StopRequestsBind` | 3.0 M |
| `quarantine_live` | step 1, one restart, fair | `DrainReleases`, `PendingSettles` | 0.13 M |
| `emergency_live` | step 1, risk watcher, fair | `EmergencyEnds` | 0.11 M |
| `exec_contract` | pairs of up to 2 on hedges 0 and 1, two rescue batches | `RescueReducible`, `KeepsContract` | 0.10 M |
| `exec_disturbed` | the same, one rescue batch, lagging reads, one manual trade | `TypeOK`, `OneBatchAtATime`, `SettledAtTarget`, `ExitWaitsForReports`, `FillsCountedOnce`, `NoFalseAlarm` | 4.0 M |
| `picker_cap` | two pairs on four markets, both slots, failing actors, steps up to 3 on a leg and unpriced ones, cap 6 against 4 per pair, two starts, one manual trade | `OpensAfterRecovery`, `NoOrphanPosition`, `OpensWithinCap`, `ReservationCovers`, `FailedStaysOut` | 1.0 M |
| `picker_live` | three pairs, two of them on one market, two slots, dwell 2, a market that calms down, fair | `MarketsApart`, `SlotsFilled`, `Converges` | 0.05 M |
| `book_stream` | three venue books over two levels, two faults, two subscriptions, two unread messages, fair | `BookIsVenues`, `LatestIsCurrent`, `NoLostWakeup`, `Recovers` | 0.4 M |
| `order_path` | one order of 2 units and one leverage change, two query rounds, two unknown outcomes, one later attempt, fair | `ResultIsTrue`, `RefusedOnlyAfterUnknown`, `TerminalReportStays`, `CallsEnd` | 0.13 M |
| `parts` | see below | `CapHolds`, `BandCanRelease`, `MeanMatchesHistory`, `RingsMatchHistory`, `SaveSurvives`, `RiskSeen` | 0.4 M |
| `exec_stale_exit` | as `exec_disturbed` | `ExitIsFlat`, violated (see below) | |

Every property is stated in words above its definition. Each module that keeps concurrent state has a `TypeOK`; it is a run's invariant where the type carries a bound worth checking (`Executor`), and proved for `PairActor`, `Executor`, `AutoPicker`, `OrderPath` and `BookStream` for every value of the constants.

*Why these bounds.* Two restarts are needed for an exit marked by one process, interrupted in the next and finished in the third; orders of two dead processes are then live together. A stall limit of 2 tells "reset" from "count on". Quantity 2 is the least with a partial fill and makes both legs' partial fills differ; with 1 every order is all or nothing, which is enough where only the existence of an order matters. One manual trade is enough to make any belief wrong; two can also cancel each other, which no property distinguishes from none. Two rescue batches are the least in which a batch follows a batch; `exec_disturbed` has one, because what it asks is about the pair and what follows it.

For the picker, two pairs and a cap between one and two full reservations make the pairs compete; a step of notional 3 under a limit of 2 per step makes replacing a step differ from keeping it, and one that is lopsided makes the two legs differ. Three pairs with a shared market are the least with an overlap, a rival and a bystander. Dwell 2 tells an entry that ages from one that is renewed. Two scores give every order of candidates with their ties. The cap matters only where notionals differ, so `picker_live` leaves it out.

For the book, three books tell a lost delta from a late one (the second adds a level, the third removes one), two faults let a resubscription be interrupted by another one, and two subscriptions let a subscriber return to a channel of its own making. For the order path, two callers are the least that contend for a nonce; two unknown outcomes let a cache that was refetched too early be wrong again; a quantity of 2 tells a partial fill from a full one.

`parts`: ledgers of up to 3 steps, three accepted configurations (with band 1, 2 and one wider than the cap, each close order) and one rejected, spreads from -3 to 3; means of 1 and 3 slots over times 0 to 9 with interval 2, so that a gap can exceed the window; a volatility ring of 3, an outcome window of 2; two keys, two savers, three saves, two stops; six account readings with ages up to twice the refresh plus one.

The runs allow the system to stop: the process may be stopped or die for good, and a settled execution does nothing more. Deadlock is therefore not checked.

Each property has a mutant in `PROJECT.json`, a change of one definition such as a bug would make (the checkpoint cleared one pass too early, the emergency check forgotten in `Recheck`, the pause before reading positions left out), and TLC finds the property violated under it.

## Fairness

`PairActor!Fairness`, used by the two liveness runs:

- weak fairness of the actor's goroutine, of the picker's poll (its loop runs every two seconds) and of the passing of the grace period;
- strong fairness of an order being matched as far as it can be (`FillInFull`), of the executor's retries as a whole (`Answered`) and of the account read of an exit. The code retries these for ever; the assumption is that not every try fails. Stated of each step separately it would be stronger than needed.

`AutoPicker!Fairness`, used by `picker_live`: weak fairness of the picker's ticker (`Poll` or its failure), of every actor's own loop (`Reconcile`, `Unwind`, `Fill`, `ActorEnds`) and of late orders landing or expiring. Nothing is assumed of decisions to open or close. That an actor's loop ends a drain is what `DrainReleases` shows.

`BookStream!Fairness`, used by `book_stream`: weak fairness of each goroutine (client loop, subscription jobs, collector, end of the stream, decision loop) and of the venue on an open connection (it answers requests and sends its changes). Nothing is assumed of the market's trades, of faults, or of subscribers.

`OrderPath!Fairness`, used by `order_path`: weak fairness of each call (every wait of the code has a timeout: the HTTP client's, the acknowledgement's, the pause between queries) and of transactions on their way arriving. Cancellation, the end of the stream and the reports are not fair. `CallsEnd` therefore says that a call ends even if nothing is ever reported.

What this leaves out: an order that never receives a terminal report (a lost transaction, for which the venue answers unknown for ever) leaves its execution unresolved until the next start. The code intends that, and `PendingSettles` assumes every sent order is reported in the end. Nothing is assumed of the environment's requests, of crashes or of stops. `DrainReleases` and `EmergencyEnds` are conditional on an actor that has reconciled or quarantines a checkpoint: one whose start-up check failed waits for its operator.

## Proofs

Every safety invariant and every action property the runs check is a theorem for all values of the constants (but `ExitIsFlat`, which is false). Each proof has the same shape: an inductive invariant, which TLC checked on the run's instance before it was proved; a lemma for the initial states; a lemma for each action, or for the actions that leave the parts in question alone; and the property from the invariant. The assumptions are those the modules name (`ConstantsAssumption`, `ExecutorAssumption`, `PickerAssumption`, `PathAssumption`, `BookAssumption`, `StrategyAssumption`, `WindowAssumption`, `FeedbackAssumption`, ...) and whatever hypothesis a theorem states itself.

### `PairActorProofs`

For every step size, capacity, stall limit, number of restarts and number of manual trades: `TypeCorrect` (`TypeOK`), `LiveOrdersCheckpointed`, `FileTrue` (`FileMatchesAccount`), `SettledHedged`, `OpeningsClean` (`OpeningNeedsCleanAccount`), `ReleasedFlat` (`ReleasedIsFlat`), and the action properties `StopBinds` (`StopRequestsBind`) and `ExitKept` (`ExitSurvives`).

`LiveOrderIsCheckpointed` does not follow from itself. The mark on disk is only as good as the reason for clearing it, which is held in memory, and memory is lost and reloaded. `CheckpointInv` adds: the mark in memory is down only when nothing is live (`MemoryMarked`); both marks are up at every point where an order may be sent, and the one in memory wherever a save is about to raise the other (`SendMarked`, `PendingMarked`); an order of this process implies that its execution is in hand (`OwnOrders`); with an order of a dead process live, this one has not begun an execution unless an exit was asked for (`OldOrders`); the end of the grace period is a fact about the venues and stays one (`ClockSound`); a process that has not started has sent nothing (`FutureIdle`).

`AccountInv` adds the positions. A position read under the mark says nothing as long as old orders live, so a reading is sound only if the grace period is over or there is no mark (`ReadsSound`), and only such a reading lets the mark go. Between a decision and its order the account is what it was when the decision was made (`Untouched`), because nothing is live while there is no mark; hence what is sent is what was meant. Without the mark the ledger is what the account holds (`LedgerHeld`). A confirmed drain already implies a flat account with nothing live (`DrainSound`), which is why `Drained()` may read its flags one at a time. Until start-up recovery is over the mark stays and only an exit is decided (`RecoveredFirst`). `StopSeen` is what `StopRequestsBind` needs: at the last point before the order is sent, a completed request has cancelled the call.

`ExitSurvives` is about a file and several processes. `ExitInv` adds where its intent is: what the file knows the memory knows too, except while the release is being saved, and there the mark is already down and the ledger empty; then `LedgerHeld` and `MemoryMarked` give the flat account. While the intent stands the mark stays up with it, so nothing is opened: no decision is taken under the mark, and one that was taken without it excludes an exit (`ExitInv`, last part).

### `ExecutorProofs`

For any quantities, number of rescue batches, lost transactions and manual trades, with lagging reads or without: `TypeCorrect`, `OneBatch` (`OneBatchAtATime`), `Settlement` (`SettledAtTarget`), `ExitWaits` (`ExitWaitsForReports`), `Rescuable` (`RescueReducible`), `NoAlarm` (`NoFalseAlarm`), `FillsCounted` (`FillsCountedOnce`), and `ContractKept`: `Executor` implements `ExecContract`.

`IInv` describes what the retained `Result` knows. Of an order (`OrdersSound`), a resolved report is final and true. `CallSound` and `TargetsSound` tie the point a call has reached to the stage of its `Result`, and say that rescue orders reduce, and reduce to the target. The core is `Tracked`: on an account nobody else trades, each leg is either `Confident` (what was read last is the position) or `InFlight`: the position is what it was before the last batch plus that batch's fill, and a read shows one of the two, which is what makes an inference from positions sound. Everything before the last batch is `Accounted`. An exit that may read lagging positions has less: `Fading` says that what it sees, however old, is never less than what there is, and that an order it wrongly believes full has nothing left to reduce. `Counted` says that the rescue account is the sum of what is known of the batches, each counted once; it needs the sums of `SumTheorems`.

`ContractKept` has two hypotheses. `MaxExternal = 0`: the contract is one for an account nobody else trades (see above). `Lagging => ~zero`: an exit with a lagging position endpoint is the case of `exec_stale_exit`, where the contract really fails. Under them every step of the executor is a step of the contract or leaves its variables alone, with one lemma for each of the contract's actions.

### `AutoPickerProofs`

For any number of pairs and any markets, scores, limits, steps, prices, starts and manual trades: `TypeCorrect`, `MarketsStayApart` (`MarketsApart`), `OpensOnlyAfterRecovery` (`OpensAfterRecovery`), `PositionsManaged` (`NoOrphanPosition`), `ReservationsSuffice` (`ReservationCovers`), `CapIsKept` (`OpensWithinCap`), and the action property `FailedIsNotPromoted` (`FailedStaysOut`).

`MarketsStayApart` and `OpensOnlyAfterRecovery` follow from `PickerInv`. That two state files stay apart cannot be seen from the files, since a file is written by an actor: whatever is saved has an actor (`SavedManaged`), and actors stay apart because those promoted in one poll see the actors present and those promoted before them. An actor is removed only after it was confirmed flat, and from then on nothing is saved for it (`ConfirmedEmpty`). A late order is traced to the marked pair that left it (`LateMarked`), whose actor is still waiting to recover or has failed; an opening (`OpeningMarked`) implies that none waits.

`BudgetInv` is about amounts, and the other properties follow from it and `PickerInv`. What no ledger accounts for is on a market of a saved pair (`ExtraManaged`), and on none of a reconciled one (`ReconciledClean`). Of one pair (`Fits`):

- `TradingReserved`: whoever may open has the steps it holds and its free steps reserved, each at the larger of its notional and the step limit. Appending, replacing, closing and partly filling a step never increases that amount (the lemmas `KeptAppend`, `KeptReplace`, `KeptRemove`, `KeptRoom`), which is the claim of the comment at `admission.go:10`.
- `Covered`: on each market what is booked, in flight, and, once the pair has recovered, unbooked or late, is within the reservation. A pair that drains keeps only its exposure reserved, so this does not follow from the first.
- `UnpricedHolds`: a ledger without prices holds the whole account.

`WithinCap` says that while anybody may open, all reservations fit the account. After a restart, where each pair was checked against those before it, the last pair that was let in was checked against all (`LastExists`); a promotion is checked against all actors, and the entries of one poll one after the other. `CapIsKept` combines them. The opener's reservation is positive, so no unpriced pair is beside it; every other saved pair's exposure is within its reservation; and a sum of smaller terms over fewer pairs is smaller (`SumMonotone`).

`FailedIsNotPromoted` is about the selection: a failed pair is not eligible, and by induction over the entries considered, whatever is chosen is eligible (`DesiredEligible`). `FailedKnown` says that the rate of a pair that failed is still remembered when it is out.

### `OrderPathProofs`

For any number of calls, retries, unknown outcomes and stream failures: `ResultsTrue` (`ResultIsTrue`), `RefusalNeedsUnknown` (`RefusedOnlyAfterUnknown`), `TypeCorrect`, and the action property `TerminalStays` (`TerminalReportStays`). `IInv`: the lock is held by the one call between taking a nonce and having an answer (`Locked`); whatever has been said of an order's end, in a report on its way, in the waiter or in a result, is what the venue has (`ToldIsTrue`); while every outcome was learnt, a nonce that is out is the account's and a cached one is next (`NonceInStep`). The last is not inductive without the lock.

### `BookStreamProofs`

For any price levels, any books of the venue, and any number of changes, faults and subscriptions: `BookTrue` (`BookIsVenues`), `LatestCurrent` (`LatestIsCurrent`), `WakeupKept` (`NoLostWakeup`). `BookInv`: the unread messages are ones the venue sent (`SentByVenue`), a synchronised book is the venue's at its nonce (`BookSound`), the subscriber's channel has one place (`OnePlace`), and nobody who has not subscribed holds a book (`StartsEmpty`). The step is that a delta, applied to the book it starts from, gives the book it leads to (`DeltaApplies`); the gap check of `onBook` is what guarantees that it is applied to no other.

`FaultsArePaid` is about the goroutines that subscribe again (`onBook`'s `go resubscribe`, and the first registration). The model keeps them in `MaxFaults + 1` places, and a bound of that kind is worth something only if it never binds. `Upsetting` is the set of the unread messages that will make the client subscribe again: those that cannot be decoded and those that do not continue the nonce before them, with one more place for the next update if a lost one has left a gap. `FaultsPay` says that the goroutines at work and the upsetting messages are together no more than the faults so far and one for the registration. Reading a message takes it from the second number to the first; a snapshot or a new connection only takes away; a lost update adds one, however many follow it. Hence whoever starts such a goroutine finds a place (`PlaceLeft`): the model leaves out no behaviour of theirs, and in the program no fault makes the client subscribe again more than once. `TypeCorrect` gives the types of the module.

### `PartsProofs`

- `StoreSafe` (`SaveSurvives`), for any keys, savers, kills and power losses. What is renamed was synced, what stands between rename and directory sync is on its key already (`SaveSound`), and a key has one save at a time (`OneSavePerKey`).
- `CapKept` (`CapHolds`) and `BandReleasable` (`BandCanRelease`), for any accepted configuration and spreads. A released band has seen its lower edge, an engaged one is above it (`BandInStep`), and no step was opened below the threshold by more than the mean of the spread, here 0 or 1 (`LedgerSound`). `BandReleasable` assumes `MarketMoves`: among the spreads the market can show is one that closes a step opened at the threshold. Nothing in the code could make it so; TLC's instance satisfies it. A band of zero width blocks nothing, hence the guard `Band > 0`.
- `RiskIsSeen` (`RiskSeen`), for any readings of the accounts and any ages: margin that was seen at the floor keeps the watch armed or has already asked for the emergency exit (`WatchInv`).

### `EstimatorProofs`

For any sizes, intervals, samples, gaps of the clock and changes of the window: `RingsTrue` (`RingsMatchHistory`) and `MeanTrue` (`MeanMatchesHistory`). Both compare a ring buffer and its running sums with what the whole history says; no induction over the history is needed, because each step relates the window before it to the window after it.

- `RingInv`: each ring holds its history, newest first, counted back from its index (`ReturnsKept`, `OutcomesKept`); the running sum is the sum of the places in the window. A sample moves every place back by one, so the sum gains the new term and loses the oldest (`SumShift`); when the width changes, the sum is taken again. Equal counts of failures, kept by slot in the ring and by place in the history, are shown by a pairing of the two (`SameCount`).
- `WindowInv`: the slot of an interval holds the last sample of that interval, for the intervals in the window (`RingHolds`). `update` looks only at the slots it crosses; that is enough because the slot of interval b is crossed when b + size begins (`Evictions`). The running count and sum are those of what the ring holds (`RunningTotals`), `first` is the oldest interval held (`FirstIsOldest`), and since the history was last begun every sample follows the one before it within the gap that is allowed (`SinceStarted`), which is what readiness and span depend on. `SumReindex` carries the sum by slot over to the sum by interval.

Remainders of integers are the other half of the work: `NextPlace`, `Apart` and `BackIndex` state what the rings need of them.

### `SumTheorems`

The library states induction with an operator as a parameter. Here it is stated with the set of the values that satisfy the claim (`Induction`, `SubsetInduction`), which the provers can instantiate, and from it follow the equations of a sum over any finite set (`SumRemove`, `SumAdd`, `SumLinear`, `SumCongruent`, `SumMonotone`, `SumZero`) and that a finite set of numbers has a last one (`LastExists`).

### Only model-checked

- The liveness properties: `DrainReleases`, `PendingSettles`, `EmergencyEnds`, `SlotsFilled`, `Converges`, `Recovers`, `CallsEnd`. They rest on fairness and `ENABLED`, which these provers do not handle.
- `ExitIsFlat`, which is violated.

## A disagreement between code and comment

`exec_stale_exit`: `executor.go:21` describes `SettleDelay` as the wait "before reading positions", and `executor.go:835` describes `FlattenToZero` as giving priority to "a confirmed flat account". Only `confirmPositions` waits. The intervention reads the positions directly after learning that the last order has ended. If the position endpoint lags and that order was an opening one, filled just then, the account looks flat: the intervention settles, the actor clears its ledger, and a position nobody else traded stays open. TLC's trace: a pair is sent; one leg fills and is closed by hand; the executor finds the contradiction and turns to the intervention; the other leg fills; the terminal report is read, then the old position. It needs both a manual trade and a lagging endpoint; without the lag the property holds.

## What is not modelled

- In the modelled components: order prices, tick allowances and the rescue ladder; fees and PnL; dry-run mode; the sizing of a promoted pair and the collectors that feed scores; REST formats and signing. `Submit`'s last check of the context and the hand-over to the network are one step, so "cancelled" in the models means cancelled before that step. The comment at `executor.go:859`, that another batch is never submitted until the earlier one is confirmed, holds up to the inference from positions that `Executor` describes.
- The range estimators other than the windowed mean, the EWMA and the numerical part of the tick coefficient: floating-point recurrences of one line, whose hazards are rounding and NaN, which TLC cannot evaluate.
- Scan and health score: an offline ranking and a smoothed number that reaches the picker as a rank. `AutoPicker` takes any rank.
- Symbol matcher, domain types, configuration: pure look-up, rounding and parsing without state.
- Monitor, samples, trade log: observers; nothing a decision reads comes from them. A sample that cannot be written ends its candidate's collector and with it the process, which for the actors is `AutoPicker`'s `Stop`.
- Analytics, backtest, commands: reports and wiring. The backtest drives the same strategy and estimators in one goroutine.

## Plan

Done: all modules; their runs; the theorems above, one for every safety invariant and action property of a passing run.

What could follow:

1. What an actor of `AutoPicker` may do, as a refinement: at present the README argues it from proved properties of `PairActor`. It needs an abstract actor between the two, over one quantity and one pair.
2. The two hazards without a property (`PROJECT.json`): an actor that never reconciles, and an order lost on the way that the venue never answers for. In both the code waits for ever; a property would have to say what it should do instead.
3. The executor's prices and the rescue ladder, if a property is found that depends on them.
