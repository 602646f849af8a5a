# Verification of moex-trader

TLA+ models of the parts of moex-trader in which a mistake costs money and a test
hardly reaches it: which of two machines may trade, who takes over when one fails
and from which database, whether the ledger, the broker's book and the kill switch agree
after lost answers, failed writes, crashes and restarts, whether the books that five
programs keep of the same fills are the same books, and what becomes of a signal on its way
to an order.

1. [Inventory](#1-inventory)
2. [Plan](#2-plan)
3. [The modules and the code](#3-the-modules-and-the-code)
4. [Runs, bounds and fairness](#4-runs-bounds-and-fairness)
5. [Proofs](#5-proofs)
6. [Where code and documentation differ](#6-where-code-and-documentation-differ)
7. [What is not modelled](#7-what-is-not-modelled)

`tlc -config X.cfg M` checks a run, `tlapm M.tla` a proof module; the runs, the code
lines behind every definition, the hazards and the theorems are listed in
`PROJECT.json`.

## 1. Inventory

### The system

Two machines, a Mac (primary) and a small server "ai-box" (standby), each run a
*watchdog* (`cmd/watchdog`). A third machine runs the *witness* (`cmd/witness`), which
hands out one lease. A watchdog starts the *trader* (`cmd/trader`) as a child process
when it holds the lease and stops it otherwise. The trader polls the market, computes
a target position per ticker, passes every order through a *risk gate* and sends it
to a broker; what it did is kept in SQLite, which the standby copies.

    watchdog mac  <-- heartbeat, yield request, database copy -->  watchdog aibox
        |   \                                                     /    |
      child  \---- status, renew, release ----> witness <--------/   child
        |                                                              |
      trader --> gate --> executor --> broker                        trader
                  \          \
                   kill_switch  audit_events      (SQLite, also opened by
                                                   trader -reset-kill-switch)

### Components in the scope of the project

| Component | Code | State | Operations |
| --- | --- | --- | --- |
| witness | `cmd/witness/main.go` | the lease (holder, expiry, notBefore), one state file | renew, release, status, load at start, persist after a change |
| election | `internal/failover/election.go` | none: a pure function of its inputs | `Evaluate`, `acquire`, and what a heartbeat says of the peer |
| watchdog | `cmd/watchdog/{node,trader,server,config}.go`, `internal/failover/{peer,witness,heartbeat}.go` | lease view, peer view, state and since, failures, backoff, cooldowns, yield times, the child process | `tick` (observe, status, give up, evaluate, renew, apply), `shutdown`, heartbeat and yield handlers, watching the trader's output |
| trading cycle and order path | `internal/orchestrator`, `internal/executor/{target_position,live,recovery}.go`, `cmd/trader/position_reconcile.go`, `internal/broker/tinkoff/sandbox.go` | the position cache, the executor's maps, an `audit_events` row per order | `RunOnce`, `Execute`, intent / post / record, `RecoverPendingOrders` |
| risk gate and kill switch | `internal/risk/{gate,runbook}.go` | the switch in memory and in the `kill_switch` row, the account's peak and day start | `Approve`, `triggerKillSwitch`, `ResetKillSwitch`, `SyncKillSwitch` |
| storage | `internal/storage/storage.go` | the SQLite tables | rows by status, the ledger sum, exposure by ticker, the switch |
| trader process | `cmd/trader/main.go` | what it builds at start | `newBrokerRuntime` with its recovery, `-reset-kill-switch`, the order filters |
| database replication | `internal/failover/{peer,snapshot}.go`, `cmd/watchdog/{node,server}.go` | each node's copy and its modification time; in memory the last start and whether the copy came from the peer | snapshot, conditional fetch, pull of a passive node, pull before a start |
| news gate and news exit | `cmd/trader/{main,newsexit,incidentcheck}.go`, `internal/features/incident.go` | news trades, cooldowns, incident watermarks, saved as one row | summarise incidents, claim an episode, note a short, evaluate, force an exit, save |
| ticker breaker | `internal/risk/tickerbreaker.go`, `cmd/trader/breaker_seed.go` | position, realized P&L and losses in a row per ticker | record, trip, seed at a start |
| books derived from the fills | `internal/dailysummary`, `internal/pnl`, `internal/backtest/{engine,position}.go`, `internal/executor/executor.go` | a position per ticker each | replay a row, record a fill, feed a breaker |
| rejection cooldown | `internal/executor/rejection_cooldown.go` | rejections per ticker and side | count, suppress, clear |
| signal hysteresis | `internal/orchestrator/hysteresis.go` | committed and pending signal per ticker | one step per poll |

Components left out for good, with the reason, are in [section 7](#7-what-is-not-modelled)
and in `PROJECT.json`.

### Interactions and what makes them hard

* A watchdog's tick is sequential but makes HTTP calls, so the time it sampled, the
  lease it saw and the decision it took grow old while the other node, the witness and
  the clocks move. The machines' clocks differ, the Mac sleeps, answers get lost.
* The trader lives in a process group of its own. Nothing but the watchdog's memory
  knows that it exists.
* The witness answers a grant even when writing its file failed, and its restart
  must neither forget a promise nor lock everybody out.
* Failures, backoff, giving up, failing over and handing back can follow each
  other; each has cooldowns, and the cooldowns of two nodes have to fit together.
* An order is three steps (write an intent, post, record the answer) and a crash or an
  error may come between any two. The broker goes on executing the order meanwhile.
* The kill switch lives in memory and in a row. It trips in the middle of a cycle and
  is read at several places; a second process may clear it.
* Two processes may recover the same rows: the trader's start, and the reset.
* A database is fetched while the other machine's trader writes it, and the two memories that
  decide which copy is the newer one do not survive a restart of their watchdog.
* The same fills are accounted for five times, by code that is similar but not the same: with
  or without commissions in the price, a reversal in one step or in two, fill by fill or
  replayed from the log.
* A signal passes through four small machines with memories and clocks of their own. Some
  are saved, some are not, and a failed save, a refused order or a restart takes them
  apart.

### What makes each component correct

* *Witness*: no instant is promised to two nodes, across crashes and file losses; a
  takeover waits out the promise and the grace; no restart locks a node out for long.
* *Watchdogs*: never two traders alive together; the lease outlives the trader that
  runs on it; a node that gave up stays out; a fit primary gets the trading back; as
  long as one node can serve, somebody trades.
* *Order path*: the ledger counts no lot that was not executed, a recorded fill stays,
  an open order is never forgotten, a position beyond the ceiling comes only from lots
  that executed unseen.
* *Kill switch*: from the trip to the reset nothing is sent.
* *Replication*: a copy never replaces the newer database by the older one, and a trader that
  takes over starts with every row it could have been given.
* *Books*: no money is made or lost by the accounting, every derived position is the ledger's, a
  restart does not unblock or block a name, the backtest earns what the live books earn.
* *Signals*: a short opened on news is known, closed in the end, not repeated in its cooldown or
  for an episode that was seen from its start; a signal flips only after its polls; a cooldown is earned by
  rejections in a row.

The hazards behind these, each at its line, are the `hazards` of `PROJECT.json`.

## 2. Plan

Done, in the order of importance and of dependence:

| Module | Composes | Proofs |
| --- | --- | --- |
| `LeaseService` (abstract) | - | - |
| `Witness` | implements `LeaseService` (INSTANCE) | `WitnessProofs`, with the refinement |
| `Election` (pure) | - | lemmas in the two below |
| `Fencing` | `Witness` (EXTENDS), `Election` (INSTANCE) | `FencingProofs` |
| `Handover` | `Election` | `HandoverProofs` |
| `Orders` | - | `OrdersProofs`, over `Sums` |
| `Books` | - | `BooksProofs`, over `Sums` |
| `DbSync` | takes the exclusion of traders from `Fencing` | `DbSyncProofs` |
| `Signals` | - | `SignalsProofs` |

Left, in this order:

1. A mutual exclusion of traders as an abstract specification that `Fencing` implements, and
   `Fencing` as a client of `LeaseService` in place of the whole `Witness`.
2. The exposure caps under lost answers: `Orders` with the prices of `Books`.

## 3. The modules and the code

### Witness

The witness process with its file, and time. `clock` is the witness's clock; `holder`,
`expiresAt` and `notBefore` are the fields of its state in memory, `disk` the file,
`writable` whether the file can be written, `up` whether the process lives. Two
variables are history: `promise[n]`, the last expiry told to `n`, and `recall`, what the
restarts remembered: `"full"`, `"blind"` (no readable file, so everybody waits), or
`"stale"` (a file older than the last answer was restored).

| Action | Code |
| --- | --- |
| `Renew`, with `Granted`, `Deny` | `renew`: expiry, grace and `notBefore` compared as the code does, then `persist`, whose error changes nothing in the answer |
| `Release` | `release`: only the holder's, and it is persisted |
| `WitnessCrash`, `WitnessRestart` | the process dies; `load` reads the file, or blocks for one TTL |
| `DiskLost`, `DiskFull`, `DiskFreed` | the environment of the file |

`LeaseService` is what the watchdogs rely on, without a process, a file, a holder or a
grace: each client is promised a term, and while the service is `honest` it promises nothing
until the others' promises are over. `Witness` implements it under `now <- clock`, `until <-
promise`, `honest <- (recall # "stale")`: a granted renew is a `Promise`, a release a
`Yield`, restoring an outdated file a `Forget`; crashes, restarts, denials and the disk are
stutters.

### Election

`Evaluate` and `acquire` and everything they read, over one `Input` record with the
names of the Go struct. The reason strings are left out except for the one `apply`
recognises (`fence`). Both watchdog modules take their decisions from this module, so the
election logic exists once.

### Fencing

Two watchdogs with *split* ticks against the witness. One tick is `BeginTick` (samples
now), `ReadStatus`, `GiveUpLease` when it has failed too often, `RenewLease`, then `apply`
as `SignalTrader` / `TraderStopped`, `ApplyHandOver`, or `ApplyRun`. Between any two of
these the other node, the witness, the clocks and the faults move. `Shutdown` and `Quit` are
the end of `run`. A call that fails may have reached the witness or not (`Fails`).

What a watchdog knows of its peer and its own past failures is any member of `Belief`,
chosen anew each time. Exclusion must not depend on it, and this makes it independent of
everything that `Handover` is about.

The faults are those of the witness, the loss of a node's link to it, and `TraderExits`,
`WatchdogCrash`, `Shutdown`, `Suspend`. They share the budget `MaxFaults`; repairs are
free. `Elapse` waits for awake watchdogs that are late (`Timely`): a tick starts at most
`MaxTick` after the one before, and its renew reaches the witness within `MaxRenewDelay`.

`excuse[n]` is history: the ticks that `n` still needs after something the timing does not
cover: a sleep, a trader that ran on while renews kept being lost, or a lease given up after failures whose
release the witness carried out although the answer was lost, so that the watchdog still believes it holds. In the
code `retry_cooldown` mostly keeps that node from a start (`node.go:184`); what a node knows of its own failures is
`Belief` here, so it may start at once, and `ExclusiveTraders` says nothing of it for two ticks. `Accountable(n)`
means that no such excuse is open and the witness restored no stale file.

### Handover

The same pair with *atomic* ticks and the beliefs in full: heartbeats and their age, states
and since, failures with backoff, giving the lease up after `max_failures`,
`post_failure_cooldown`, the yield request with its cooldown and time to live, the
handover cooldown, a trader that is `starting`, `active` or `exited`, machines that are
good, bad or stuck. Times are relative to now (zero or negative in the past), forgotten when no
comparison can tell them apart from "long ago", so the state space is finite although time has
no end. `Tick(n)` is the whole `tick`: `Reap`, `Observe`, `Refresh`, the status, the
give-up, `Evaluate`, the renew, the second `Evaluate`, `Apply` with `Yield`, `Ask`,
`StartTrader` or `RestInError`. `Elapse` is one round; every live watchdog ticks in each.

### Orders

One trader process with its gate, executor and store, the broker, and the process
`-reset-kill-switch` on the same database. Lots are signed.

| Variable | Code |
| --- | --- |
| `position`, `book`, `request` | the broker's portfolio and orders (external) |
| `rows`, `switch` | the `audit_events` rows of the executor, the `kill_switch` row |
| `trader` | stage, `halted` (the gate's flag), the position cache, the resolved instruments, the order under way |
| `recovery` | `RecoverPendingOrders`, in the trader and in the reset |
| `trip` | history: whether the last trip is in memory, stored, or forgotten |

| Action | Code |
| --- | --- |
| `BeginCycle`, `Skip`, `EndCycle` | `RunOnce` over the tickers, with every reason to send no order |
| `TripSwitch`, `StoreSwitch`, `CancelOpenOrders` | `triggerKillSwitch`: flag, row, cancelling |
| `Approve` | target position, delta, the gate |
| `RecordIntent`, `PostOrder`, `RecordAnswer` | the executor: the pending row, the call, the outcome |
| `ListOpen`, `Recover` | the recovery, row by row |
| `StartTrader`, `TraderReady`, `Crash` | a process begins and dies |
| `StartReset`, `EndReset` | `-reset-kill-switch`: the whole broker runtime, then the reset |
| `Execute`, `Expire` | the broker, one lot at a time (external) |

Choices that a reader should know:

* The poll interval (5 min) exceeds the cache's lifetime (1 min), so the cache is stale
  at each new cycle, and may be refreshed within one.
* Each `Execute` draws a fresh uuid, so an order id is used once.
* Breaker, exposure caps, fat-finger band, market hours, blackout and cooldowns can only
  turn an order into none, which is `Skip`. The lot cap, daily loss and
  drawdown are modelled, since they trip the switch or bound the position.
* Orders are limit orders. The broker receives a request at the instant of the call,
  the answer may be lost. Reports that say "filled" with zero lots are left out.
* The reset runs when the switch is on, unless `ResetAnyTime`. The account starts flat.

### Books

One stream of executed orders and everybody who accounts for it. Lots are signed; the code's
average price is `basis` = lots times average, so that the model needs no fractions.

| Variable | Code |
| --- | --- |
| `store` | what `Store.ledgerExposure` and `CurrentLots` make of the rows |
| `live` | the `TickerBreaker` of the running trader, fed by `breakerFillObserver` |
| `seeded` | the `TickerBreaker` that `seedTickerBreaker` would make of the rows now |
| `summary` | the positions of `dailysummary` and `pnl` (the same code twice) |
| `engine`, `tested` | a backtest that makes the same trades, and its breaker |
| `missed`, `covered`, `trimmed` | history: where the books may part |

| Action | Code |
| --- | --- |
| `Trade` | `ApproveReason` with breaker and caps, `skipRebalance`, an execution whole or in part, and all the books |
| `Restart` | the next trader seeds its breaker from the log |
| `RestartUnread` | the log could not be read, the breaker starts empty |

`Record` / `Reduce`, `SummaryRecord` and `EngineFill` are three translations of three pieces of
code, not one operator used three times; comparing them is the point of the module. The money of a
position is compared with the ledger's, which keeps no averages. The paper executor's fill
is the whole fill. Lost answers are left to `Orders`.

### DbSync

A database is the set of rows written to it, a row being its second and a number.

| Variable | Code |
| --- | --- |
| `db`, `mtime` | the file of a node and `DBFreshness` of it |
| `turn`, `running` | who holds the trading (`Fencing`, `Handover`), and whether its trader runs |
| `start`, `synced`, `peerHB` | `lastTraderStart`, `syncedFromPeer`, `peerHB` |
| `pull` | a `pullDB` under way: asked, copied, over |
| `last`, `astray` | history: the node that traded last, and whether it then asked for the other's database |

| Action | Code |
| --- | --- |
| `Write`, `Stop` | the trader writes a row; ends, which merges the write-ahead log and may touch the file |
| `PullBefore`, `StartTrader`, `StartFails` | `startTrader` |
| `See` | the peer's heartbeat in a tick |
| `PullPassive` | `syncPassive` |
| `Copy`, `Replace`, `PullFails` | `handleDB` / `SnapshotDB`, `ReplaceDB` and `Chtimes`, every error |
| `Restart` | a watchdog with its trader goes down and comes back, its memory gone |

A fetch is several steps, since the other trader writes beside it. Orphaned traders and the skew of
the clocks are left out. A heartbeat that says "running" counts as long as `peerSeen`
holds; an older one makes the pull fail, which is `PullFails`.

### Signals

One ticker from the model's answer to the order. The orchestrator polls tickers one after the
other and all maps are keyed by ticker. A poll is `Answer` (all the sources) and then an order,
with room for a crash between.

| Variable | Code |
| --- | --- |
| `band` | `signalBandState` of the hysteresis |
| `memory`, `saved` | `newsExitManager.state` and its row `news-trade-state` |
| `articles` | ages of the reports published with a date within the window |
| `held`, `ledger` | lots at the broker, and by the rows |
| `rejection` | failures and suppression for sales |
| `origin`, `forgot`, `episode`, `fromStart`, `sinceExit`, `streak`, `raw` | history, for the properties |

| Action | Code |
| --- | --- |
| `SourceFails` | the model's error, after which the hysteresis forgets |
| `Answer` | `Generate` of the hysteresis and of the news gate: `evaluate` and `AnswerExit`, or `gateIncident`, `shortOnIncident`, `claimIncident`, `noteShortEntry` and the veto (`AnswerSignal`), with `saveLocked` |
| `NoOrder`, `OrderGoesWell`, `OrderFillsInPart`, `OrderIsRejected`, `AnswerIsLost` | the gate or the cooldown refuse, or what comes of the order |
| `NextPoll` | time and the news that come in |
| `CrashInCheck` | the process dies while `confirmDamage` asks the checker: the claim is saved, the short never comes |
| `Crash`, `Start` | the process dies at another moment, `newNewsExitManager` loads the row |

Whether prices reach a stop, whether the gate approves, what the checker of headlines answers and
whether sentiment vetoes are free choices.

What a poll reads of the incident is a *view* (`Views`), chosen anew in each: too few sources (`Quiet`), enough of
them but no report with a date (`Undated`), or any part of the dated reports (`Dated`), each with or without a denial.
Feeds are fetched again in every cycle, single ones fail, and they drop old items, so that one poll may see the whole
episode, the next only its end, and the next nothing. `FirstReport` and `Claimed` have the branches of
`claimIncident` for an incident without dates: it is new and fresh in every poll and leaves no watermark.

## 4. Runs, bounds and fairness

| Run | Result | Question |
| --- | --- | --- |
| `witness` | holds | `WitnessInv`, `PromiseSurvivesRestart`, `LockoutBounded`, `TakeoverWaits`, `ImplementsLeaseService` |
| `fencing` | holds | `FencingInv`, `ExclusiveTraders`, `LeaseOutlivesTrader` |
| `fencing_orphan` | violated | `NeverTradeSimultaneously`: a killed watchdog leaves its trader |
| `fencing_denied` | violated | `StartsOnlyWhileHolding`: a denied renew keeps the decision |
| `handover` | holds | `HandoverInv`, `StaysOut`, `PrimaryReturns`, `Available` |
| `handover_stuck` | violated | `StuckPeerReplaced`: a hung trader keeps its lease |
| `orders` | holds | `OrdersInv`, `LedgerNeverAhead`, `NoStrayOrder`, `SeenPositionWithinLots`, `SwitchStopsTrading`, `FillsStay` |
| `orders_forget` | violated | `BlockedUntilReset`: a trip that dies with the process |
| `orders_reset` | violated | `FillsStay`, when the reset runs beside a live trader |
| `books` | holds | `BooksInv`, `MoneyConserved`, `CapUpToRealized`, `RestartKeepsVerdict`, `BacktestAgrees`, `SummaryAgrees` |
| `dbsync` | holds | `DbSyncInv`, `NoSwap`, `NewestKept`, `TakeoverAsks`, `TakeoverComplete`, `PassiveCatchesUp` |
| `signals` | holds | `SignalsInv`, `NewsShortTracked`, `ExitsOnlyItsOwn`, `CooldownHolds`, `CooldownEarned`, `OneShortPerEpisode`, `NoEpisodeSwallowed`, `HysteresisHolds`, `NewsShortEnds` |

Where the code does not keep a promise in every case, the property of the last three runs names
the case exactly (`covered`, `trimmed`, `missed`, `forgot`, `ledger # held`, a restarted watchdog, a
heartbeat that was outdated) and holds in all others; [section 6](#6-where-code-and-documentation-differ)
lists these cases. Where such an exception is a hazard's own case, `PROJECT.json` lists the hazard without a property
and says so.

Each property of a run that holds comes with a mutant of a definition of the model (a dropped
guard, a missing reset, a swapped order) under which TLC finds it violated.

### Bounds

* **witness** - 278 000 states. TTL 3, grace 1, 9 instants, two nodes. Room for three
  leases in a row with crashes at any instant, faults unlimited. Time stops at `MaxTime`, so
  deadlock is not checked.
* **fencing** - 722 000 states. TTL 3, grace 2, 6 instants, ticks of 1, one fault, the
  second clock one behind, the Mac may sleep, traders may fail out. Six instants hold a lease, its
  expiry, the grace, a takeover and a tick after it. Two beliefs reach every decision that
  touches a lease or a trader: nobody there, and a peer that asks for a handover. One fault is
  what fits in the time; the theorems hold for any number. `fencing_orphan` has the same
  numbers without sleep. `fencing_denied` has TTL 5, grace 1 and ticks of 2, so that a
  renew may arrive later than the grace.
* **handover** - 120 000 states. TTL 2, two failures, the cooldowns scaled so that
  their order is that of `config.go`: a grace is shorter than a failover, a retry shorter than
  the cooldown, and the memory of a failure longer than the error grace and a startup. Ages beyond
  `Horizon` 3 are alike. One fault (a crash, a cut, a failing trader, a machine gone bad or stuck, a
  shutdown), repaired or not, at any moment; a second one takes TLC past five minutes.
* **orders** - 3 830 000 states. One ticker, two orders, `max_lots` 2, two faults. With a
  ceiling of two an order may have up to four lots (from -2 to 2), so partial fills and a
  position beyond the ceiling exist; two orders overlap; two faults make a lost answer
  followed by a crash. Deadlock is checked: the trader's cycle never ends.
  `orders_forget` needs one fault, `orders_reset` none.
* **books** - 933 000 states. Two tickers in one sector, targets from -2 to 2, two prices, five fills.
  Five fills are enough to open, add, trim, reverse and close one name while the other
  holds exposure. The unit of money is chosen so that every share of a basis or a
  commission is exact; the caps are as tight as they can be without stopping every second fill, and
  the breaker trips on two losses or on a loss limit that one loss can reach. Lots are of one
  share.
* **dbsync** - 706 000 states. Three starts, two rows, two seconds, one restart or failed start. Three starts
  are there, back and there again; two rows in one second and in two are what a date of
  one second can and cannot tell apart. Traders are not started for ever, so it stops.
* **signals** - 263 000 states. Hysteresis of two polls; grace and holding time of one poll, cooldown and
  episode gap of two, reports in the window for three polls and fresh for two, so that two episodes fit into it. The order of the durations is
  the deployed one (grace < holding < cooldown = window, freshness + gap <= window). One
  fault of any kind at any moment, behaviours without end.

Deployed values: TTL 5 min, witness grace 5 s, tick 5 s, HTTP timeout 10 s, stop grace 60 s,
startup grace 15 min (standby 20), retry cooldown 5 min, post-failure cooldown 30 min, peer
stale 30 s, failover after 10 min, peer error grace 2 min, handover cooldown 30 min, yield
request cooldown 60 s and time to live 2 min, failure memory 30 min.

### Fairness

Three runs state liveness.

`Handover`: `WF(Elapse)`: time passes. `WF(Ticks(n))`: `run` ticks
on a timer for as long as the watchdog lives, and a tick's calls have timeouts. It is written over `ticked`,
which nothing but `Tick` extends, so that it is weak fairness of the tick itself.
`WF(TraderActive(n))` and `WF(TraderFails(n))`: a starting trader prints its marker or exits, unless the
machine is stuck, when neither is enabled. Nothing is assumed of faults, repairs, or
the order in which the nodes tick.

What the liveness properties assume is in their text. `PrimaryReturns`: the primary stays fit
and the LAN is up both ways. `Available`: one node stays serviceable, the other does not hang in its
startup, and a standby does not hear a primary that lost the witness. The code waits in both of
the excluded cases; the first is the finding `handover_stuck`, the second a hazard for which no
document promises anything.

`DbSync`: weak fairness, per node, of a fetch that goes on (its HTTP client has a timeout), of the
tick that sees the peer, and of the passive pull. `PassiveCatchesUp` speaks of the time when no
trader is started any more.

`Signals`: weak fairness of polling and of a restart (the orchestrator's timer, the watchdog).
Strong fairness of an answer without a fault (`Answers`) and of an order that is filled is an assumption about the
world, without which an exit is repeated for ever; `NewsShortEnds` is the claim that nothing
*else* is needed.

## 5. Proofs

Eight proof modules, 9054 obligations, all proved. The theorems hold for any nodes, tickers,
prices, orders, lots and number of faults, and any timing that satisfies the named assumptions.

| Theorem | States |
| --- | --- |
| `WitnessTypeCorrect`, `FencingTypeCorrect`, `HandoverTypeCorrect`, `OrdersTypeCorrect` | type correctness |
| `WitnessInvariant`, `FencingInvariant`, `HandoverInvariant` | `WitnessInv`, `FencingInv`, `HandoverInv` |
| `WitnessIsLeaseService` | `ImplementsLeaseService`, the refinement |
| `WitnessSafe` | `PromiseSurvivesRestart` |
| `WitnessNeverLocksOut` | `LockoutBounded` |
| `WitnessTakeoverWaits` | `TakeoverWaits` |
| `TradersExclusive` | `ExclusiveTraders` |
| `LeaseGuardsTrader` | `LeaseOutlivesTrader` |
| `GiverStaysOut` | `StaysOut` |
| `OrdersInvariant` | `OrdersInv` |
| `TripStopsTrading` | `SwitchStopsTrading` |
| `RecordedFillsStay`, `NoOrderStrays`, `LedgerHolds` | `FillsStay`, `NoStrayOrder`, `LedgerNeverAhead` |
| `SeenPositionsHold` | `SeenPositionWithinLots` |
| `BooksAgree`, `MoneyIsConserved`, `RestartsKeepVerdicts` | `BooksInv`, `MoneyConserved`, `RestartKeepsVerdict` |
| `SummaryAgreesWithBreaker`, `BacktestEarnsAlike`, `GrossExposureIsCapped` | `SummaryAgrees`, `BacktestAgrees`, `CapUpToRealized` |
| `SyncIsOrdered`, `DatabasesAreNotSwapped`, `NewestIsKept`, `TakeoversAsk`, `TakeoversAreComplete` | `DbSyncInv`, `NoSwap`, `NewestKept`, `TakeoverAsks`, `TakeoverComplete` |
| `SignalsSafe`, `NewsShortsTracked`, `ExitsItsOwn`, `CooldownsHold`, `CooldownsEarned` | `SignalsInv`, `NewsShortTracked`, `ExitsOnlyItsOwn`, `CooldownHolds`, `CooldownEarned` |
| `OneShortPerEpisodeHolds`, `NoEpisodesSwallowed`, `HysteresisHeld` | `OneShortPerEpisode`, `NoEpisodeSwallowed`, `HysteresisHolds` |

### The arguments

*Witness.* `WitnessInv`. `PromiseSurvivesRestart` is not inductive: it says nothing of what a
restart will find. Added are that an unexpired promise is shielded, by the holder in memory or by
`notBefore`, that with full recall memory and promise agree, and that no deadline, the file's
included, is more than a TTL ahead. For the refinement, each action of `Witness` has a lemma that names
the step of `LeaseService` it is; `GrantIsPromise` needs the invariant, since only it says that nobody
else's promise is open when the witness grants.

*Fencing.* `FencingInv`. A node *claims* the trading when it sees itself as holder, intends to
run, or has a trader alive. The invariant says that no two accountable nodes claim at once, and that each
claim is *protected*: the witness holds a promise to that node which outlasts what the
node can still do before it looks again. `ExclusiveTraders` alone fails at the first renew, since a
decision taken earlier has no trader yet. Each action has a lemma; `OneMoves`, `ClaimlessMove`
and `QuietMove` reduce it to what the acting node claims. The proof needs `TimingAssumption`, in
`FencingProofs`:

    2*MaxTick < TTL                            two ticks fit into a lease
    MaxRenewGap + 2*MaxTick < TTL + Grace      and into what is left after a lost renew
    MaxRenewDelay <= MaxTick
    MaxRenewDelay <= Grace + Skew[n]           a renew arrives before the grace runs out

The first two hold in the deployment by far, unless calls hang: `MaxTick` includes the stop grace
of 60 s and the HTTP timeouts. The last one is a real condition on it: the witness's grace
is 5 s, while the status call before a renew may take its timeout of 10 s, and a node's
clock may be behind. Where it fails, `fencing_denied` shows what happens. TLC evaluates the
assumption in `MCFencingTimed`.

*Handover.* `HandoverInv`, that is `TypeOK`, `SittingOut` and `PeerKnown`. `StaysOut` is not
inductive, for nothing in it keeps the next tick from acquiring. `SittingOut` says why it does not: the
failures are not forgotten and the next start is put off by exactly what is left of the cooldown.
`PeerKnown` ties a heartbeat that may count to its time; without it a decision would read a
peer that is not there.

*Orders.* `OrdersInv` (`TypeOK`, `SwitchInv`, `RecoveryInv`): a trip is in the row, or in the
memory of a live process, and no order is under way in either case; a recovery never runs beside
an order. `TripStopsTrading` follows from `SwitchInv`. The three about rows assume `~ResetAnyTime`,
without which `orders_reset` shows the opposite. Each needs the one before: `RowInv` (which
statuses an order's row may have at each stage, and that a recovery's list is pending), `StrayInv`
(what a recovery lists as open covers what it will judge), and `LedgerInv` (the answer under way
and each row count at most what was executed).

`SeenPositionsHold` needs all of these and `HoldInv`. The gate adds an order to the portfolio it has cached, to one it
has just read, or, when the broker does not answer, to the ledger, and lots go on executing meanwhile. The
invariant therefore speaks of `Held(t)`, the position without what the order under way has executed so
far, and says while nothing of `t` is unseen: it is within `max_lots`, the cache agrees with it until the cycle has
traded `t`, and so does the order under way taken whole. `PositionInv` (the position is the sum of what its orders
executed) turns the ledger, a sum over rows, into it. What keeps the
excuse from leaking is that unseen lots stay unseen: a row takes its lots from the answer once, a recovery writes none,
and the broker only ever executes more, so every step of the proof has `Seen` before from `Seen` after.

*Sums.* The ledger and the exposure are sums over a finite set, a fold of the community modules. Induction over
data is out of reach as a rule with a predicate as parameter, but over finite sets it can be done by hand:
of the counterexamples one has the fewest elements (`SmallestSet`, from the library's `WFMin`), and taking an
element from it leaves none. So follow `SumRemove`, `SumMonotonic`, `SumPlus` and `SumChange`, which the proofs cite.

*Books.* `SameLots` and `MoneyConserved` are inductive together with the types: each of the three ways to
record a fill has a lemma on its lots, and the money a fill moves between `basis` and
`realized` is what its row cost, however it is shared. `Share` rounds, and the proof does not need
that it is exact. `RestartKeepsVerdict` needs only that `live` and `seeded` take the same
`Record`.

`SummaryAgrees` is inductive once it includes the realized money (`SummaryInv`); the work is in `SummaryFollows`, that
a replay which closes and then opens arrives where the breaker does in one step.

`BacktestAgrees` is not: while a position is open its two results may differ by what is tied up in
it. `BacktestInv` follows two quantities, the `Lag` in what is tied up (commissions included) and the `Gain` in that
less what was realized. Both are zero until a position is trimmed, and the breakers are then equal, tripped or not;
from then on `0 <= Lag <= Gain` and `Gain >= 1`, since every lot trimmed earns the spread (`SpreadEarned`) and
the lag can only leave with the lots that have it. At zero lots the lag is gone, and the gain is what the backtest
earned more. It rests on `UnitAssumption`: prices are multiples of a unit in which a spread and a commission are
whole and a commission is less than the amount, as in the code's decimals. `Share` itself may round, so the kept part
is shared and the closed part is the rest (`Freed`).

`CapUpToRealized` speaks of the average cost, while the gate adds the ledger's legs, which are cash flow, to the
order. The invariant bounds a potential: a name has *committed* its average cost less what it gained on its side of
the book, which is never more than its leg, and what all names have committed together is within the cap
(`CommitmentsCapped`). An order that only reduces commits no more than before (`ReducingCommitsNoMore`), whatever it
makes of the cash flow; any other was measured by the gate with a leg that covers what it commits, except for the
spread it pays (`ChangeCovers`, `FillCommits`, `GateSees`). An order has at most twice `max_lots`, which
bounds that spread and is what `SmallLots` is for. What a leg hides of the cost of a name (`Hidden`) is the term that
the property names: a profit a long made before, or a loss a short made before, for as long as the name is held.
A flat name hides nothing, and a result that makes a leg larger than the cost excuses nothing. Amounts are lots times
price, as the ledger has them; the lot size is outside the statement (6.7). Without `Slippage` the statement is false for some prices: the gate asks at the quoted price and the order
executes a spread away.

*DbSync.* `DbSyncInv` (`StartsOrdered`, `TurnsHeld`, `FetchesJustified`, `CopiesDated`). None of the
action properties is inductive: they need that a start number identifies the last starter, that a
fetch runs only where the decision was right or an excuse is recorded, and that what a copy
lacks was written between its date and the peer's. The last is what makes sampling the date before
the snapshot the safe order.

*Signals.* `IInv`, which says of each part what the poll before has left: an answer is there only until
it is traded; the hysteresis has counted no more than the model said (`BandCounts`); a failure is
one of the row (`RejectionsCount`); the news trade follows the short, whoever knows of it, the process
or the row (`TradeKnown`); the cooldown left and the polls since the exit make up the cooldown
(`CooldownKnown`); an episode that had its short can have no other, and one that nothing has settled does not count as
seen (`EpisodeKnown`). The former is the
hard one: a view may show any part of the reports, a report that a feed has just dropped makes its followers look like
the start of an episode, and so does one that leaves the window. The watermark of a short is the latest date of the view it was
opened on, which is never before the episode's start; so a later view that has this start has nothing newer than the
watermark to offer as its first. A start that is fresh is also one that the window still shows to be a start, for
what has left the window was published at least a gap before it. That is
`WindowAssumption`, freshness + gap <= window + 1, which the deployed 6 h, 12 h and
48 h satisfy; a longer freshness or a shorter window would let an episode be shorted twice. What the property does not
cover is in section 6 (14 and 15).

### Only model-checked

* `PrimaryReturns`, `Available`, `PassiveCatchesUp` and `NewsShortEnds`: liveness under fairness, and
  ENABLED, are out of the prover's reach.

All invariants and all action properties of the runs are proved. `SeenPositionWithinLots` and the three other
properties of rows are proved without `ResetAnyTime`, which is where `orders_reset` shows that they fail.

The assumptions on the constants, all of them evaluated by TLC: types and positive divisors; `TickerAssumption` (the
configured tickers are a finite set in `Books`, and the empty name is none of them in `Orders`); `UnitAssumption`,
`TimingAssumption` and `WindowAssumption` as above.

## 6. Where code and documentation differ

1. **A trader survives its watchdog** (`fencing_orphan`). `startTraderProcess` sets a process
   group (`cmd/watchdog/trader.go:39`); when the watchdog is killed the trader lives on, the lease
   expires, the other node starts a second one. `docs/ARCHITECTURE.md:76`: the two "never trade
   simultaneously". A service manager that kills the whole service avoids it: a node
   outside `OwnGroup`.
2. **A denied renew keeps the decision** (`fencing_denied`). `tick` re-evaluates only when the
   renew says that the node holds (`cmd/watchdog/node.go:126`); on a denial it starts the trader
   although the answer names the other node, and stops it at the next tick. Same paragraph: runs the
   trader "only while holding" the lease.
3. **A hung startup is never replaced** (`handover_stuck`). A peer that has been starting for too
   long counts as broken, but its watchdog renews the lease while the process lives, so
   `acquire` stops at "peer holds lease" (`internal/failover/election.go:138`).
   `TestStandbyAcquiresWhenPeerStuckStarting` (`election_test.go:160`) expects a takeover from a peer stuck in its
   startup; it passes because its lease has no holder.
4. **A trip can be forgotten** (`orders_forget`). `triggerKillSwitch` sets the flag before it
   writes the row (`internal/risk/gate.go:574`), and a failed write is not retried. After a crash
   the next start trades. `docs/GO_LIVE_CHECKLIST.md:17` says the switch "blocks new signals until
   reset", `docs/ARCHITECTURE.md:65` that it is persisted.
5. **The reset recovers orders** (`orders_reset`). `-reset-kill-switch` builds the broker runtime and
   with it runs `RecoverPendingOrders` (`internal/executor/recovery.go:104`), which writes rows it
   listed earlier whatever they hold by then. Beside a live trader it replaces a recorded fill, and
   the ledger loses the lots. `cmd/trader/main.go:71`: "reset persisted kill switch and exit".

The next ones are stated the other way round: a property of a passing run names the exception.

6. **Buying back a part of a short** (`SummaryAgrees`, `covered`). `dailysummary` and `pnl` subtract the closed
   lots from a short (`internal/dailysummary/dailysummary.go:216`), which makes it larger.
   `dailysummary.go:162` says the accounting "mirrors risk.tickerState.record line for line".
7. **Exposure is cash flow** (`CapUpToRealized`, `MoneyConserved`). `ledgerExposure` adds up what every
   row of the log cost, profits of closed lots included, while its comment says "priced at average
   cost". It is dropped while the name is flat and comes back with the next position. The
   lot size is in an order's notional and not in the legs it is added to: with lots of many shares the cap sees a
   small part of what is held, and `CapUpToRealized` bounds no money then.
8. **The breaker after a restart** (`RestartKeepsVerdict`, `missed`). A partial fill comes back as an error, so the
   live breaker does not see it, while the log has it. A log that cannot be read at the start
   leaves the breaker empty. A tripped name's closing orders are refused too
   (`docs/metrics/s9-live.md:60` asks whether that is wanted), and nothing in the trader resets it.
9. **The backtest trims at the better price** (`BacktestAgrees`, `trimmed`). `fillPrice` is given the action of
   the target (`internal/backtest/engine.go:929`); a long that is trimmed "buys" above the quote. Its comment:
   "against the trader: a BUY fills above the quoted price, a SELL fills below it".
10. **A restarted watchdog forgets that it traded last** (`NewestKept`, `NoSwap`, `TakeoverAsks`). Its peer's
    older database then replaces its own, and a peer that takes over finds no start in its
    heartbeat and does not ask for the newer one. An old heartbeat that says "running" does the same.
    `docs/knowledge/validation-and-ops.md:56`: "The source is the node whose trader started last".
11. **Rows of the second of the copy** (`TakeoverComplete`, `PassiveCatchesUp`). `If-Modified-Since` has whole
    seconds; what is written in the second of the last copy waits for a change in a later one.
12. **A short of the model becomes a news trade** (`ExitsOnlyItsOwn`, `adopted`). If the incident's own
    order did not go through, a sale by the model within the grace takes its place and is closed by the exit
    manager. `docs/knowledge/news-and-events.md:37`: "Only positions the manager opened are ever closed".
13. **An incident short nobody knows** (`NewsShortTracked`, `forgot`). When the lots cannot be read,
    `noteShortEntry` returns an error that is only logged, and the short is sold untracked. The same holds after a
    failed save and a crash.
14. **An incident without dates is short again** (`OneShortPerEpisode`, `fromStart`). `claimIncident` takes an episode
    whose reports have no date for new and fresh at every poll, and leaves no watermark
    (`cmd/trader/newsexit.go:323-325`). Only an open news trade and the cooldown hold a second short back, and
    `newsexit_test.go:114-133` asserts that it comes after the cooldown. `docs/knowledge/news-and-events.md:45`:
    "Incident shorts fire once per episode".
15. **An episode whose start is gone** (`OneShortPerEpisode`, `fromStart`). When feeds no longer show the first reports
    of an episode, what is left starts with a report that may be later than the watermark, and counts
    as a new episode while it is fresh. The same text says that "follow-up coverage" does not.

## 7. What is not modelled

Left out for good:

* *Broker clients, ingestion, alerts and metrics*: pure input and output. The Finam executor is not wired.
* *Features and model*: numeric pipelines; a signal is any target in `Orders` and `Books`, and any action
  in `Signals`. How incidents are summarised from headlines is in `Signals`.
* *Configuration, shadow runs, event bus*: validation, comparisons that place no orders, code that
  production does not use.
* *Backtests and research*: of these only the engine's books are modelled, since they claim to be the live
  ones. The some two hundred other files, the larger part of the repository by lines, are offline
  sequential studies: they read candles, fit or compare something, and print it. There is no
  state, actor or failure in them that a specification could say more about than their code, so
  the share of the repository's lines that the models stand for stays small.
* *The live executor's maps*: they guard against two calls with one uuid, and no caller reuses one.

Limits of the models that exist:

* A release or renew that reaches the witness after its client gave up is not modelled, nor is a
  duplicate. A lost call has its effect at once or never.
* Instances of `Fencing` and `Handover` with two faults are too large for TLC. Their theorems
  cover any number; the liveness properties are checked for one.
* `Handover` has atomic ticks, so that the interleavings within a tick are `Fencing`'s alone. Failures
  are counted up to `MaxFailures`, beyond which no comparison tells them apart. A trader that starts and is
  not stuck is active or gone within `StartupGrace`.
* `Available` needs a memory of failures longer than the peer error grace and a startup together.
  The defaults satisfy it (30 min > 2 + 15).
* The remainder of a partial fill, or an order reported with an unspecified status, is not pending
  and no recovery looks at it. `NoStrayOrder` says only that its row is not called settled.
* A trip cancels only orders of instruments this process has resolved. A live process stays halted in its own
  memory after a reset until it is restarted.
* `Orders` has one store that survives; `DbSync` has two, whose rows have no content. What a machine
  wrote after its last fetch and took with it when it died is lost in the code as in the model.
* In `Signals` a process that dies while the headline checker is asked (up to 60 s) leaves the episode
  claimed, without a short: `NoEpisodeSwallowed` takes that for settled, as the code does.
* `Books` has lots of one share in its run, and executions at one price per order.
