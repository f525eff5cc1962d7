# Verification of the paper-trading workspace

This directory holds TLA+ models of the paper-trading workspace
(`backend/src/trading_oms_backend/workspace/`) and of the simulated and paper order paths
beside it, the TLC configurations that check them on small instances, and TLAPS proofs of
the most important properties of the order-handling core for every instance. Paths below are relative to `backend/src/trading_oms_backend/`
unless they start with a directory of the repository root.

Contents: [the system](#the-system), [components](#components),
[modules](#modules), [what the runs show](#what-the-runs-show),
[disagreements found](#disagreements-found), [proofs](#proofs),
[assumptions](#assumptions-about-what-is-outside), [what is left out](#what-is-not-modelled),
[plan](#plan), [how to run](#how-to-run).

## The system

The program runs trading strategies against an Interactive Brokers paper account. One
process serves HTTP and owns one *engine* thread; a second process, the *watchdog*,
shares the SQLite database with it.

* **Engine thread** (`workspace/engine.py`, `_loop`, line 427). In every turn it takes
  commands from a bounded queue, drains the observations that the broker adapter
  queued, and runs `maintain()`. It alone talks to the broker. All domain steps are
  single threaded, but every durable write is a transaction of its own, so a crash, the
  HTTP thread or the watchdog may come between any two.
* **Store** (`workspace/store.py`). Generic JSON documents (`run`, `broker_order`,
  `cancel_request`, `incident`, `incident_cancel`, `exit_request`, ...) and the tables `outbox` (one
  row per order intent, with a state), `risk_reservations`, `executions`, `emergency`.
* **Broker adapter** (`workspace/broker.py`, `broker_snapshots.py`). Turns callbacks of
  the broker's client library into observations in a queue, counts connections
  (`epoch`), and asks for snapshots: positions, open orders, completed orders and
  executions, account.
* **HTTP thread** (`workspace/api.py`). Posts commands to the engine queue and waits up to
  fifteen seconds; the emergency stop writes the store first and asks the engine after.
* **Watchdog** (`workspace/watchdog.py`). Without a heartbeat it sets the emergency flag
  and raises an incident on all runs, in one transaction of its own.

A signal becomes a position along this path: a batch of ticks is evaluated against the
run documents read at its start (`_evaluate_context`); `_enter` checks readiness;
`reserve_order` writes the row and its reservation; `guard_entry_dispatch` looks again;
`mark_dispatch` sets the row to *dispatching*; `placeOrder` is called. After that only
callbacks and reconciliations move the row. A reconciliation stages a snapshot
(`begin_reconcile`) and, once all parts have arrived and nothing superseded it, decides
(`_finish_reconcile`): rows that disappeared become *unknown*, cancellations are
confirmed or retried, positions are protected, capacity is released.

What makes this hard:

* the broker reports status, execution and position at different times, repeats
  and reorders callbacks, and answers the three parts of a snapshot at different times;
* `placeOrder` and `cancelOrder` have no answer: an exception, a lost connection or a
  crash leaves the outcome unknown;
* whole run documents are read, changed and written back by three actors;
* absence of an order from a snapshot is no evidence that it ended;
* quantities, capacity and permission to trade are decided from what was last seen.

## Components

For each component: its state, its operations, whom it talks to, what is hard, and what
makes it correct. The status of each is in `PROJECT.json`.

### Order status projection and order ledger (`order_status.py`, `oms.py`)
State: one `broker_order` document and one outbox row per order, a rejection memory.
Operations: `_disposition`, `transition`, `_order_observation`, `_rejection_observation`,
`ingest_execution`. Called by the engine for every callback and snapshot row.
Hard: repeated, late, reordered and contradictory statuses; "Inactive", which is a rejection only
together with an error code; a permanent id that changes.
Correct when terminal stays terminal, a fill is never taken back, a contradiction is never
forgotten, a duplicate changes nothing and an unconfirmed cancellation holds the row.

### Entry life cycle (`engine.py`, `store.py`, `protection.py`, `reconciliation.py`)
State: row, document, cancel request, executions, reservation; the engine's place in its
own code; the adapter's queue and cached position; the broker's order.
Operations: reserve, guard, mark, submit, cancel, flush, observe, begin and finish a
reconciliation, connect, drop, restart.
Hard: crash between any two transactions; snapshots that mix times; lost cancellation.
Correct when an order is sent at most once, a finished row is dead at the broker, capacity
is held before exposure and given back only without it, a wanted cancellation arrives.

### Authorization, emergency stop and shared capacity (`engine.py`, `operations.py`, `qualification.py`, `incidents.py`, `authorization.py`, `api.py`, `watchdog.py`, `store.py`)
State: the emergency flag, run documents, incident restrictions, cancellation intents,
rows and reservations of all runs; what the engine has read; the calls under way.
Operations: review, arm, disarm, suspend and resume, raise, release, flush, press / command / clear
emergency, alarm, evaluate, enter, reconcile, publish, restart; publish limits, accept an expansion.
Hard: three writers of the same documents, read-modify-write of whole documents, a review that is old
when it is carried out.
Correct when no order leaves without current permission, a restriction cancels what is
open, an answered emergency stop holds, and capacity is never exceeded.

### Protection and exits (`protection.py`, `engine.py`, `reconciliation.py`)
State: rows and documents of entry, bracket stop, exits and replacement stops; cancel
requests; `exit_request`; owned quantity by executions and by position.
Operations: `close_position`, refresh of the exit limit, `_repair_protection`, confirmation of
cancellations, release of the reservation.
Hard: a replacement while an older sell can still fill oversells; the stop can be lost.
Correct when a replacement waits for everything before it, one exit works at a time,
capacity comes back only when the account is flat and all orders ended, and an
unprotected position is covered in the end.

### OCA breakout pairs (`oca.py`, `oca_engine.py`, `broker_oca.py`)
State: a pair record (group, amendments, repairs), two entries and their stops in one broker
group, the last candle and its credit preview. Operations: admit a candle, stage and release the
two brackets, recognise the winner, cancel the loser, amend and replace its stop, complete,
re-arm. Hard: the four orders report independently, the loser may fill before it is cancelled,
a refresh must wait until the older pair is gone. Correct when one pair works at a time, a pair
that is done has nothing at the broker, no stop of a bought entry is asked away, and a
run whose two entries both executed is not armed.

### Stock plans (`stock_engine.py`, `stock_policy.py`, `broker_stocks.py`, the other `stock_*` files)
State: the trigger, the plan of a stop, the amendment under way, the qualification of a
plan. Operations: trigger, wait for credit, bracket, amend after fills, qualify. Hard:
fills overtake the amendment that answers them. Correct when the stop the broker works fits what
is left, one amendment is unanswered at a time until the stop begins to execute, and an entry follows the
authorization it was triggered under.

### Crypto execution (`crypto_engine.py`)
State: trigger, orders, local stop, exit request, trial. Operations: latch, submit, watch the stop,
exit, retry after an uncertain outcome, qualify. Correct when a touched stop sells in the end
through restarts, never more than is owned, and the ceiling is raised only by a whole trade.

### FX execution and ledger (`fx_engine.py`, `fx_protection.py`, `fx_ledger.py`, `fx_order_evidence.py`)
State: a signal that waits for credit, orders, cancellations, an exit intent, account evidence.
Operations: enter, protect, amend, exit once everything else has ended. Correct when what can be
sold never exceeds what is left and an exit that was asked ends the position.

### Funding, credit previews and buying power (`credit.py`, `broker_credit.py`, `buying_power.py`)
State: account figures, reservations they do not show yet, previews and when the last was
asked; the runs share one preview in a minute. Correct when the entries sent never need more than the
account has, and an entry on margin is sent with the answer for the present state of the account.

### Incidents and recovery (`incidents.py`, `incident_recovery.py`, `automatic_recovery.py`, `outages.py`, ...)
State: incidents with episodes, totals, evidence of recovery, previews and receipts of an
operator's batch. Operations: raise, merge into an open episode, evaluate, release, preview,
confirm, close. Hard: the engine evaluates outside the transaction that releases, and the watchdog
raises from another process. Correct when a restriction is lifted only by evidence later than its
last failure and a batch releases what its operator saw.

### Durable store and broker order identifiers (`store.py`, `idempotency.py`, `migration.py`, `run_archive.py`, `library.py`)
State: the database, the allocator of broker ids. Operations: `put`, `reserve_order`,
`mark_dispatch`, `transition`, `allocate_broker_id`, drafts and publication, backup, migration.
Correct when identifiers never overlap, a published version never changes, a repeated command
returns its first answer and a migration ends in the old or the new schema.

### Broker adapter, subscriptions and account snapshots (`broker.py`, `broker_snapshots.py`, `broker_feeds.py`, `broker_credit.py`, `reconciliation.py`)
State: epoch, attestation, queue, request ids, the generation of the snapshot in flight, what
has arrived of it. Correct when answers of an older request or connection are never taken for
the current one and a lost answer does not stop reconciliation for ever.

### Market data, candles and feeds (`market.py`, `broker_feeds.py`, `feed_recovery.py`, `data_scheduling.py`)
State: quote and trade requests, history jobs, candles. Hard: answers that a timeout, a retry or a
removal has overtaken; history repair against live ticks. Correct when candles that are called
continuous miss no trade, and a market rebuilt from history and ticks is the one that saw them all.

### Strategy graph and policies (`graph.py`, `runtime.py`, `reusable.py`, `preparation.py`, `paper_risk.py`)
Evaluation of a published graph over candles. For the order path a signal may come at any time;
`ReplayTrade` evaluates a breakout graph itself.

### Watchdog, startup and health (`watchdog.py`, `startup.py`, `serve.py`, `health.py`, ...)
State: heartbeats, instance ownership. Correct when two engines never own one database and a
dead engine stops entries.

### HTTP interface, audit and evidence
Commands and formatting. Only the emergency call takes decisions of its own.

### Replay (`market.py`, `replay_oms.py`)
A strategy traded over a tape through a ledger of its own. Correct when it decides on complete
candles only and its ledger agrees with its position.

### Simulated orders (`simulation_orchestration.py` and the books it composes)
Bars, signal, proposal, risk decision, order state machine, ticket, decision, fake broker,
positions; every step journals before it changes memory. Correct when an order never runs ahead
of the fake broker and nothing reaches it without an approval in time.

### Simulation runs of workflows and typed strategy runs (`workflow_simulation_runs.py`, `strategy_run_service.py`, `typed_strategy_simulation.py`, `event_journal.py`, `local_persistence.py`)
Rows in SQLite and a trail in a journal, which no transaction spans. Correct when the trail of a
run is lawful whoever races and wherever the process stops, a run is executed once, and an old
authorization is not revived. The simulated breakout looks at no later trade and keeps to the
authorized loss.

### Legacy paper adapter (`ibkr_paper_adapter.py`)
Connection states, idempotent submission, status and fill callbacks. Correct when a
submission in doubt is sent again only after its doubt was recorded, fills grow, and a result that
asks for reconciliation is not forgotten.

### Legacy definitions, read models, reports; frontend
Validation, projection and views.

## Modules

| Module | Models | Kind |
|---|---|---|
| `OrderStatus` | `order_status.py`, the folding part of `oms.py` | operators |
| `OrderReducer` | one order of the ledger under any callbacks | state machine, EXTENDS `OrderStatus` |
| `EntryCapacity` | what the risk limits rely on for one entry | abstract specification |
| `EntryOrder` | the life of one entry: engine, store, adapter, broker | state machine, EXTENDS `OrderStatus`, implements `EntryCapacity` |
| `EntryAuthorization` | permission and capacity of all runs, three actors | state machine |
| `ArmReview` | the review of an authorization, its commitment, suspension and resumption | state machine |
| `Protection` | the sell side of one position | state machine |
| `OcaPair` | paired entries with their stops, candle after candle | state machine |
| `OrderIds` | `reserve_order` and `allocate_broker_id`: identifiers of brackets, pairs and previews | state machine |
| `BrokerSnapshot` | the requests, generations and end markers of an account snapshot | state machine |
| `IncidentEpisodes` | episodes, evidence, release by engine or operator, the watchdog | state machine |
| `StockTrade` | a stock plan: trigger, credit wait, bracket, amendment, qualification | state machine |
| `CryptoTrade` | a crypto run with a local stop | state machine |
| `FXTrade` | a spot FX run with a broker or a local stop | state machine |
| `CreditFunding` | account figures, reservations and credit previews of all runs | state machine |
| `DataFeeds` | quote, trade and history requests of one contract and their recovery | state machine |
| `ReplayTrade` | candles, a breakout graph and its replay over a tape | state machine |
| `SimulatedOrder` | the orchestrator of a simulated order, with journal failures | state machine |
| `WorkflowRun` | simulation runs of saved workflows: database row and journal | state machine |
| `StrategyRun` | typed strategy runs, emergency stop, datasets, crashes | state machine |
| `Breakout` | `simulate_breakout` as a function of its trades, supplied one by one | pure algorithm |
| `PaperAdapter` | the legacy paper adapter | state machine |
| `Trades` | composes `OrderIds`, `BrokerSnapshot`, `IncidentEpisodes`, `CryptoTrade`, `FXTrade`, `StockTrade`, `PaperAdapter` | composition, properties of the seven |
| `Workspace` | composes `Trades` with the other eight of the smaller machines | composition, EXTENDS `Trades` |
| `Sums` | lemmas on sums over finite sets (`MapThenSumSet`), for every set and function | TLAPS |
| `OrderReducer_proofs`, `EntryOrder_proofs`, `EntryAuthorization_proofs`, `Protection_proofs`, `OcaPair_proofs`, `ArmReview_proofs`, `Trades_proofs` | theorems and proofs | TLAPS |
| `MCWorkspace` | one instance of each of the fifteen smaller machines | for TLC |
| other `MC*` | values of the constants for TLC | |

The machines cut the same system along different lines, because one product would be out of
reach. Each says in its header what the others answer for. `EntryOrder` has one order and
every detail of connection, snapshot and crash; `EntryAuthorization` has several runs and
reduces the broker to `Answered`; `Protection` has several orders
of one position and reduces callbacks to reports that may be late.
`OrderStatus` is shared: what `OrderReducer` checks about folding is the very operator
`EntryOrder` uses.

### OrderStatus and OrderReducer

`Disposition(old, obs)` is `_disposition` of `order_status.py` (accept, ignore, conflict), each
branch an operator of its own (`LateTerminal`, `LateRejection`, `LatePending`, `Reopens`,
`AfterFill`, `Unexplained`). `_order_observation(doc, state, request, failure, obs)` is
the method of the same name in `oms.py`, including the row transition and the rejection
memory. A document is `[status, filled, code, permanent, conflict]`; statuses of the same class
that the code never tells apart are kept apart only where some branch tests them.

`OrderReducer` applies it to any observation at any time (`Observe`, `ObserveRejection`,
`ObserveExecution`), with the engine's own writes between: `DispatchInterrupted`, `CancelEntry`,
`FlushCancellation`, `ReconcileCancellation`, `MissingFromSnapshot`.

### EntryOrder

`pc` is the place of the engine thread inside `_enter` ("guard", "submit"), `cancel_entry`
("queue"), `_flush_cancellations` ("flush", "send") or `_finish_reconcile` ("finish"); "idle" is
between two turns of its loop. `outbox`, `doc`, `request`, `execs`, `reservation`, `intent`
are durable and survive `Restart`; `connected`, `epoch`, `verified`, `view`, `snapshot` are the
engine's memory; `inbox` and `positions` the adapter's; `market`, `filled`, `asked` the broker's.
Every message is a record in `inbox`, in the order the client library delivered it.
`TakePart` collects a snapshot, `Finish` is the whole of `_finish_reconcile`: issues, the row
of an order that is absent, confirmation or retry of the cancellation, and the release.
`CrashInObservation` is a crash between the transactions of one observation.

### EntryAuthorization

Each transaction is a step. `listed` is the list of runs `_loop` reads for a batch, `read`
the documents the thread holds and later writes back whole, so both may be older than `run`.
`place` is where the thread is. `RaisedIn` is `raise_in`, used by the engine, the watchdog and
a submission that raises. `order` is the row, with one difference that matters here: an *unknown* row is "unsent" when
the order never left, and "found" is a row that works after it was unknown or after a restart. `Uncertain` is the
callback *Inactive*, `CancelEntry` the operator's cancellation, which unlike `disarm` also takes unknown rows, and
`Left` what a process that stopped leaves of a row. The history variables `stopped`, `doubted` and `reviewed`
occur in no guard; they only serve the properties.

What the emergency stop promises is limited by `disarm` (`engine.py` 3035-3041): it asks to cancel the rows that work or
are being dispatched, and an *unknown* row stays as it is. Such an order may be at the broker and be found to work while
the stop is on. `EmergencyStopsEntries` therefore excepts the orders that were unknown when the engine answered
(`doubted`), and no others: not what is found, restarted or reported later.

### ArmReview

What `EntryAuthorization` has in one step: `ArmPreview` puts on `page` what the browser shows, a request is any
that the page lets it send, `BeginArm` is `arm` up to its transaction (the review made again, the comparison of
fingerprints, the documents read into `op`), `CommitArm` the transaction, `BeginResume` and `CommitResume` the same two
halves of `resume_authorizations`. Between the halves the HTTP thread stops everything, publishes limits or accepts an expansion, the
watchdog raises an incident of the workspace, and another process takes the workspace. `engine.ready` stands for every check
of the connection, the data and the clock, which the code evaluates and never stores. `reviewed` and `created` are history:
the first occurs in no guard, the second is what the code finds by searching the order rows of an authorization.

### Protection

`row` exists for the entry and for later orders (exits, replacement stops); the bracket
stop has only a document, as in the code. `executed` are the executions the store has,
`filled` what the broker filled; `size` shrinks for the other sells of the group when one fills.
`Finish`, `RepairCancelsEntry`, `RepairCancelsSells` and `RepairSubmits` are the ways a finished
reconciliation of one entry ends: exactly one of them is enabled in each situation, because
each carries the conditions of the branches before it.

### OcaPair

The engine's state of all pairs is one record (`engine`: groups, rows, amendments, repairs, the run,
cancellations, incidents), and a step of the engine is a function from such a record to the next, because
the code applies the same functions from reconciliation, maintenance and observations (`_oca_sync`,
`_oca_maintain`, `_oca_repair_stop`). `Stage`, `Release`, `Interrupted` are `submit_pair` and what may
stop it; `status`, `filled`, `size`, `told` are the broker's; `Budgets` bounds candles, authorizations,
overfills and troubles of one behaviour.

### OrderIds

`ReserveOrder` and `AllocateBrokerId` compute the base as the code does, from what the broker last offered
(`next_id`), the durable `allocator` and the bases of the outbox (`Highest`). `Dispatch` gives the identifiers
to the broker, which raises what it would offer; `Restart` forgets `next_id`, and `Handshake` brings a
number that may be old.

### BrokerSnapshot

`engine` has the staged generation and the parts taken, `adapter` what was requested and which end markers
have arrived; `queue` is between them. `Answer` and `Lose` are the broker; `Deadline` is the engine's timer
that asks again for the numbered parts only; `Overflow` and `ConnectionLost` reset the adapter. `version`,
`seen`, `begun` and `collected` are history for the properties.

### IncidentEpisodes

`Refresh`, `Evaluate` and `Commit` are `refresh_incidents`: the list, the decision outside the transaction
(`visit` keeps what was read), and the transaction, which looks at the revision again. `Watchdog` may come
anywhere between, since it is another process. `Preview` and `BatchConfirm` are an operator's batch and its
receipt, `Review` and `CloseInvestigation` a single episode. `sequence` numbers the failures and the
signs of recovery; a restart or reconnection is a new `context`.

### StockTrade, CryptoTrade, FXTrade, CreditFunding

Each has one run on one contract, its orders as a sequence in the order they were reserved, and for every order
three views: the row, what the engine has heard (`known` by executions, `seen` by statuses), and the broker.
`task` (crypto, FX) is the call the engine thread is in, one durable write at a time. `StockTrade` keeps
the amendments on their way in `wire`; the stop of a fill pattern is computed from prices and rounded
as the code does. `FXTrade` keeps apart the exit asked by the operator or a stop (`exiting`) and the durable
`intent` that survives a restart. `CreditFunding` has several runs on one account: figures age, previews wait
in the adapter, and `reflected` says which reservations the figures show.

### DataFeeds, ReplayTrade

`DataFeeds` has one contract with two feeds and two history jobs; a minute is the unit of time, and every
request has an identifier, so that an answer of an older request can arrive. `ReplayTrade` adds one trade at
each step to the tape and does all the code does for it: sessions, candles, derived values, the graph,
the resting order, the position and the ledger; its reference definitions recompute candles from the whole
tape.

### SimulatedOrder, WorkflowRun, StrategyRun, Breakout, PaperAdapter

The first three share one difficulty: a journal and other state (memory, or rows of SQLite) that no transaction
spans. `op` is the operation under way with what it still has to write; `Raise` or `Crash` may end it
there, and `torn` is half a line of the journal. In `WorkflowRun` two actors have two runners whose locks do
not exclude each other; in `StrategyRun` the emergency stop in memory and the edit of a workflow take no
lock. `Breakout` is the simulation as a function, and a step supplies one more trade. `PaperAdapter` is the
adapter's memory with the connector outside: `sent`, `accepted`, `demanded` and `overlooked` are history.

### Trades, Workspace, MCWorkspace

The fifteen machines `ArmReview` and `OrderIds` to `PaperAdapter` in the table share no state, so
one run checks them side by side: `part` says which machine a behaviour is of, `XOnly` leaves the variables
of all others alone, and the properties are conjunctions with one implication for each part. A
comment above each property says what it means in each machine.

`Trades` has the seven machines about which `Trades_proofs` reasons, and `Workspace` extends it by the other eight. The
split serves the provers, which would otherwise carry these instances through each obligation. It costs
nothing in meaning: a behaviour of `Workspace!Spec` begins in `TradesInit` or, as one of another machine, in
`Elsewhere`, which leaves the seven machines off, and a step of it is `TradesNext` or changes none of `trades`.
So it is a behaviour of `TradesSpec`, by the two conjuncts of `Init` and `Next` that name them, and what is proved
of `TradesSpec` holds of `Spec`. The run checks what is proved (`SellsAreCovered`, `TradesAgree`, `TradesAct`) and, as
properties of their own, what is only checked (`OthersAgree`, `OthersAct`).

## What the runs show

All bounds are CONSTANTS named in the modules.

| Run | Bounds | Shows |
|---|---|---|
| `order_reducer` | fills 0..1, two permanent ids, all statuses and codes | terminal and filled orders stay so, cancellations stay latched, conflicts and rejections are remembered, duplicates are harmless, rows agree with terminal documents |
| `entry_order` | 2 shares, 1 connection per process, 1 crash, 2 waiting callbacks | `CapacityPromise` (refinement), one submission, finished rows are dead, cancellations latched, a reconciled account is the broker's account |
| `entry_order_live` | 1 share, 2 connections, no crash, fair | a wanted cancellation arrives; an unfilled order returns its capacity |
| `entry_authorization` | 2 runs on 2 contracts, capacity 1, 2 reviews, 1 alarm, 1 restart | restrictions cancel, an answered stop holds, dispatch is authorized, exposure is reserved within the capacity |
| `protection` | 2 shares, 1 later order, 1 lost order | release only when flat, ready means covered, replacement waits |
| `protection_exits` | 1 share, 2 later orders, 2 exits, 1 raise | one exit at a time |
| `protection_live` | 1 share, 1 later order, 1 loss, 1 restart, fair | covered in the end; no sell stays on a flat position |
| `oca_pair` | 1 share, 2 pairs, 1 replacement, and one of: two candles; two authorizations and an overfill; two authorizations and a trouble | one pair works at a time, a done pair is flat, protection is not cancelled, an overfill disarms |
| `pair_rearmed` | 1 share, 2 pairs, two candles and two authorizations | violated: a completed pair protects the position of the next one |
| `workspace` | per machine, see below: two identifiers' keys, two units of crypto, one or two of FX, three orders of each, three shares and two amendments under way | seven properties over the fifteen smaller machines |

The properties of `workspace` are themes; each is a conjunction of named definitions of the machines:

| Property | Machine: definition |
|---|---|
| `TypeOK` | every machine: `TypeOK` |
| `SellsAreCovered` | crypto: `NeverOversold`; FX: `SellsAreCovered`; stock: `StopFitsFills` |
| `TradesAgree` | identifiers: `IdsAreDistinct`; snapshot: `NeverRefused`; incidents: `TotalsAgree`; stock: `ExposureIsReserved`, `OneAmendment`; adapter: `SentOnce`, `FillsGrow`, `DoubtIsKept` |
| `OthersAgree` | arming: `WithinProfile`, `ActionIsRecorded`, `ExpandedOnEvidence`; workflow: `TrailIsLawful`, `EvidenceIsReadable`; strategy: `ExecutedOnce`, `DatasetIsWhole`; breakout: `LossIsBounded`; simulated: `OrderFollowsBroker`, `UnprotectedIsAlerted`; feeds: `OpenIsAwaited`, `WarmMissesNothing`, `ArmedHasData`; replay: `CandlesAreTheTape`, `RebuiltIsTheSame`, `LedgerAgrees`; funding: `NotSpentTwice` |
| `TradesAct` (action) | on evidence: `PublishedIsCurrent` of the snapshot, `ReleasedAfterFailure` of incidents, `QualifiedByTrade` of crypto and stock; as authorized: `BatchAsReviewed` of incidents, `SignalOfAuthorization` of FX, `EnteredAsAuthorized` of stock |
| `OthersAct` (action) | on evidence: `NoLookAhead` of breakout, `LatestRequestCounts` of feeds, `EntersOnEvidence` of replay, `SentOnAnswer` of funding; as authorized: `ArmedAsReviewed` and `ResumedAsReviewed` of arming, `NothingRevived` of strategy, `SubmittedAsApproved` of simulated orders, `EntersAsAllowed` of replay |
| `WorkIsSettled` (leads to, fair) | snapshot: `SnapshotEnds`; incidents: `WatchdogRecovers`; crypto and FX: `ExitIsCarriedOut`; stock: `StopIsAmended`; feeds: `HistorySettles` |

Each machine of `workspace` has a set of *budgets* or *setups*: a behaviour starts with one of them and spends
it, so that each difficulty (a restart, a raised call, a lost reply, a late answer, a changed rule) is combined with those
it interacts with and not with all. The sets are the definitions `MC...` of `MCWorkspace`.

Why these bounds are enough to be interesting: two shares give partial fills, and nothing in the
code of entries and exits distinguishes a second share from a third (an amended stock stop does, and its run has three); two connections give answers and
cancellations of an older epoch; one crash separates every pair of consecutive
transactions, and the process that follows it connects again; `MaxInbox` limits when the
broker says something more, not how long the queue gets (a fill sends its three callbacks together, and an answer of a snapshot may wait with them);
two runs compete for one unit of capacity; an alarm is any of the watchdog, the operator and an
incident; two later orders give an exit and its replacement. The authorization theorems below
hold for any number of alarms and for runs that share a contract, which the run does not
enumerate. Symmetry is used only in safety runs, over runs and over later order identifiers,
which the modules never compare otherwise. `oca_pair` never gives a behaviour both a second candle and a second authorization: there
its invariants fail, which `pair_rearmed` shows.

Runs of `OrderReducer`, `EntryOrder`, `EntryAuthorization` and `Protection` check for deadlock: the
system never stops, since a reconciliation or a batch can always begin. `oca_pair`,
`pair_rearmed` and `workspace` do not: there the budgets run out, a tape or a trail of calls is over, and
the behaviour ends because the bound does.

### Fairness

* `EntryOrder`: the owner loop drains its queue and finishes the call it is in (`GoOn`, `Take`),
  and `maintain()` runs in each turn: flush of cancellations, incident cancellations, a new
  reconciliation, a new connection. The broker accepts or rejects what it received, processes
  cancellations and answers requests. Fills, operators, crashes and lost messages owe nothing.
* `Protection`: the broker reports; the entry has a good-till-date and ends; a sell that was asked to be
  cancelled ends; a reconciliation is begun every fifteen seconds and finishes. No fairness is
  assumed for a sell that fills or for the operator.

* `MCWorkspace`: a behaviour is of one machine, so the fairness of a disjunction over the machines is the fairness of that
  machine's action. Snapshot: the broker answers, the engine observes, a deadline passes. Incidents: the loop
  refreshes, evaluates and commits (weak); a reconciliation begins and ends and a healthy
  heartbeat comes again and again although others invalidate them (strong). Crypto: a call goes on, the broker
  executes (weak); the loop retries the exit and reconciles, which other calls interrupt
  (strong). FX: a call goes on, fills and cancellations happen (weak); the turns of the loop that
  synchronise, observe and reconcile are interrupted and come again (strong). Stock: an amendment arrives, executions and
  reconciliations happen. Feeds: the loop maintains and observes, the connection comes back,
  time passes and a broker that is not silent answers. No fairness for operators, prices, failures or losses.

Strong fairness is stated only for steps of the engine's loop that another call of the same thread, or a
failure of which the budget allows a few, disables for a while: the loop comes round again.
All else is weak fairness: each of these steps stays enabled until it is taken, or is repeated by
a timer of the code.

## Disagreements found

Each is a run with one property, which a sentence of the repository states, and which TLC finds
violated by what the code does. Lines are in `PROJECT.json`.

* `entry_cancel_unretried`: the epoch stored with a pending request counts connections of one
  process. After a restart the first connection has the same number, and the request is not sent
  again. The comment in `protection.py` says it is.
* `authorization_reviewed`: an incident inside a batch revokes a run; the older document of the
  batch is written back and arms it. `docs/MINIMAL_PAPER_WORKFLOW.md` asks for a fresh review.
  The restriction and `mark_dispatch` still block entries while the incident is open.
  The HTTP thread's emergency stop is undone in the same way when it comes during a batch: if
  the engine never executes the emergency command (a full queue, or withdrawn after fifteen
  seconds), clearing the stop leaves an armed run, against the `README.md`.

* `pair_rearmed`: after a completed trade the operator arms the run again, as the guide says, and a second pair
  fills. `_oca_sync` is called for every pair of the outbox, the completed one included (`engine.py` 1539, `oca_engine.py`
  587), and reads the position of the *run* (418). The completed pair takes the position of the second for its own,
  is *position_open* again, and since its own stop is over, a replacement is submitted at its old trigger (499). It stands
  in an OCA group of its own. Two stops work for one position, and when both fill the run has reversed it. The review of the
  implementation lists competing exits as a hazard that the exit controller excludes. The proof attempt of
  `OnePairAtWork` led to this: the invariant fails at exactly this step, and the theorems on
  pairs that trade carry the boundary `OneTrade` for it. Independently, the replacement is decided between snapshots, although a comment
  (538) wants a complete, matching one.

More consequences are visible in the models without a run of their own, since nothing in the repository says otherwise:

* **Entry and authorization.** The write-back also restores the entry counter of a run. A crash between the two
  transactions of `cancel_entry` (`engine.py` 3066) leaves a `cancel_pending` row without a request, so that
  `CancelReachesBroker` is checked without crashes.
* **Pairs.** A complete pair is synchronised again after the run was armed again (`oca_engine.py` 584-588, 743). Only the first
  replacement of a pair is recognised (`repairs[0]`, 461-469 and 678-685), so the replacement of a lost replacement never
  is. An overfilled group that was complete becomes uncertain at each synchronisation.
* **Adapter.** The overflow mark is cleared only by a new process (`broker.py` 105-107), although the message asks for a
  reconnection (`engine.py` 852).
* **Incidents.** A repeated `engine_fault` keeps the sequence of its first failure (`incidents.py` 459-468, 559), so an earlier
  successful test stays valid (`incident_recovery.py` 32-57).
* **Stock.** An amendment that raised is not repeated (`stock_engine.py` 1081-1094): nobody knows whether the broker was told,
  and the stop stays as it is. An amendment sends what is *left* of the shares as the *total* quantity of the child
  (`stock_engine.py` 1066-1104, `broker_stocks.py` 119-140), and compares what the child still has to sell with what is left. Once the
  child has sold a share before it is amended, the two never agree: the child covers fewer shares than are left, the account is
  not reconciled, and every reconciliation sends the same amendment again. The proof attempt of `OneAmendment` met this: with
  two shares there is never a second amendment under way, with three there is, so the run has three and the property now says when.
* **Funding.** A reservation counts as shown by the figures by the time its row was created (`credit.py` 205-220), buying power by
  the time it was dispatched (`buying_power.py` 80-128).
* **Feeds.** After a manual request that raised, `manual_pending` stays set (`feed_recovery.py` 269-279); a subscription that was refused
  at the start is not repeated (`engine.py` 872-890).
* **Replay.** A signal is dropped when the candle that made it was closed by a tick outside the session.
* **Workflow runs.** A row that is pending after a crash stays so (`workflow_simulation_runs.py` 857-893); a decision dated before
  its request makes the run unreadable (507-522), as does a foreign execution identifier
  (1110-1130); half a line in the journal makes all of it unreadable (`event_journal.py` 129, 142-157).
* **Strategy runs.** An unreadable run prevents the emergency stop from being cleared; a crash while a run executes blocks later
  executions.
* **Simulated orders.** An execution that failed after the approval cannot be tried again (`simulation_orchestration.py` 475-500),
  and the order that a ticket names is not compared with the order executed (500-520).
* **Paper adapter.** A successful TCP probe replaces a doubt that was recorded (`ibkr_paper_adapter.py` 1325-1410); a submission that
  raised is not remembered for its key; a fill is refused after a status with the same cumulative quantity (2004-2009); the
  keys are forgotten at a restart.

## Proofs

TLC checks the instances above. The proof modules show the following for every value of
the constants that satisfies the ASSUMEs (quantities, bounds, sets of runs and identifiers).

| Theorem | States |
|---|---|
| `OrderReducer_proofs`: `TypeCorrect`, `TerminalStaysTerminal`, `PermanentIdIsKept`, `ConflictStays`, `RejectionStays`, `CancellationStaysLatched`, `RowAgrees`, `DuplicateChangesNothing` | `TypeOK`, `TerminalIsFinal`, `IdentityIsKept`, `ConflictIsSticky`, `RejectionIsRemembered`, `CancellationLatched`, `RowAgreesWithTerminalDoc`, `DuplicateIsHarmless`: all properties of its run |
| `EntryOrder_proofs`: `TypeCorrect`, `AtMostOneSubmission`, `CancellationStaysLatched`, `ReconciledMeansTrue`, `FinishedIsDead`, `ImplementsCapacity` | `TypeOK`, `SubmittedOnce`, `CancelRequestIsLatched`, `ReconciledIsTrue`, `FinishedRowIsDead`, `CapacityPromise` (`EntryOrder` implements `EntryCapacity`): all properties of the run `entry_order` |
| `EntryAuthorization_proofs`: `TypeCorrect`, `DispatchNeedsAuthorization`, `RestrictionCancels`, `CapacityHolds`, `AnsweredStopHolds` | `TypeOK`, `DispatchIsAuthorized`, `HeldEntryIsCancelled`, `ExposureIsReserved`, `EmergencyStopsEntries` |
| `Protection_proofs`: `TypeCorrect`, `ReleasedIsFlat`, `ExitIsAlone`, `ReplacementIsAlone`, `ReadyCovered` | `TypeOK`, `FlatRelease`, `OneExit`, `ReplacementWaits`, `ReadyIsCovered` |
| `OcaPair_proofs`: `TypeCorrect`, `StopsAreKept`, `OverfillsDisarm` | `TypeOK`, `ProtectionIsKept`, `OverfillDisarms` |
| `OcaPair_proofs`: `OnePairOnly`, `OverIsFlat`, `ExitsStandAlone` | under `OneTrade` (one authorization, or one candle): `OnePairAtWork`, `CompleteIsFlat`, `ExitsDoNotCompete` |
| `Trades_proofs`: `SellsStayCovered` | `SellsAreCovered`: `NeverOversold` of crypto, `SellsAreCovered` of FX, `StopFitsFills` of stock |
| `Trades_proofs`: `TradesStayAgreed` | `TradesAgree`: `IdsAreDistinct`, `NeverRefused` of the snapshot, `TotalsAgree` of incidents, `ExposureIsReserved` and `OneAmendment` of stock, `SentOnce`, `FillsGrow` and `DoubtIsKept` of the paper adapter |
| `Trades_proofs`: `TradesActAsTold` | `TradesAct`: `PublishedIsCurrent`, `ReleasedAfterFailure`, `BatchAsReviewed`, `QualifiedByTrade` of crypto and stock, `SignalOfAuthorization`, `EnteredAsAuthorized` |
| `Trades_proofs`: `IdsInductive`, `FXInductive`, `CryptoInductive`, `StockInductive`, `AdapterInductive`, `IncidentsInductive`, `SnapshotInductive` | the inductive invariant of each of the seven machines is kept by its steps |
| `ArmReview_proofs`: `ActionsAreRecorded`, `ExpansionsAreAccepted`, `RunsAreArmedAsReviewed`, `RunsAreResumedAsReviewed` | `ActionIsRecorded`, `ExpandedOnEvidence` (of `OthersAgree`), `ArmedAsReviewed`, `ResumedAsReviewed` (of `OthersAct`) of `ArmReview` |
| `ArmReview_proofs`: `LimitsAreKept`, `TypeCorrect` | under `Sound` (finitely many runs; versions of the limits numbered from 1, each a natural number): `WithinProfile`, `TypeOK` of `ArmReview` |

The arguments:

* **OrderReducer.** What `_order_observation` returns, and that a terminal or filled document
  survives `project_status`, are lemmas about the operators of `OrderStatus`; every action of the
  machine is a use of them. `TypeOK` is inductive. The action properties follow from it and one lemma for each field of the
  document. `RowAgreesWithTerminalDoc` needs `RowInv`: a row that is over has a document that says so, or was never
  sent. `DuplicateIsHarmless` says that folding is idempotent: what was accepted is
  not *late* or *reopening* against the document it made (`SameDisposition`), so document, row and rejection
  memory stay (`SameDocument`, `SameState`, `SameFailure`).
* **EntryOrder, submission.** `SubmittedOnce` is not inductive. `SubmitInv` adds that nothing was
  sent while there is no row, and at the places "guard" and "submit", where there is one; no
  action makes a row absent again, so the thread passes these places once.
* **EntryOrder, cancellation.** `LatchInv` is `CancelRequestIsLatched` with the types it
  needs. Its heart is that `ObservedState` and a reconciliation never take a latched
  row back to *working*, and that reserving and marking need a row without a request.
* **EntryOrder, refinement.** The end of an order at the broker is final, and the broker reports it only afterwards.
  So every message of the queue is *honest* (`Honest`: a rejection only of a rejected order, a terminal status only
  of an order that is over, with its final quantity), whatever is still waiting, lost or repeated: `IInv` says that `inbox` is a
  sequence of honest messages and adds five facts. `Unsent`: at "guard" and "submit", and while the row is absent or reserved,
  nothing was sent and the reservation is in place. `Unfilled`: an order the market never had bought nothing. `DocOver`:
  a terminal document is of an order that is over and has its final quantity. `RowOver`: a row ends only with its document, or
  unsent. `RowFresh`: the staged row has the quantity of the document. `FinishedRowIsDead` is then immediate. For the refinement
  the only step that needs an argument is the release in `Finish` (`ReleasedUnfilled`): the quantity that the
  reconciliation compares with the executions is the final one, so agreement on zero executions means nothing was bought.
* **EntryOrder, reconciliation.** `ReconciledIsTrue` speaks of an empty queue, its invariant (`KInv`: `IInv`, `LatchInv` and
  `Known`) of what still waits in it. `AllTimely`: nothing is reported before it happened. `Told`: as long as the link is
  up, a report that the order works is followed in the queue by the report of its end, unless it works.
  `Complete`: once the executions of this connection were asked for and answered, each fill is in the ledger or waits to
  be. `RowTrue` and `Verified` carry both from the staged snapshot to the reconciled account. No
  history of the market is needed: the position of a message in the queue is the history.
* **EntryAuthorization.** `mark_dispatch` reads the run and the emergency flag but not the
  restriction, so `DispatchIsAuthorized` is not a consequence of its guard. `HoldInv` supplies it:
  at the places "reserve", "guard" and "mark" a run that is still armed is not restricted, because
  an incident comes between two engine steps only from the watchdog, which revokes; and what
  is being submitted was marked as sent. `CapacityInv` adds that the reservations are a finite
  set, and two lemmas (one more reservation, fewer reservations) cover all actions.
  `EmergencyStopsEntries` is inductive by itself: while the stop is on no row becomes "sent", and a row becomes "found" or
  unknown only from one that was already excepted.
* **Protection.** The property that carries everything is that reports may be late but what they
  say about an order that ended is final. `IInv` is the conjunction of `Typed`, `Final` (the document
  of an order that ended is what the broker has), `RowEnd` (a row ends with its document), `Names`
  (an unused identifier names nothing, a used one has a row), `Over` (after a release every order
  ended and every fill is in an execution) and `Alone` (an exit that follows another
  follows its end). From agreement of fills and ended documents follows that executions equal
  fills (`AllCounted`), hence that what the engine owns is what the account holds (`Quiet`). `ReadyCovered` adds two: `DocKnown`
  (a document exists only for an order that was sent) and `Steady` (an account that is ready has one sell that was shown to work
  for exactly what is owned); every step that could disturb it takes *ready* away. `TypeCorrect` is about sums: the sells together
  never fill more than the entry did (`Sized`), because in the group a fill of one shrinks the others (`Books`, `Limits`). `Total`
  is a fold over a set, so the section on sums shows what one more share does to it.
* **OcaPair.** An engine step is a function of the engine record, and a refresh applies one to every pair in turn. `Step(e, f)` says what
  any of these functions may do to the record, whatever the reports that arrived; it is transitive (`StepThen`) and each of `Sync`,
  `UpdateProtection`, `RepairStop`, `Selected`, `Stale`, `Protect` and `Completed` is one, so a chain over any number of
  pairs is one. The invariant rests on three facts: a terminal document is final (`DocsAreFinal`); a choice of
  side, a replacement and the cancellation of a stop follow an execution (`FollowsFill`, `OrphansOnly`); pairs that
  are over stay what they are (`CancelledIsOver`, `CompleteIsOver`). `ProtectionIsKept` and `OverfillDisarms` follow for every
  budget. That only one pair trades (`Trade`) is not inductive when a run can be armed again with a second candle: the step
  that breaks it is the finding of `pair_rearmed`. `OneTrade` is the weakest condition on the budgets under which it holds,
  and all three theorems about it need `Trade`: at most one pair is open, and once an entry of a pair filled no other pair
  ever opens.
* **Recursion and sums.** The library's induction theorems take an operator, which the provers cannot instantiate. Facts
  about a function defined along 0..n, or about a chain of refreshes over the pairs, come instead from a least counterexample: the set
  of numbers where the fact fails has a least element (`Least`), which is not 0 and whose predecessor is no
  counterexample. So the sums of `Protection` and the positions and refreshes of `OcaPair` are covered for every number.
* **Sums.** What a run owns is a sum over its orders, and the model writes it with the library's fold. The module `Sums` shows
  once, for every finite set and function, what the fold does: it is an integer, it grows by what one term grows, it
  adds over one more member, it is positive when a term is. `Total` in `Protection_proofs` and `Trades_proofs` is that sum.
* **OrderIds.** `IdsBelow`: the allocator is above every identifier of a row, and not only its base, and above every preview; a new base
  is at or above the allocator. That the maximum the code computes exists is `BoundedHasMax`, by the well-foundedness of the numbers.
* **FX.** That sells are covered is not inductive: whether a new sell fits depends on what the engine knows. `FXRecords` says
  what its knowledge is worth: executions never exceed what the broker filled, and of a sell that *ended* the document
  has the broker's quantity, for a sell executes nothing after its end. `FXOneSell`: one sell is active at a time. `FXCalls`: an order on its way to the
  broker is not there yet. So when a sell is reserved all earlier ones ended, and the books agree, that is, executions and
  documents have the same total (`FXCover` then follows for the new sell); a late fill of the entry only adds to what is left.
  The proof attempt showed a guard missing in the model: `_fx_sell` returns when another sell is active, also when
  the call comes from the operator's exit, and `Sell` now says so.
* **Crypto.** The same shape, with the difference that documents and executions may each be behind: `CrRecords` says of both
  that they are nothing or all of what was executed, since an order executes at once. An exit is sent when the two agree, which with `CrOneOpen`
  (nothing else is open) means that both are the truth. `CrTrade`: protection was observed of something bought, which is what makes
  a qualification a whole trade.
* **Stock.** `StopFitsFills` speaks of a reconciled run, and the invariant of everything that may still arrive. Amendments are sent only
  for an entry that has ended, so what was bought is final when one is recorded (`StRecorded`), and each has the right price and
  a quantity between what is left and what was bought (`StSized`). `StUnderWay` and `StWire`: while one is under way the child does not fit; what waits
  is the recorded amendment, or one that can no longer fit. Hence no older amendment undoes a newer one that fits, and what
  was reconciled stays true (`StReconciled`) until something is filled.
* **Paper adapter.** The properties speak of sequences of what was sent and accepted. `AdProgress` links them to what the adapter
  remembers: its last fill is the most of all that were accepted, so the comparison with the last one is one with all. A
  request is sent only while no accepted one is remembered, hence none in `sent` was accepted (`AdSubmit`), and an accepted one is the last.
* **Incidents.** `TotalsAgree` counts episodes by restriction, so each step is about the cardinality of one set that gains or
  loses an element (`InBooked`, `InSaves`), or of two from which a whole batch moves. What makes a release safe is a revision: what the
  engine read (`InRead`) or the operator saw (`InShown`) of an episode is not newer than the episode, and when the revision is the same,
  nothing was raised or released in between. `InForward` says that revisions only grow and that a changed episode
  has a new one; both facts survive every such step. `InOne` (a code has one open episode) keeps a raise from touching two.
* **Account snapshots.** `NeverRefused` follows from `SnAwaited`: an unnumbered marker that is still awaited is of the snapshot in
  flight, whose part is missing, and no message of the queue that counts is that marker. So the snapshot cannot end before it.
  `SnAnswers` carries `PublishedIsCurrent`: messages that count and parts that were taken are not older than the beginning,
  because a message of an earlier generation or connection never counts (`SnStarts`); and as long as the staged revision
  is the engine's, it has observed nothing since the beginning. This needs that end markers have
  generations from 1 on (`SnBegun`), for generation 0 counts always; and that an unnumbered part is not one of the numbered ones,
  which is what `TradesAssumption` says of `SnapUncorrelated`.
* **Trades.** `TradesInv` is the implication of the seven invariants by `part`, which no step changes (`TradesStep`); the
  temporal theorems are uses of it.
* **ArmReview, commitments.** The engine writes documents it has read before, so what it read must still hold at the
  transaction. `ArmInv` says which of it does: a run of the request is flat, in the files, with the entries that were
  shown, its action is unused, and the evidence for an expansion stays (`Expandable`). `ResumeInv` says the same of a
  resumption. Both survive because whoever writes in between only takes authorizations away (`Weakens`: the stop, incidents,
  another process, a new login), which one lemma shows for all of them (`WeakensKeeps`). Neither `ActionIsRecorded` nor `ResumedAsReviewed`
  is inductive: an incident may *suspend* a run that had been revoked, when its entry is under way. So `RecordedInv` also covers
  revoked runs with such an entry, and `ReviewedInv` says that a suspended run that is no longer reviewed has an order, which is
  what keeps a resumption away. `ReleasedAsAcknowledged`: with the acknowledgments compared in the transaction, the
  incidents released are those of the page and no others.
* **ArmReview, limits.** `WithinProfile` bounds the armed runs by the limits of *one* of them: an earlier run may have been armed
  under narrower limits. That is no invariant by itself, since this one run may be disarmed; `ArmedInv` asks it of every set
  of armed runs, so any that remain have their own witness, and the last to be armed is one. `ArmRoom` and
  `ResumeRoom` carry the count of the review over to the transaction: meanwhile runs are only disarmed.

The assumptions are the ASSUMEs of the modules, and the conditions `OneTrade` and `Sound` where the table names them: positive quantities, bounds that are natural
numbers, a finite set of later identifiers that excludes the names of the entry and the stop,
a contract for each run. `TradesAssumption` says of the seven machines only that quantities, units, shares and prices are natural numbers, that the unnumbered
end markers of a snapshot are those two of the code, and that each
budget is a record of natural numbers and flags, which every budget of `MCWorkspace` is; it does not bound them.

Only model-checked:

* liveness under fairness, which is outside the prover's reach: `CancelReachesBroker`, `ReservationIsReturned`,
  `EventuallyCovered`, `FlatEnds`, `WorkIsSettled`;
* `TypeOK` of `workspace`, and `OthersAgree` and `OthersAct` but for the conjuncts of `ArmReview`: some keep trades or
  events in a sequence and compare a fold with a recomputation of it (`Breakout`, `ReplayTrade`, `WorkflowRun`), which is
  induction over data; the others (`CreditFunding`, `DataFeeds`, `SimulatedOrder`, `StrategyRun`) are within reach and not done;
* `OnePairAtWork` and `CompleteIsFlat` outside `OneTrade` are not merely unproved: they are false there.

## Assumptions about what is outside

* The broker fills an order only while it is live and never more than its quantity.
* The OCA group of a position's sells is "reduce with block": a fill of one reduces the others
  before they can fill.
* A terminal status that the broker reports for a sell is final (`Protection`). How the code defends
  itself when it is not is `OrderReducer`'s subject.
* The execution part of a snapshot is complete for the session.
* In a pair, the first fill makes the broker cancel the other entry, which may fill before it does; stops of a pair reduce
  with what their entry bought.
* A crypto order is immediate-or-cancel: it is executed, in whole or in part, or rejected, never both. FX
  orders fill unit by unit, entries, stops and exits alike, and the engine may hear of a unit after the order's cancellation. An
  entry may even execute a unit after the broker called it cancelled; a sell does not: `_fx_replacement_ready` takes a reconciled
  end of a sell for final, and nothing the code could read would tell otherwise.
* The account figures of a snapshot are those of one moment, and they show the orders the broker works at that moment.
* Half a line at the end of the journal is the only damage a crash does to a file.
* SQLite transactions are atomic and durable, and serialised between the two processes.

## What is not modelled

* Prices, fees, sessions, currencies and risk in dollars, except where a decision turns on them: arithmetic and tables over immutable
  input, which unit tests reach. FX baselines, settlement and sizing; borrow and short-sale previews of pairs; stock profiles and
  price rules.
* Wording, evidence, notifications, audit records, views and the frontend.
* Preparation and publication of strategies, the reusable library, archive, migration and backup of the database: sequences of one
  transaction each, with no second actor.
* Ownership of the instance and its heartbeat at start: operating-system locks and processes.
* The composition of `IncidentEpisodes` with the run states of `EntryAuthorization`: their product is out of TLC's reach. `ArmReview`
  has what an incident does to the runs (also the upgrade of a revoked run to *temporarily suspended*, `incidents.py` 559) and
  reduces its episode to a revision and a restriction.
* In `ArmReview`, unattended sessions, the several identities of profiles, a run of reviewed paper stock selected together with
  others, and the dates of scheduled sessions. Whether a run was last authorized on the same day, and so keeps the count of its
  entries, is a choice (`Counted`).
* A bracket child whose document says *Rejected* is not in the list of ended children (`engine.py` 1668), so while a snapshot shows it
  the reservation stays. `Protection` has that state; no document of the repository promises the release.
* The legacy services for approvals, definitions and their read models and reports.
* In `DataFeeds` valuation and contract search; in `ReplayTrade` the extended-hours branch (`market.py` 502-507, 552-553).

Further notes per component are in `PROJECT.json`; a hazard that no property covers carries its reason there.

## Plan

The order followed the weight of the behaviour: what decides whether an order exists once and is accounted for, who may
send one, how a position is protected, then the machines beside them (pairs, identifiers, snapshots, incidents,
stock, crypto, FX, funding, feeds, replay, simulated and legacy paths). What is left:

1. One restriction as an abstract specification, implemented by `IncidentEpisodes` and used by `EntryAuthorization`.
2. `NotSpentTwice` of `CreditFunding`, `OpenIsAwaited` of `DataFeeds` and `NothingRevived` of `StrategyRun` as theorems, by the
   addition of these machines to `Trades`.
3. `Library` (drafts, publication), `Idempotency`, `Migration`: the crash points of each.
4. `Instance`: ownership of the database, heartbeat and startup.

## How to run

`tlc -config X.cfg M` for a run named in `PROJECT.json`, `tlapm M.tla` for a proof module. Runs take from a
few seconds to four minutes with two workers, proof modules up to fifteen.
