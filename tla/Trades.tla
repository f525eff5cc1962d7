------------------------------- MODULE Trades --------------------------------
(***************************************************************************)
(* The machines that trade on their own order tables, a crypto run, a spot *)
(* FX run, a stock run and the legacy paper adapter, and what they rely    *)
(* on: identifiers of orders, account snapshots and incidents.  They share *)
(* no state: a behaviour is one of one of them, whose name is part, or of  *)
(* none of them.                                                           *)
(***************************************************************************)
EXTENDS Integers

CONSTANTS
  IdsKeys, IdsMaxId, IdsMaxRestarts, SnapUncorrelated, SnapBudgets, SnapMaxQueue,
  IncScenarios, CryptoUnits, CryptoMaxOrders, CryptoBudgets, FXMaxOrders, FXBudgets,
  StockShares, StockPrices, StockBudgets, AdapterQuantity, AdapterCallbackIds, AdapterBudgets

\* What the proofs about orders need of the bounds: numbers of units and of shares, and prices;
\* and of a snapshot, which of its end markers may be the unnumbered ones.
ASSUME TradesAssumption ==
  /\ SnapUncorrelated \subseteq {"orders_end", "completed_orders_end"} /\ AdapterQuantity \in Nat
  /\ CryptoUnits \in Nat /\ StockShares \in Nat \ {0} /\ StockPrices \subseteq Nat
  /\ CryptoBudgets \subseteq [arms : Nat, restarts : Nat, refusals : Nat]
  /\ FXBudgets \subseteq [arms : Nat, restarts : Nat, raises : Nat, late : Nat, quiet : Nat, exits : Nat,
                         local : BOOLEAN, units : Nat]
  /\ StockBudgets \subseteq [arms : Nat, changes : Nat, raises : Nat, waiting : Nat, raised : BOOLEAN,
                            qualified : BOOLEAN]

VARIABLES part,
  ids_outbox, ids_allocator, ids_previews, ids_next_id, ids_offered, ids_sent, ids_restarts,
  snap_engine, snap_adapter, snap_queue, snap_pending, snap_version, snap_seen, snap_begun,
  snap_collected, snap_broken, snap_bounds,
  inc_episodes, inc_totals, inc_sequence, inc_running, inc_context, inc_reconciled,
  inc_inflight, inc_proof, inc_signs, inc_todo, inc_visit, inc_preview, inc_receipt, inc_world,
  crypto_run, crypto_trigger, crypto_orders, crypto_known, crypto_seen, crypto_broker,
  crypto_exiting, crypto_plan, crypto_trial, crypto_link, crypto_task, crypto_bounds,
  fx_run, fx_pending, fx_orders, fx_known, fx_seen, fx_broker, fx_cancels, fx_exiting,
  fx_intent, fx_account, fx_fresh, fx_reconciled, fx_rec, fx_evidence, fx_task, fx_bounds,
  stock_run, stock_trigger, stock_market, stock_entry, stock_plan, stock_amendment, stock_known,
  stock_seen, stock_broker, stock_wire, stock_link, stock_trial, stock_bounds,
  adapter_connection, adapter_submitted, adapter_remembered, adapter_progress, adapter_sent,
  adapter_accepted, adapter_demanded, adapter_overlooked, adapter_bounds

ids == <<ids_outbox, ids_allocator, ids_previews, ids_next_id, ids_offered, ids_sent,
  ids_restarts>>
snap == <<snap_engine, snap_adapter, snap_queue, snap_pending, snap_version, snap_seen,
  snap_begun, snap_collected, snap_broken, snap_bounds>>
inc == <<inc_episodes, inc_totals, inc_sequence, inc_running, inc_context, inc_reconciled,
  inc_inflight, inc_proof, inc_signs, inc_todo, inc_visit, inc_preview, inc_receipt, inc_world>>
crypto == <<crypto_run, crypto_trigger, crypto_orders, crypto_known, crypto_seen, crypto_broker,
  crypto_exiting, crypto_plan, crypto_trial, crypto_link, crypto_task, crypto_bounds>>
fx == <<fx_run, fx_pending, fx_orders, fx_known, fx_seen, fx_broker, fx_cancels, fx_exiting,
  fx_intent, fx_account, fx_fresh, fx_reconciled, fx_rec, fx_evidence, fx_task, fx_bounds>>
stock == <<stock_run, stock_trigger, stock_market, stock_entry, stock_plan, stock_amendment,
  stock_known, stock_seen, stock_broker, stock_wire, stock_link, stock_trial, stock_bounds>>
adapter == <<adapter_connection, adapter_submitted, adapter_remembered, adapter_progress,
  adapter_sent, adapter_accepted, adapter_demanded, adapter_overlooked, adapter_bounds>>
trades == <<part, ids, snap, inc, crypto, fx, stock, adapter>>
TRADING == {"ids", "snap", "inc", "crypto", "fx", "stock", "adapter"}

Ids == INSTANCE OrderIds WITH Keys <- IdsKeys, MaxId <- IdsMaxId, MaxRestarts <- IdsMaxRestarts,
  outbox <- ids_outbox, allocator <- ids_allocator, previews <- ids_previews,
  next_id <- ids_next_id, offered <- ids_offered, sent <- ids_sent, restarts <- ids_restarts
Snap == INSTANCE BrokerSnapshot WITH Uncorrelated <- SnapUncorrelated, Budgets <- SnapBudgets,
  MaxQueue <- SnapMaxQueue, engine <- snap_engine, adapter <- snap_adapter, queue <- snap_queue,
  pending <- snap_pending, version <- snap_version, seen <- snap_seen, begun <- snap_begun,
  collected <- snap_collected, broken <- snap_broken, bounds <- snap_bounds
Inc == INSTANCE IncidentEpisodes WITH Scenarios <- IncScenarios, episodes <- inc_episodes,
  totals <- inc_totals, sequence <- inc_sequence, running <- inc_running,
  context <- inc_context, reconciled <- inc_reconciled, inflight <- inc_inflight,
  proof <- inc_proof, signs <- inc_signs, todo <- inc_todo, visit <- inc_visit,
  preview <- inc_preview, receipt <- inc_receipt, world <- inc_world
Crypto == INSTANCE CryptoTrade WITH Units <- CryptoUnits, MaxOrders <- CryptoMaxOrders,
  Budgets <- CryptoBudgets, run <- crypto_run, trigger <- crypto_trigger,
  orders <- crypto_orders, known <- crypto_known, seen <- crypto_seen, broker <- crypto_broker,
  exiting <- crypto_exiting, plan <- crypto_plan, trial <- crypto_trial, link <- crypto_link,
  task <- crypto_task, bounds <- crypto_bounds
FX == INSTANCE FXTrade WITH MaxOrders <- FXMaxOrders, Budgets <- FXBudgets, run <- fx_run,
  pending <- fx_pending, orders <- fx_orders, known <- fx_known, seen <- fx_seen,
  broker <- fx_broker, cancels <- fx_cancels, exiting <- fx_exiting, intent <- fx_intent,
  account <- fx_account, fresh <- fx_fresh, reconciled <- fx_reconciled, rec <- fx_rec,
  evidence <- fx_evidence, task <- fx_task, bounds <- fx_bounds
Stock == INSTANCE StockTrade WITH Shares <- StockShares, Prices <- StockPrices,
  Budgets <- StockBudgets, run <- stock_run, trigger <- stock_trigger, market <- stock_market,
  entry <- stock_entry, plan <- stock_plan, amendment <- stock_amendment, known <- stock_known,
  seen <- stock_seen, broker <- stock_broker, wire <- stock_wire, link <- stock_link,
  trial <- stock_trial, bounds <- stock_bounds
Adapter == INSTANCE PaperAdapter WITH Quantity <- AdapterQuantity,
  CallbackIds <- AdapterCallbackIds, Budgets <- AdapterBudgets,
  connection <- adapter_connection, submitted <- adapter_submitted,
  remembered <- adapter_remembered, progress <- adapter_progress, sent <- adapter_sent,
  accepted <- adapter_accepted, demanded <- adapter_demanded, overlooked <- adapter_overlooked,
  bounds <- adapter_bounds

IdsOff == ids_outbox = 0 /\ ids_allocator = 0 /\ ids_previews = 0 /\ ids_next_id = 0 /\
  ids_offered = 0 /\ ids_sent = 0 /\ ids_restarts = 0
SnapOff == snap_engine = 0 /\ snap_adapter = 0 /\ snap_queue = 0 /\ snap_pending = 0 /\
  snap_version = 0 /\ snap_seen = 0 /\ snap_begun = 0 /\ snap_collected = 0 /\
  snap_broken = 0 /\ snap_bounds = 0
IncOff == inc_episodes = 0 /\ inc_totals = 0 /\ inc_sequence = 0 /\ inc_running = 0 /\
  inc_context = 0 /\ inc_reconciled = 0 /\ inc_inflight = 0 /\ inc_proof = 0 /\ inc_signs = 0 /\
  inc_todo = 0 /\ inc_visit = 0 /\ inc_preview = 0 /\ inc_receipt = 0 /\ inc_world = 0
CryptoOff == crypto_run = 0 /\ crypto_trigger = 0 /\ crypto_orders = 0 /\ crypto_known = 0 /\
  crypto_seen = 0 /\ crypto_broker = 0 /\ crypto_exiting = 0 /\ crypto_plan = 0 /\
  crypto_trial = 0 /\ crypto_link = 0 /\ crypto_task = 0 /\ crypto_bounds = 0
FXOff == fx_run = 0 /\ fx_pending = 0 /\ fx_orders = 0 /\ fx_known = 0 /\ fx_seen = 0 /\
  fx_broker = 0 /\ fx_cancels = 0 /\ fx_exiting = 0 /\ fx_intent = 0 /\ fx_account = 0 /\
  fx_fresh = 0 /\ fx_reconciled = 0 /\ fx_rec = 0 /\ fx_evidence = 0 /\ fx_task = 0 /\
  fx_bounds = 0
StockOff == stock_run = 0 /\ stock_trigger = 0 /\ stock_market = 0 /\ stock_entry = 0 /\
  stock_plan = 0 /\ stock_amendment = 0 /\ stock_known = 0 /\ stock_seen = 0 /\
  stock_broker = 0 /\ stock_wire = 0 /\ stock_link = 0 /\ stock_trial = 0 /\ stock_bounds = 0
AdapterOff == adapter_connection = 0 /\ adapter_submitted = 0 /\ adapter_remembered = 0 /\
  adapter_progress = 0 /\ adapter_sent = 0 /\ adapter_accepted = 0 /\ adapter_demanded = 0 /\
  adapter_overlooked = 0 /\ adapter_bounds = 0
TradesOff == IdsOff /\ SnapOff /\ IncOff /\ CryptoOff /\ FXOff /\ StockOff /\ AdapterOff

TradesInit ==
  \/ part = "ids" /\ Ids!Init /\ SnapOff /\ IncOff /\ CryptoOff /\ FXOff /\ StockOff /\ AdapterOff
  \/ part = "snap" /\ Snap!Init /\ IdsOff /\ IncOff /\ CryptoOff /\ FXOff /\ StockOff /\ AdapterOff
  \/ part = "inc" /\ Inc!Init /\ IdsOff /\ SnapOff /\ CryptoOff /\ FXOff /\ StockOff /\ AdapterOff
  \/ part = "crypto" /\ Crypto!Init /\ IdsOff /\ SnapOff /\ IncOff /\ FXOff /\ StockOff /\ AdapterOff
  \/ part = "fx" /\ FX!Init /\ IdsOff /\ SnapOff /\ IncOff /\ CryptoOff /\ StockOff /\ AdapterOff
  \/ part = "stock" /\ Stock!Init /\ IdsOff /\ SnapOff /\ IncOff /\ CryptoOff /\ FXOff /\ AdapterOff
  \/ part = "adapter" /\ Adapter!Init /\ IdsOff /\ SnapOff /\ IncOff /\ CryptoOff /\ FXOff /\ StockOff
\* A behaviour of another machine, which leaves these alone.
Elsewhere == part \notin TRADING /\ TradesOff

IdsOnly == part = "ids" /\ UNCHANGED <<part, snap, inc, crypto, fx, stock, adapter>>
IdsNext == IdsOnly /\ Ids!Next
SnapOnly == part = "snap" /\ UNCHANGED <<part, ids, inc, crypto, fx, stock, adapter>>
SnapNext == SnapOnly /\ Snap!Next
IncOnly == part = "inc" /\ UNCHANGED <<part, ids, snap, crypto, fx, stock, adapter>>
IncNext == IncOnly /\ Inc!Next
CryptoOnly == part = "crypto" /\ UNCHANGED <<part, ids, snap, inc, fx, stock, adapter>>
CryptoNext == CryptoOnly /\ Crypto!Next
FXOnly == part = "fx" /\ UNCHANGED <<part, ids, snap, inc, crypto, stock, adapter>>
FXNext == FXOnly /\ FX!Next
StockOnly == part = "stock" /\ UNCHANGED <<part, ids, snap, inc, crypto, fx, adapter>>
StockNext == StockOnly /\ Stock!Next
AdapterOnly == part = "adapter" /\ UNCHANGED <<part, ids, snap, inc, crypto, fx, stock>>
AdapterNext == AdapterOnly /\ Adapter!Next
TradesNext == IdsNext \/ SnapNext \/ IncNext \/ CryptoNext \/ FXNext \/ StockNext \/ AdapterNext
TradesSpec == (TradesInit \/ Elsewhere) /\ [][TradesNext]_trades

\* No machine sells, or protects, more than it owns.
\* Crypto: What may still be sold never exceeds what was bought, although executions and statuses
\* arrive in either order and a process stops between a write and the call it stands for.
\* FX: The sells that may still execute never exceed what the broker says is left: not while a stop
\* is replaced, an exit competes with it, a submission was lost or the process restarted.
\* Stock: When the engine holds its view for true and no news is on the way, the stop the broker
\* works covers exactly the shares that are left and stands below what was paid for them, through
\* partial and late fills, amendments in flight and a child that had begun to execute.
SellsAreCovered ==
  /\ part = "crypto" => Crypto!NeverOversold
  /\ part = "fx" => FX!SellsAreCovered
  /\ part = "stock" => Stock!StopFitsFills
\* What is recorded in several places tells one story.
\* Ids: An identifier names one order for ever: rows, legs and previews never share one, whatever
\* the broker offers after a restart.
\* Snap: The adapter never has to refuse a snapshot (broker_snapshots.py:81): when none is in flight
\* on this connection, both unnumbered markers have arrived.
\* Inc: The counts the interface shows agree with the episodes, whatever path each one took.
\* Stock: What is known to be bought is reserved, until it is sold again.
\* Stock: At most one amendment is unanswered, so that an older one never lands after a newer, as
\* long as the stop has not begun to execute: what is left of the shares, sent as the quantity of
\* the whole child, is never what the broker then shows to be left, and so the same amendment is
\* sent again.
\* Adapter: A key is sent again only when the adapter itself had left the last outcome unknown, and
\* a second payload under the key of an accepted one never is; until the process restarts.
\* Adapter: The fills of the order that are accepted grow, stay within the order, and come in the
\* order they were observed in, whatever was delivered twice, late or under a used identifier.
\* Adapter: A result that asks for reconciliation leaves the adapter in doubt, so that nothing is
\* sent or accepted until a state is recorded; unless the journal failed in between.
TradesAgree ==
  /\ part = "ids" => Ids!IdsAreDistinct
  /\ part = "snap" => Snap!NeverRefused
  /\ part = "inc" => Inc!TotalsAgree
  /\ part = "stock" => Stock!ExposureIsReserved
  /\ part = "stock" => Stock!OneAmendment
  /\ part = "adapter" => Adapter!SentOnce
  /\ part = "adapter" => Adapter!FillsGrow
  /\ part = "adapter" => Adapter!DoubtIsKept
\* What is declared settled rests on evidence gathered since it was asked for.
\* Snap: A snapshot becomes the operational view only when every part is an answer to a request made
\* after it began, and none is older than something the engine has observed meanwhile.
\* Inc: A restriction is released only when a reconciliation of the running connection began after
\* the last failure, also when the watchdog raised while the engine was deciding; the exception is a
\* feed nothing uses.
\* Crypto: The ceiling is raised only by a whole trade: bought, seen protected, and sold again.
\* Stock: A plan buys more than one share only after a trade of it was seen protected and was
\* closed.
TradesActOnEvidence ==
  /\ part = "snap" => Snap!PublishedIsCurrent
  /\ part = "inc" => Inc!ReleasedAfterFailure
  /\ part = "crypto" => Crypto!QualifiedByTrade
  /\ part = "stock" => Stock!QualifiedByTrade
\* A step that takes or ends a risk follows the authorization and the review it was given.
\* Inc: A batch releases what the operator saw: no failure later than the preview, and nothing
\* twice.
\* FX: A signal kept for one authorization never enters under another.
\* Stock: An entry is made only under the authorization whose candle the trade crossed, once, on a
\* market that is open and fresh, also when it had waited for credit.
TradesActAsAuthorized ==
  /\ part = "inc" => Inc!BatchAsReviewed
  /\ part = "fx" => FX!SignalOfAuthorization
  /\ part = "stock" => Stock!EnteredAsAuthorized
\* Whatever these machines release, publish, qualify or enter, they do on evidence gathered since it was
\* asked for (TradesActOnEvidence) and as the operator authorized or reviewed it (TradesActAsAuthorized).
TradesAct == [][TradesActOnEvidence /\ TradesActAsAuthorized]_trades
=============================================================================
