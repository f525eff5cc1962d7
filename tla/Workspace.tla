------------------------------ MODULE Workspace ------------------------------
(***************************************************************************)
(* Machines of the workspace that share no state: a behaviour is one of    *)
(* one of them, whose name is part.  Each has the bounds of its own.       *)
(***************************************************************************)
EXTENDS Trades

CONSTANTS
  WfRuns, WfActors, WfBudgets, StratRuns, StratBudgets, BrkSetups, SimOrders,
  SimSetups, FeedsSetups, RepSetups, CreditRuns, CreditSetups, ArmRuns, ArmContracts,
  ArmActions, ArmSetups

VARIABLES
  wf_rows, wf_journal, wf_torn, wf_stopped, wf_op, wf_holder, wf_bounds,
  strat_rows, strat_journal, strat_torn, strat_reports, strat_granted, strat_dataset,
  strat_stop, strat_memory, strat_want, strat_latest, strat_edit, strat_asked, strat_op,
  strat_bounds,
  brk_setup, brk_trades, brk_result,
  sim_setup, sim_runs, sim_signals, sim_sources, sim_risks, sim_history, sim_tickets,
  sim_decisions, sim_exchange, sim_results, sim_position, sim_stopped, sim_op, sim_bounds,
  feeds_setup, feeds_minute, feeds_feeds, feeds_queue, feeds_lost, feeds_bounds,
  rep_setup, rep_tape, rep_market, rep_state, rep_pending, rep_position, rep_entries,
  rep_trades, rep_orders,
  credit_setup, credit_orders, credit_engine, credit_figures, credit_evidence, credit_previews,
  credit_queue, credit_bounds,
  arm_setup, arm_runs, arm_created, arm_position, arm_published, arm_qualified, arm_episodes,
  arm_emergency, arm_engine, arm_owner, arm_actions, arm_page, arm_op, arm_reviewed, arm_bounds

wf == <<wf_rows, wf_journal, wf_torn, wf_stopped, wf_op, wf_holder, wf_bounds>>
strat == <<strat_rows, strat_journal, strat_torn, strat_reports, strat_granted, strat_dataset,
  strat_stop, strat_memory, strat_want, strat_latest, strat_edit, strat_asked, strat_op,
  strat_bounds>>
brk == <<brk_setup, brk_trades, brk_result>>
sim == <<sim_setup, sim_runs, sim_signals, sim_sources, sim_risks, sim_history, sim_tickets,
  sim_decisions, sim_exchange, sim_results, sim_position, sim_stopped, sim_op, sim_bounds>>
feeds == <<feeds_setup, feeds_minute, feeds_feeds, feeds_queue, feeds_lost, feeds_bounds>>
rep == <<rep_setup, rep_tape, rep_market, rep_state, rep_pending, rep_position, rep_entries,
  rep_trades, rep_orders>>
credit == <<credit_setup, credit_orders, credit_engine, credit_figures, credit_evidence,
  credit_previews, credit_queue, credit_bounds>>
arm == <<arm_setup, arm_runs, arm_created, arm_position, arm_published, arm_qualified,
  arm_episodes, arm_emergency, arm_engine, arm_owner, arm_actions, arm_page, arm_op,
  arm_reviewed, arm_bounds>>
others == <<wf, strat, brk, sim, feeds, rep, credit, arm>>

Wf == INSTANCE WorkflowRun WITH Runs <- WfRuns, Actors <- WfActors, Budgets <- WfBudgets,
  rows <- wf_rows, journal <- wf_journal, torn <- wf_torn, stopped <- wf_stopped, op <- wf_op,
  holder <- wf_holder, bounds <- wf_bounds
Strat == INSTANCE StrategyRun WITH Runs <- StratRuns, Budgets <- StratBudgets,
  rows <- strat_rows, journal <- strat_journal, torn <- strat_torn, reports <- strat_reports,
  granted <- strat_granted, dataset <- strat_dataset, stop <- strat_stop,
  memory <- strat_memory, want <- strat_want, latest <- strat_latest, edit <- strat_edit,
  asked <- strat_asked, op <- strat_op, bounds <- strat_bounds
Brk == INSTANCE Breakout WITH Setups <- BrkSetups, setup <- brk_setup, trades <- brk_trades,
  result <- brk_result
Sim == INSTANCE SimulatedOrder WITH Orders <- SimOrders, Setups <- SimSetups,
  setup <- sim_setup, runs <- sim_runs, signals <- sim_signals, sources <- sim_sources,
  risks <- sim_risks, history <- sim_history, tickets <- sim_tickets,
  decisions <- sim_decisions, exchange <- sim_exchange, results <- sim_results,
  position <- sim_position, stopped <- sim_stopped, op <- sim_op, bounds <- sim_bounds
Feeds == INSTANCE DataFeeds WITH Setups <- FeedsSetups, setup <- feeds_setup,
  minute <- feeds_minute, feeds <- feeds_feeds, queue <- feeds_queue, lost <- feeds_lost,
  bounds <- feeds_bounds
Rep == INSTANCE ReplayTrade WITH Setups <- RepSetups, setup <- rep_setup, tape <- rep_tape,
  market <- rep_market, state <- rep_state, pending <- rep_pending, position <- rep_position,
  entries <- rep_entries, trades <- rep_trades, orders <- rep_orders
Credit == INSTANCE CreditFunding WITH Runs <- CreditRuns, Setups <- CreditSetups,
  setup <- credit_setup, orders <- credit_orders, engine <- credit_engine,
  figures <- credit_figures, evidence <- credit_evidence, previews <- credit_previews,
  queue <- credit_queue, bounds <- credit_bounds
Arm == INSTANCE ArmReview WITH Runs <- ArmRuns, Contracts <- ArmContracts,
  Actions <- ArmActions, Setups <- ArmSetups, setup <- arm_setup, runs <- arm_runs,
  created <- arm_created, position <- arm_position, published <- arm_published,
  qualified <- arm_qualified, episodes <- arm_episodes, emergency <- arm_emergency,
  engine <- arm_engine, owner <- arm_owner, actions <- arm_actions, page <- arm_page,
  op <- arm_op, reviewed <- arm_reviewed, bounds <- arm_bounds

WfOff == wf_rows = 0 /\ wf_journal = 0 /\ wf_torn = 0 /\ wf_stopped = 0 /\ wf_op = 0 /\
  wf_holder = 0 /\ wf_bounds = 0
StratOff == strat_rows = 0 /\ strat_journal = 0 /\ strat_torn = 0 /\ strat_reports = 0 /\
  strat_granted = 0 /\ strat_dataset = 0 /\ strat_stop = 0 /\ strat_memory = 0 /\
  strat_want = 0 /\ strat_latest = 0 /\ strat_edit = 0 /\ strat_asked = 0 /\ strat_op = 0 /\
  strat_bounds = 0
BrkOff == brk_setup = 0 /\ brk_trades = 0 /\ brk_result = 0
SimOff == sim_setup = 0 /\ sim_runs = 0 /\ sim_signals = 0 /\ sim_sources = 0 /\
  sim_risks = 0 /\ sim_history = 0 /\ sim_tickets = 0 /\ sim_decisions = 0 /\
  sim_exchange = 0 /\ sim_results = 0 /\ sim_position = 0 /\ sim_stopped = 0 /\ sim_op = 0 /\
  sim_bounds = 0
FeedsOff == feeds_setup = 0 /\ feeds_minute = 0 /\ feeds_feeds = 0 /\ feeds_queue = 0 /\
  feeds_lost = 0 /\ feeds_bounds = 0
RepOff == rep_setup = 0 /\ rep_tape = 0 /\ rep_market = 0 /\ rep_state = 0 /\ rep_pending = 0 /\
  rep_position = 0 /\ rep_entries = 0 /\ rep_trades = 0 /\ rep_orders = 0
CreditOff == credit_setup = 0 /\ credit_orders = 0 /\ credit_engine = 0 /\ credit_figures = 0 /\
  credit_evidence = 0 /\ credit_previews = 0 /\ credit_queue = 0 /\ credit_bounds = 0
ArmOff == arm_setup = 0 /\ arm_runs = 0 /\ arm_created = 0 /\ arm_position = 0 /\
  arm_published = 0 /\ arm_qualified = 0 /\ arm_episodes = 0 /\ arm_emergency = 0 /\
  arm_engine = 0 /\ arm_owner = 0 /\ arm_actions = 0 /\ arm_page = 0 /\ arm_op = 0 /\
  arm_reviewed = 0 /\ arm_bounds = 0
OthersOff == WfOff /\ StratOff /\ BrkOff /\ SimOff /\ FeedsOff /\ RepOff /\ CreditOff /\ ArmOff

Init ==
  \/ TradesInit /\ OthersOff
  \/ part = "wf" /\ Wf!Init /\ TradesOff /\ StratOff /\ BrkOff /\ SimOff /\ FeedsOff /\ RepOff /\ CreditOff /\ ArmOff
  \/ part = "strat" /\ Strat!Init /\ TradesOff /\ WfOff /\ BrkOff /\ SimOff /\ FeedsOff /\ RepOff /\ CreditOff /\ ArmOff
  \/ part = "brk" /\ Brk!Init /\ TradesOff /\ WfOff /\ StratOff /\ SimOff /\ FeedsOff /\ RepOff /\ CreditOff /\ ArmOff
  \/ part = "sim" /\ Sim!Init /\ TradesOff /\ WfOff /\ StratOff /\ BrkOff /\ FeedsOff /\ RepOff /\ CreditOff /\ ArmOff
  \/ part = "feeds" /\ Feeds!Init /\ TradesOff /\ WfOff /\ StratOff /\ BrkOff /\ SimOff /\ RepOff /\ CreditOff /\ ArmOff
  \/ part = "rep" /\ Rep!Init /\ TradesOff /\ WfOff /\ StratOff /\ BrkOff /\ SimOff /\ FeedsOff /\ CreditOff /\ ArmOff
  \/ part = "credit" /\ Credit!Init /\ TradesOff /\ WfOff /\ StratOff /\ BrkOff /\ SimOff /\ FeedsOff /\ RepOff /\ ArmOff
  \/ part = "arm" /\ Arm!Init /\ TradesOff /\ WfOff /\ StratOff /\ BrkOff /\ SimOff /\ FeedsOff /\ RepOff /\ CreditOff

WfOnly == part = "wf" /\ UNCHANGED <<part, strat, brk, sim, feeds, rep, credit, arm>>
WfNext == WfOnly /\ Wf!Next
StratOnly == part = "strat" /\ UNCHANGED <<part, wf, brk, sim, feeds, rep, credit, arm>>
StratNext == StratOnly /\ Strat!Next
BrkOnly == part = "brk" /\ UNCHANGED <<part, wf, strat, sim, feeds, rep, credit, arm>>
BrkNext == BrkOnly /\ Brk!Next
SimOnly == part = "sim" /\ UNCHANGED <<part, wf, strat, brk, feeds, rep, credit, arm>>
SimNext == SimOnly /\ Sim!Next
FeedsOnly == part = "feeds" /\ UNCHANGED <<part, wf, strat, brk, sim, rep, credit, arm>>
FeedsNext == FeedsOnly /\ Feeds!Next
RepOnly == part = "rep" /\ UNCHANGED <<part, wf, strat, brk, sim, feeds, credit, arm>>
RepNext == RepOnly /\ Rep!Next
CreditOnly == part = "credit" /\ UNCHANGED <<part, wf, strat, brk, sim, feeds, rep, arm>>
CreditNext == CreditOnly /\ Credit!Next
ArmOnly == part = "arm" /\ UNCHANGED <<part, wf, strat, brk, sim, feeds, rep, credit>>
ArmNext == ArmOnly /\ Arm!Next
\* A step of the machines that trade, and one of another.
Trading == part \in TRADING /\ UNCHANGED others
Apart == part \notin TRADING /\ UNCHANGED trades
OthersNext == WfNext \/ StratNext \/ BrkNext \/ SimNext \/ FeedsNext \/ RepNext \/ CreditNext \/
  ArmNext
Next == (Trading /\ TradesNext) \/ (Apart /\ OthersNext)
vars == <<trades, others>>

\* A behaviour is of one part, so fairness of a disjunction is fairness of that part's action.
Weak1 ==
  \/ part = "snap" /\ Snap!Answer /\ SnapOnly /\ Trading
  \/ part = "inc" /\ Inc!Refresh /\ IncOnly /\ Trading
  \/ part = "crypto" /\ Crypto!Advance /\ CryptoOnly /\ Trading
  \/ part = "fx" /\ FX!Advance /\ FXOnly /\ Trading
  \/ part = "stock" /\ Stock!Amended /\ StockOnly /\ Trading
  \/ part = "feeds" /\ Feeds!Maintain /\ FeedsOnly /\ Apart
Weak2 ==
  \/ part = "snap" /\ Snap!Observe /\ SnapOnly /\ Trading
  \/ part = "inc" /\ Inc!Evaluate /\ IncOnly /\ Trading
  \/ part = "crypto" /\ Crypto!Execute /\ CryptoOnly /\ Trading
  \/ part = "fx" /\ FX!Fill /\ FXOnly /\ Trading
  \/ part = "stock" /\ Stock!Reconcile /\ StockOnly /\ Trading
  \/ part = "feeds" /\ Feeds!Observe /\ FeedsOnly /\ Apart
Weak3 ==
  \/ part = "snap" /\ Snap!Deadline /\ SnapOnly /\ Trading
  \/ part = "inc" /\ Inc!Commit /\ IncOnly /\ Trading
  \/ part = "fx" /\ FX!Cancelled /\ FXOnly /\ Trading
  \/ part = "stock" /\ Stock!Execution /\ StockOnly /\ Trading
  \/ part = "feeds" /\ Feeds!Recover /\ FeedsOnly /\ Apart
Weak4 ==
  \/ part = "feeds" /\ Feeds!Tick /\ FeedsOnly /\ Apart
Weak5 ==
  \/ part = "feeds" /\ Feeds!AnswerInTime /\ FeedsOnly /\ Apart
Strong1 ==
  \/ part = "inc" /\ Inc!BeginReconcile /\ IncOnly /\ Trading
  \/ part = "crypto" /\ Crypto!RetryExit /\ CryptoOnly /\ Trading
  \/ part = "fx" /\ FX!Sync /\ FXOnly /\ Trading
Strong2 ==
  \/ part = "inc" /\ Inc!EndReconcile /\ IncOnly /\ Trading
  \/ part = "crypto" /\ Crypto!Reconcile /\ CryptoOnly /\ Trading
  \/ part = "fx" /\ FX!Status /\ FXOnly /\ Trading
Strong3 ==
  \/ part = "inc" /\ Inc!Sign /\ IncOnly /\ Trading
  \/ part = "fx" /\ FX!Execution /\ FXOnly /\ Trading
Strong4 ==
  \/ part = "fx" /\ FX!BeginReconcile /\ FXOnly /\ Trading
Strong5 ==
  \/ part = "fx" /\ FX!Collect /\ FXOnly /\ Trading
Spec == Init /\ [][Next]_vars /\ WF_vars(Weak1) /\ WF_vars(Weak2) /\ WF_vars(Weak3) /\
  WF_vars(Weak4) /\ WF_vars(Weak5) /\ SF_vars(Strong1) /\ SF_vars(Strong2) /\
  SF_vars(Strong3) /\ SF_vars(Strong4) /\ SF_vars(Strong5)

\* The types of each machine.
TypeOK ==
  /\ part = "ids" => Ids!TypeOK
  /\ part = "snap" => Snap!TypeOK
  /\ part = "inc" => Inc!TypeOK
  /\ part = "crypto" => Crypto!TypeOK
  /\ part = "fx" => FX!TypeOK
  /\ part = "wf" => Wf!TypeOK
  /\ part = "stock" => Stock!TypeOK
  /\ part = "adapter" => Adapter!TypeOK
  /\ part = "strat" => Strat!TypeOK
  /\ part = "brk" => Brk!TypeOK
  /\ part = "sim" => Sim!TypeOK
  /\ part = "feeds" => Feeds!TypeOK
  /\ part = "rep" => Rep!TypeOK
  /\ part = "credit" => Credit!TypeOK
  /\ part = "arm" => Arm!TypeOK
\* Of the other machines: what is recorded in several places tells one story.
\* Wf: The journal of a run tells one lawful story, whoever raced and wherever the process stopped:
\* it is filled at most once, after one approval that no rejection contradicts.
\* Wf: What the runner has committed it can read back: the manifest of a settled row is the run's
\* own, complete and in the journal, unless the execution was given a foreign identifier.
\* Strat: A run is executed once whatever crashes, only one is being executed, and what can be read
\* of a finished one is whole: drafted, armed, reserved and ended in this order, with its report.
\* Strat: A dataset that is registered is the one in its file.
\* Brk: The loss that was authorized bounds the position that is entered, at its real price, and a
\* trade closed at a greater loss was closed below its stop; the entry follows its trigger, which
\* follows the opening range, and is protected at the lowest price seen until the trigger.
\* Sim: The orders follow the fake broker and never run ahead of it: an order is said to be filled,
\* cancelled or rejected by a transition that names the broker's own transition into that state,
\* whatever raised in between; and a restored history, which applies the rules to every transition
\* again, is accepted.
\* Sim: An entry that has been recorded without its protection has been alerted.
\* Feeds: The history requests that are open at the broker are those that the engine waits for,
\* never more than its capacity, whatever timed out, failed or was started again.
\* Feeds: Candles that are called continuous miss no trade: every trade that was not recorded is
\* older than the history, unless the news of its loss is still to be observed.
\* Feeds: A run that may enter has candles that are continuous and feeds that have not failed.
\* Rep: The candles that are complete are the groups of the trades of the tape, by the time of the
\* trade.
\* Rep: A market that is rebuilt at the end of any minute, from the bars before and the ticks after,
\* is the one that has seen all the trades, when no minute of a session went without a trade.
\* Rep: The ledger agrees with what the replay holds: an order is reserved while it rests or is
\* held, and the shares bought and not sold are those of the position.
\* Credit: The entries that were sent never need more than the account has, however their sending,
\* the snapshots and the news of the account follow one another; and cash pays for one of them only.
\* Arm: The runs that are armed are within the limits of one of them, and share no contract unless
\* their policy provides for it, whatever was published, suspended and resumed between their
\* reviews.
\* Arm: The authorization of a run, also a suspended one, is that of an action that was carried out,
\* for this run and with these limits.
\* Arm: More than one run is authorized only after a whole trade and the operator's acceptance of
\* it.
OthersAgree ==
  /\ part = "wf" => Wf!TrailIsLawful
  /\ part = "wf" => Wf!EvidenceIsReadable
  /\ part = "strat" => Strat!ExecutedOnce
  /\ part = "strat" => Strat!DatasetIsWhole
  /\ part = "brk" => Brk!LossIsBounded
  /\ part = "sim" => Sim!OrderFollowsBroker
  /\ part = "sim" => Sim!UnprotectedIsAlerted
  /\ part = "feeds" => Feeds!OpenIsAwaited
  /\ part = "feeds" => Feeds!WarmMissesNothing
  /\ part = "feeds" => Feeds!ArmedHasData
  /\ part = "rep" => Rep!CandlesAreTheTape
  /\ part = "rep" => Rep!RebuiltIsTheSame
  /\ part = "rep" => Rep!LedgerAgrees
  /\ part = "credit" => Credit!NotSpentTwice
  /\ part = "arm" => Arm!WithinProfile
  /\ part = "arm" => Arm!ActionIsRecorded
  /\ part = "arm" => Arm!ExpandedOnEvidence
\* Of the other machines: what is declared settled rests on evidence gathered since it was asked for.
\* Brk: Later trades change nothing that was decided: not a trigger, not an entry, its size or its
\* protection, not an exit, and not a refusal of the risk.
\* Feeds: A feed becomes healthy, and a part of the history complete, only by an observation of the
\* last request made for it: an answer that a timeout, a retry or a removal has overtaken counts for
\* nothing.
\* Rep: An entry is decided on what is complete: the last complete candle (or, inside a candle, the
\* trade) is above a level that only the candles completed before it make.
\* Credit: An entry on margin is sent with the broker's answer for this very state of the account:
\* no entry was sent after the preview was asked for, and the adapter never refuses what the engine
\* accepts.
OthersActOnEvidence ==
  /\ part = "brk" => Brk!NoLookAhead
  /\ part = "feeds" => Feeds!LatestRequestCounts
  /\ part = "rep" => Rep!EntersOnEvidence
  /\ part = "credit" => Credit!SentOnAnswer
\* Of the other machines: a step that takes or ends a risk follows the authorization and the review it was given.
\* Strat: An execution starts only while the stop is off, and never from an authorization that was
\* given before the stop was last raised: clearing the stop revives nothing, nor does a restart.
\* Sim: What reaches the fake broker is one order per client id, of a risk decision that passed and
\* of a ticket approved before it expired, by the decision that the order names; an order whose
\* requests name its own ticket was approved on that one.
\* Rep: A position comes only from the order that rested, at a price within its limit and in its
\* time, and its planned loss and its cost are within the caps; a day has no more entries than
\* allowed.
\* Arm: A run is armed once by an action, as the operator saw it: with the limits, the entries, the
\* instance, the login and the very incidents of the page; nothing is left that restricts it, an
\* archived run stays in the archive, and an engine that lost the workspace arms nothing.
\* Arm: Without a review a run is armed only if its authorization was suspended and never revoked
\* since the review, by the engine and under the login it was given to, and no order was made under
\* it.
OthersActAsAuthorized ==
  /\ part = "strat" => Strat!NothingRevived
  /\ part = "sim" => Sim!SubmittedAsApproved
  /\ part = "rep" => Rep!EntersAsAllowed
  /\ part = "arm" => Arm!ArmedAsReviewed
  /\ part = "arm" => Arm!ResumedAsReviewed
\* The same of the other machines: what they decide rests on evidence that is complete and current, and
\* what they arm, execute or submit was authorized.
OthersAct == [][OthersActOnEvidence /\ OthersActAsAuthorized]_vars

\* The machines that are asked for what takes them several steps; part never changes.
LASTING == {"snap", "inc", "crypto", "fx", "stock", "feeds"}
Asked ==
  \/ part = "snap" /\ Snap!Waiting
  \/ part = "inc" /\ Inc!WatchdogHeld
  \/ part = "crypto" /\ Crypto!ExitAsked
  \/ part = "fx" /\ FX!ExitAsked
  \/ part = "stock" /\ Stock!Unprotected
  \/ part = "feeds" /\ Feeds!Owed
Settled ==
  \/ part = "snap" /\ Snap!Ended
  \/ part = "inc" /\ Inc!WatchdogReleased
  \/ part = "crypto" /\ Crypto!ExitEnded
  \/ part = "fx" /\ FX!ExitEnded
  \/ part = "stock" /\ Stock!Protected
  \/ part = "feeds" /\ Feeds!Over
\* What was asked of a machine is settled in the end.
\* Snap: Every snapshot ends, published or superseded, although numbered replies are lost; one whose
\* unnumbered reply was lost, or whose request raised, waits for the next connection.
\* Inc: After a missed heartbeat the engine's own evidence releases the restriction: nobody has to.
\* Crypto: A stop that was touched once sells in the end, also when the run was disarmed or the
\* process restarted since: unless an exit was rejected or nobody knows whether an order was sent.
\* FX: Once the exit of an entry was asked, what is owned of that entry is sold in the end, also
\* what was filled after the position had been flat or after a restart.
\* Stock: The stop follows the fills in the end, unless it had begun to execute or an amendment
\* raised, which is not repeated: nobody knows whether the broker was told.
\* Feeds: The history that was asked for is complete in the end, or has failed for good, or is no
\* longer wanted: a broker that never answers cannot keep it open.
WorkIsSettled == part \in LASTING => (Asked ~> Settled)
=============================================================================
