----------------------------- MODULE CryptoTrade -----------------------------
(***************************************************************************)
(* One crypto breakout run on the paper broker (crypto_engine.py): a       *)
(* candle arms a trigger, a crossing trade latches it and buys with an     *)
(* immediate-or-cancel market order, and a stop that only this process     *)
(* watches sells what is owned.  Every durable write is a step, so that    *)
(* the process may stop between any two of them.                           *)
(***************************************************************************)
EXTENDS Integers, Sequences, FiniteSets, FiniteSetsExt

CONSTANTS Units,     \* what a full entry buys
          MaxOrders, \* bound: orders
          Budgets    \* bounds: [arms, restarts, refusals]: authorizations, restarts, and exits the
                     \* broker rejects or submissions that raise

VARIABLES
  run,       \* durable: [armed, auth, entries]
  trigger,   \* durable, crypto_trigger: [state, auth]
  orders,    \* durable, outbox: [purpose, auth, quantity, state]
  known,     \* durable: executed quantity the engine knows, per order
  seen,      \* durable: filled quantity in the broker's order document, per order
  broker,    \* per order: [status, filled]
  exiting,   \* durable, exit_request
  plan,      \* durable, crypto_protection: [entry, quantity]
  trial,     \* durable, crypto_trial: [entry, observed]; qualification crypto_paper
  link,      \* [agreement, reconciled, fresh]
  task,      \* the engine's call in progress: [at, order]
  bounds

vars == <<run, trigger, orders, known, seen, broker, exiting, plan, trial, link, task, bounds>>

TERMINAL_STATES == {"filled", "cancelled", "rejected"}
Idle == [at |-> "idle", order |-> 0]
Orders == DOMAIN orders
SumOver(S, f) == MapThenSumSet(LAMBDA i : f[i], S)
Bought(f) == SumOver({i \in Orders : orders[i].purpose = "entry"}, f)
Sold(f)   == SumOver({i \in Orders : orders[i].purpose = "exit"}, f)
owned == Bought(known) - Sold(known)
Filled == [i \in Orders |-> broker[i].filled]
\* The entry that the position is from, 0 when nothing was bought.
EntryOf(k) == LET bought == {i \in Orders : orders[i].purpose = "entry" /\ k[i] > 0}
              IN IF bought = {} THEN 0 ELSE Max(bought)

Init ==
  /\ run = [armed |-> FALSE, auth |-> 0, entries |-> 0] /\ trigger = [state |-> "none", auth |-> 0]
  /\ orders = <<>> /\ known = <<>> /\ seen = <<>> /\ broker = <<>> /\ exiting = FALSE
  /\ plan = [entry |-> 0, quantity |-> 0]
  /\ trial = [entry |-> 0, observed |-> FALSE, qualified |-> FALSE]
  /\ link = [agreement |-> TRUE, reconciled |-> TRUE, fresh |-> TRUE]
  /\ task = Idle /\ bounds \in Budgets

Free == task = Idle
Doubted == [link EXCEPT !.agreement = FALSE, !.reconciled = FALSE]

-----------------------------------------------------------------------------
(* Authorization and trigger.                                              *)

Arm == /\ Free /\ ~run.armed /\ bounds.arms > 0 /\ bounds' = [bounds EXCEPT !.arms = @ - 1]
       /\ link.reconciled /\ owned = 0 /\ \A i \in Orders : orders[i].state \in TERMINAL_STATES
       /\ run' = [armed |-> TRUE, auth |-> run.auth + 1, entries |-> 0]
       /\ UNCHANGED <<trigger, orders, known, seen, broker, exiting, plan, trial, link, task>>

Disarm == /\ Free /\ run.armed /\ run' = [run EXCEPT !.armed = FALSE]
          /\ UNCHANGED <<trigger, orders, known, seen, broker, exiting, plan, trial, link, task, bounds>>

\* _crypto_candidate: the candle that just closed; its high may be passed already.
Candle ==
  /\ Free /\ run.armed /\ run.entries = 0
  /\ \E s \in {"monitoring", "skipped"} : trigger' = [state |-> s, auth |-> run.auth]
  /\ UNCHANGED <<run, orders, known, seen, broker, exiting, plan, trial, link, task, bounds>>

Expire == /\ Free /\ trigger.state = "monitoring" /\ trigger' = [trigger EXCEPT !.state = "expired"]
          /\ UNCHANGED <<run, orders, known, seen, broker, exiting, plan, trial, link, task, bounds>>

Watched == /\ run.armed /\ run.entries = 0 /\ trigger = [state |-> "monitoring", auth |-> run.auth]

\* A trade at or above the high: latched before anything is sent.
Cross ==
  /\ Free /\ link.agreement /\ owned = 0 /\ Watched
  /\ trigger' = [trigger EXCEPT !.state = IF link.fresh THEN "triggered" ELSE "skipped"]
  /\ task' = IF link.fresh THEN [at |-> "enter", order |-> 0] ELSE Idle
  /\ UNCHANGED <<run, orders, known, seen, broker, exiting, plan, trial, link, bounds>>

-----------------------------------------------------------------------------
(* The entry, write by write.                                              *)

Reserve(purpose, quantity) ==
  /\ Len(orders) < MaxOrders
  /\ orders' = Append(orders, [purpose |-> purpose, auth |-> run.auth, quantity |-> quantity,
                               state |-> "reserved"])
  /\ known' = Append(known, 0) /\ seen' = Append(seen, 0) /\ broker' = Append(broker, [status |-> "absent", filled |-> 0])

\* _crypto_enter: what a guard refuses disarms the run.
Enter ==
  /\ task.at = "enter"
  /\ IF link.reconciled /\ link.fresh /\ run.entries = 0
        /\ \A i \in Orders : orders[i].state \in TERMINAL_STATES
     THEN Reserve("entry", Units) /\ task' = [at |-> "count", order |-> Len(orders) + 1] /\ UNCHANGED run
     ELSE run' = [run EXCEPT !.armed = FALSE] /\ task' = Idle /\ UNCHANGED <<orders, known, seen, broker>>
  /\ UNCHANGED <<trigger, exiting, plan, trial, link, bounds>>

Count ==
  /\ task.at = "count" /\ run' = [run EXCEPT !.entries = @ + 1]
  /\ task' = [task EXCEPT !.at = "guard"]
  /\ UNCHANGED <<trigger, orders, known, seen, broker, exiting, plan, trial, link, bounds>>

SetState(i, s) == orders' = [orders EXCEPT ![i].state = s]

\* guard_entry_dispatch retires an entry that may not be sent any more; mark_dispatch for the rest.
Guard ==
  /\ task.at = "guard"
  /\ IF link.fresh \/ orders[task.order].purpose = "exit"
     THEN SetState(task.order, "dispatching") /\ task' = [task EXCEPT !.at = "submit"]
     ELSE SetState(task.order, "cancelled") /\ task' = Idle
  /\ UNCHANGED <<run, trigger, known, seen, broker, exiting, plan, trial, link, bounds>>

\* submit_crypto; a call that raises may or may not have reached the broker.
Submit ==
  /\ task.at = "submit" /\ task' = Idle /\ link' = Doubted
  /\ \/ /\ broker' = [broker EXCEPT ![task.order].status = "live"] /\ UNCHANGED <<orders, bounds>>
     \/ /\ bounds.refusals > 0 /\ bounds' = [bounds EXCEPT !.refusals = @ - 1]
        /\ SetState(task.order, "unknown")
        /\ \E s \in {"absent", "live"} : broker' = [broker EXCEPT ![task.order].status = s]
  /\ UNCHANGED <<run, trigger, known, seen, exiting, plan, trial>>

-----------------------------------------------------------------------------
(* The broker executes at once what it can, and cancels the rest.          *)

Execute ==
  /\ \E i \in Orders :
       /\ broker[i].status = "live"
       /\ \E q \in 0..orders[i].quantity : broker' = [broker EXCEPT ![i] = [status |-> "done", filled |-> q]]
  /\ UNCHANGED <<run, trigger, orders, known, seen, exiting, plan, trial, link, task, bounds>>

Reject ==
  /\ bounds.refusals > 0 /\ bounds' = [bounds EXCEPT !.refusals = @ - 1]
  /\ \E i \in Orders : broker[i].status = "live" /\ broker' = [broker EXCEPT ![i].status = "rejected"]
  /\ UNCHANGED <<run, trigger, orders, known, seen, exiting, plan, trial, link, task>>

Projected(i) == CASE broker[i].status = "rejected" -> "rejected"
                  [] broker[i].status = "done" /\ broker[i].filled = orders[i].quantity -> "filled"
                  [] broker[i].status = "done" -> "cancelled"
                  [] broker[i].status = "live" -> "working"
                  [] OTHER -> orders[i].state

\* A status, or an execution, on its own and in either order.
Status == /\ Free /\ \E i \in Orders : /\ orders[i].state # Projected(i) /\ SetState(i, Projected(i))
                                       /\ seen' = [seen EXCEPT ![i] = broker[i].filled]
          /\ UNCHANGED <<run, trigger, known, broker, exiting, plan, trial, link, task, bounds>>

\* _crypto_sync: the plan follows what is owned, and what entry it is from.
Synced(k, p) == IF Bought(k) = 0 THEN p
                ELSE [entry |-> EntryOf(k), quantity |-> Bought(k) - Sold(k)]

Execution ==
  /\ Free /\ \E i \in Orders : known[i] # broker[i].filled /\ known' = [known EXCEPT ![i] = broker[i].filled]
  /\ link' = Doubted /\ plan' = Synced(known', plan)
  /\ UNCHANGED <<run, trigger, orders, seen, broker, exiting, trial, task, bounds>>

-----------------------------------------------------------------------------
(* Reconciliation: every execution and every order, and what follows.      *)

ValidProtection(p, k, agreed) ==
  agreed /\ link.fresh /\ p.entry # 0 /\ p.quantity = k /\ k > 0

\* _crypto_reconciled: a trade is complete, and the account qualified, after its protection was
\* seen while it was owned and nothing is left of it.
Trialled(position, done, valid) ==
  IF done = 0 THEN trial
  ELSE IF position > 0
       THEN [trial EXCEPT !.entry = done, !.observed = (trial.entry = done /\ trial.observed) \/ valid]
       ELSE [trial EXCEPT !.qualified = @ \/ (trial.entry = done /\ trial.observed)]

Reconcile ==
  /\ Free /\ known' = Filled /\ seen' = Filled /\ orders' = [i \in Orders |-> [orders[i] EXCEPT !.state = Projected(i)]]
  /\ LET position == Bought(Filled) - Sold(Filled)
         last     == {i \in Orders : orders[i].purpose = "entry" /\ orders[i].auth = run.auth
                                     /\ orders'[i].state \in TERMINAL_STATES}
         done     == IF last = {} THEN 0 ELSE CHOOSE i \in last : TRUE
         p        == Synced(Filled, plan)
         certain  == \A i \in Orders : orders'[i].state \in TERMINAL_STATES
         valid    == certain /\ ValidProtection(p, position, TRUE)
     IN /\ plan' = p /\ exiting' = (exiting /\ position > 0)
        /\ link' = [link EXCEPT !.agreement = TRUE,
                                !.reconciled = certain /\ (position > 0 => valid)]
        /\ trial' = (IF link'.reconciled THEN Trialled(position, done, valid) ELSE trial)
        /\ run' = [run EXCEPT !.armed = @ /\ ~(link'.reconciled /\ done # 0 /\ position = 0)]
  /\ UNCHANGED <<trigger, broker, task, bounds>>

-----------------------------------------------------------------------------
(* The exit.                                                               *)

Rejected == \E i \in Orders : orders[i].purpose = "exit" /\ orders[i].state = "rejected"
Busy == \E i \in Orders : orders[i].state \notin TERMINAL_STATES

\* _fill_agreement_issues: what the documents say was filled, the executions say too.
FillsAgree == \A i \in Orders : seen[i] = known[i]
Sellable == FillsAgree /\ owned > 0 /\ link.agreement /\ link.fresh /\ ~Busy /\ ~Rejected /\ Len(orders) < MaxOrders

\* _crypto_close: the request is durable first; what cannot be sent now is tried again.
Close ==
  /\ exiting' = TRUE
  /\ IF Sellable
     THEN Reserve("exit", owned) /\ task' = [at |-> "guard", order |-> Len(orders) + 1]
     ELSE UNCHANGED <<orders, known, seen, broker, task>>
  /\ UNCHANGED <<run, trigger, plan, trial, link, bounds>>

\* A trade at or below the stop, or the operator, or the end of the session.
StopTouched == /\ Free /\ link.agreement /\ ~exiting
               /\ ValidProtection(plan, owned, link.agreement) /\ Close
AskExit == Free /\ ~exiting /\ owned > 0 /\ Close
RetryExit_Armed == Free /\ run.armed /\ exiting /\ Sellable /\ Close
\* _clock_evaluations: a pending request of an owned position is tried every second.
RetryExit == Free /\ exiting /\ Sellable /\ Close

Quotes == /\ Free /\ link' = [link EXCEPT !.fresh = ~@]
          /\ UNCHANGED <<run, trigger, orders, known, seen, broker, exiting, plan, trial, task, bounds>>

\* The process stops, whatever it was doing, and starts: nothing that was not recorded as sent is
\* taken as unsent.
Restart ==
  /\ bounds.restarts > 0 /\ bounds' = [bounds EXCEPT !.restarts = @ - 1]
  /\ run' = [run EXCEPT !.armed = FALSE] /\ task' = Idle /\ link' = Doubted
  /\ orders' = [i \in Orders |-> IF orders[i].state \in {"reserved", "dispatching"}
                                 THEN [orders[i] EXCEPT !.state = "unknown"] ELSE orders[i]]
  /\ UNCHANGED <<trigger, known, seen, broker, exiting, plan, trial>>

Next == \/ Arm \/ Disarm \/ Candle \/ Expire \/ Cross \/ Enter \/ Count \/ Guard \/ Submit \/ Execute
        \/ Reject \/ Status \/ Execution \/ Reconcile \/ StopTouched \/ AskExit \/ RetryExit
        \/ Quotes \/ Restart

Spec == Init /\ [][Next]_vars

-----------------------------------------------------------------------------
Advance == Guard \/ Submit
Fair == SF_vars(RetryExit) /\ WF_vars(Advance) /\ WF_vars(Execute) /\ SF_vars(Reconcile)

TypeOK == /\ plan.entry # 0 => orders[plan.entry].purpose = "entry"
          /\ plan.quantity \in 0..Units /\ owned \in 0..Units
          /\ \A i \in Orders : known[i] \in {0, broker[i].filled}

\* What may still be sold never exceeds what was bought, although executions and statuses arrive in
\* either order and a process stops between a write and the call it stands for.
NeverOversold == Bought(Filled) - Sold(Filled) >=
  SumOver({i \in Orders : orders[i].purpose = "exit" /\ broker[i].status \in {"absent", "live"}
                          /\ orders[i].state \notin TERMINAL_STATES},
          [i \in Orders |-> orders[i].quantity])

\* The ceiling is raised only by a whole trade: bought, seen protected, and sold again.
QualifiedByTrade == trial'.qualified /\ ~trial.qualified =>
  /\ \E i \in Orders : orders[i].purpose = "entry" /\ broker[i].filled > 0
  /\ Bought(Filled) = Sold(Filled)

Uncertain == \E i \in Orders : orders[i].state = "unknown" /\ broker[i].status = "absent"
ExitAsked == exiting /\ owned > 0
ExitEnded == owned = 0 \/ Rejected \/ Uncertain \/ ~link.fresh \/ Len(orders) = MaxOrders

\* A stop that was touched once sells in the end, also when the run was disarmed or the process
\* restarted since: unless an exit was rejected or nobody knows whether an order was sent.
ExitIsCarriedOut == ExitAsked ~> ExitEnded
=============================================================================
