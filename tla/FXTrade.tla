------------------------------- MODULE FXTrade -------------------------------
(***************************************************************************)
(* One spot FX breakout run on the paper broker (fx_engine.py): a market   *)
(* entry, one stop at the broker (or a stop this process watches) for what *)
(* was bought so far, and an exit that waits until every other order of    *)
(* the entry has ended and a reconciliation that began after that has seen *)
(* it.  A call of the engine is a sequence of steps, one for each durable  *)
(* write, so that the process may stop between two of them.                *)
(***************************************************************************)
EXTENDS Integers, Sequences, FiniteSets, FiniteSetsExt

CONSTANTS MaxOrders, \* bound: orders
          Budgets    \* bounds: [arms, restarts, raises, late, quiet, exits], units, what a full entry buys,
                     \* and local, which stop the run uses

VARIABLES
  run,       \* durable: [armed, auth, entries]
  pending,   \* _fx_credit_signals: authorization of a signal that waits for credit, 0 none
  orders,    \* durable, outbox: [purpose, auth, quantity, state]
  known,     \* durable: executed quantity the engine knows, per order
  seen,      \* durable, broker_order: [ended, filled] per order
  broker,    \* per order: [status, filled]
  cancels,   \* durable, cancel_request: orders whose cancellation was asked
  exiting,   \* durable, exit_request
  intent,    \* durable, fx_exit_intent: the entry whose exit was asked, 0 none
  account,   \* _fx_account_evidence of this connection
  fresh,     \* quotes
  reconciled,
  rec,       \* reconciliation under way: [on, current, cover]
  evidence,  \* the last one that finished: [current, cover, balance]
  task,      \* the engine's call in progress: [at, order, then]
  bounds

vars == <<run, pending, orders, known, seen, broker, cancels, exiting, intent, account, fresh,
          reconciled, rec, evidence, task, bounds>>
world == <<run, pending, broker, account, fresh, bounds>>

TERMINAL == {"filled", "cancelled", "rejected"}
Idle == [at |-> "idle", order |-> 0, then |-> "idle"]
Free == task = Idle
Orders == DOMAIN orders
SumOver(S, f) == MapThenSumSet(LAMBDA i : f[i], S)
Entries == {i \in Orders : orders[i].purpose = "entry"}
Net(f) == SumOver(Entries, f) - SumOver(Orders \ Entries, f)
owned == Net(known)
Filled == [i \in Orders |-> broker[i].filled]
Entry == IF Entries = {} THEN 0 ELSE Max(Entries)
Ended(i) == orders[i].state \in TERMINAL
ActiveSells == {i \in Orders \ Entries : ~Ended(i)}
NoEvidence == [current |-> FALSE, cover |-> {}, balance |-> 0]
NotBegun == [on |-> FALSE, current |-> FALSE, cover |-> {}]

Init ==
  /\ run = [armed |-> FALSE, auth |-> 0, entries |-> 0] /\ pending = 0 /\ orders = <<>>
  /\ known = <<>> /\ seen = <<>> /\ broker = <<>> /\ cancels = {} /\ exiting = FALSE /\ intent = 0
  /\ account = FALSE /\ fresh = TRUE /\ reconciled = TRUE /\ rec = NotBegun
  /\ evidence = NoEvidence /\ task = Idle /\ bounds \in Budgets

\* _fx_checks: what an entry needs now.
Ready == fresh /\ reconciled

\* What was collected before stands for nothing after: _evidence_revision moves.
invalidate_reconciliation ==
  /\ reconciled' = FALSE /\ rec' = [rec EXCEPT !.current = FALSE]
  /\ evidence' = [evidence EXCEPT !.current = FALSE]

-----------------------------------------------------------------------------
(* Authorization, signal and entry.                                        *)

Arm == /\ Free /\ ~run.armed /\ bounds.arms > 0 /\ bounds' = [bounds EXCEPT !.arms = @ - 1]
       /\ reconciled /\ owned = 0 /\ \A i \in Orders : Ended(i)
       /\ run' = [armed |-> TRUE, auth |-> run.auth + 1, entries |-> 0]
       /\ UNCHANGED <<pending, orders, known, seen, broker, cancels, exiting, intent, account, fresh,
                      reconciled, rec, evidence, task>>

\* (Taken only where another authorization can follow.)
Disarm == /\ Free /\ run.armed /\ bounds.arms > 0 /\ run' = [run EXCEPT !.armed = FALSE]
          /\ UNCHANGED <<pending, orders, known, seen, broker, cancels, exiting, intent, account, fresh,
                         reconciled, rec, evidence, task, bounds>>

\* A crossing: credit that is not assessed yet keeps the signal for the next maintenance.
Signal ==
  /\ Free /\ run.armed /\ run.entries = 0 /\ pending = 0
  /\ \/ pending' = run.auth /\ UNCHANGED task
     \/ Ready /\ task' = [Idle EXCEPT !.at = "enter", !.order = run.auth] /\ UNCHANGED pending
  /\ UNCHANGED <<run, orders, known, seen, broker, cancels, exiting, intent, account, fresh,
                 reconciled, rec, evidence, bounds>>

RetrySignal_AnyAuthorization ==
  /\ Free /\ pending # 0 /\ pending' = 0
  /\ task' = IF run.armed /\ run.entries = 0 /\ Ready
             THEN [Idle EXCEPT !.at = "enter", !.order = pending] ELSE task
  /\ UNCHANGED <<run, orders, known, seen, broker, cancels, exiting, intent, account, fresh,
                 reconciled, rec, evidence, bounds>>
\* _fx_maintain: a kept signal is dropped when its authorization is gone or used.
RetrySignal ==
  /\ Free /\ pending # 0 /\ pending' = 0
  /\ task' = IF run.armed /\ run.entries = 0 /\ pending = run.auth /\ Ready
             THEN [Idle EXCEPT !.at = "enter", !.order = pending] ELSE task
  /\ UNCHANGED <<run, orders, known, seen, broker, cancels, exiting, intent, account, fresh,
                 reconciled, rec, evidence, bounds>>

Reserve(purpose, quantity, auth, state) ==
  /\ orders' = Append(orders, [purpose |-> purpose, auth |-> auth, quantity |-> quantity,
                               state |-> state])
  /\ known' = Append(known, 0) /\ seen' = Append(seen, [ended |-> FALSE, filled |-> 0])
  /\ broker' = Append(broker, [status |-> "absent", filled |-> 0])

\* The reservation consumes the authorization in the same transaction.
Enter ==
  /\ task.at = "enter" /\ Len(orders) < MaxOrders /\ Reserve("entry", bounds.units, task.order, "reserved")
  /\ run' = [run EXCEPT !.entries = @ + 1] /\ task' = [task EXCEPT !.at = "guard", !.order = Len(orders) + 1]
  /\ UNCHANGED <<pending, cancels, exiting, intent, account, fresh, reconciled, rec, evidence, bounds>>

SetState(i, s) == orders' = [orders EXCEPT ![i].state = s]

\* guard_entry_dispatch, then mark_dispatch.  (A sell is marked right after it is reserved.)
Guard ==
  /\ task.at = "guard"
  /\ \/ SetState(task.order, "dispatching") /\ task' = [task EXCEPT !.at = "submit"]
     \/ ~fresh /\ SetState(task.order, "cancelled") /\ task' = Idle
  /\ UNCHANGED <<world, known, seen, cancels, exiting, intent, reconciled, rec, evidence>>

\* _fx_transmit: a call that raises may or may not have reached the broker.
Submit ==
  /\ task.at = "submit" /\ task' = [Idle EXCEPT !.at = task.then, !.then = "idle"]
  /\ invalidate_reconciliation
  /\ \/ broker' = [broker EXCEPT ![task.order].status = "live"] /\ UNCHANGED <<orders, bounds>>
     \/ /\ bounds.raises > 0 /\ bounds' = [bounds EXCEPT !.raises = @ - 1]
        /\ SetState(task.order, "unknown")
        /\ \E s \in {"absent", "live"} : broker' = [broker EXCEPT ![task.order].status = s]
  /\ UNCHANGED <<run, pending, known, seen, cancels, exiting, intent, account, fresh>>

-----------------------------------------------------------------------------
(* The broker.                                                             *)

\* An order is filled unit by unit; an entry also after the broker reported it cancelled.
Fill ==
  /\ \E i \in Orders :
       /\ \/ broker[i].status = "live"
          \/ broker[i].status = "cancelled" /\ i \in Entries /\ bounds.late > 0
       /\ broker[i].filled < orders[i].quantity
       /\ bounds' = IF broker[i].status = "live" THEN bounds ELSE [bounds EXCEPT !.late = @ - 1]
       /\ LET q == broker[i].filled + 1
          IN broker' = [broker EXCEPT ![i].filled = q,
                                      ![i].status = IF q = orders[i].quantity THEN "filled" ELSE @]
  /\ UNCHANGED <<run, pending, orders, known, seen, cancels, exiting, intent, account, fresh,
                 reconciled, rec, evidence, task>>

\* What an IOC or a GTD order leaves unfilled, and what was asked to be cancelled.
Cancelled ==
  /\ \E i \in Orders : /\ broker[i].status = "live" /\ (orders[i].purpose # "protection" \/ i \in cancels)
                       /\ broker' = [broker EXCEPT ![i].status = "cancelled"]
  /\ UNCHANGED <<run, pending, orders, known, seen, cancels, exiting, intent, account, fresh,
                 reconciled, rec, evidence, task, bounds>>

-----------------------------------------------------------------------------
(* What the engine is told, in any order, and what it does about it.       *)

Projected(i) == CASE broker[i].status = "live" -> IF i \in cancels THEN "cancel_pending" ELSE "working"
                  [] broker[i].status = "absent" -> orders[i].state
                  [] OTHER -> broker[i].status
Shown(i) == [ended |-> broker[i].status \in TERMINAL, filled |-> broker[i].filled]

Status ==
  /\ Free
  /\ \E i \in Orders :
       /\ broker[i].status # "absent" /\ (seen[i] # Shown(i) \/ orders[i].state # Projected(i))
       /\ SetState(i, Projected(i)) /\ seen' = [seen EXCEPT ![i] = Shown(i)]
       /\ reconciled' = FALSE
       /\ rec' = [rec EXCEPT !.current = @ /\ ~reconciled, !.cover = @ \ {i}]
       /\ evidence' = [evidence EXCEPT !.current = @ /\ ~reconciled, !.cover = @ \ {i}]
  /\ account' = TRUE
  /\ UNCHANGED <<run, pending, known, broker, cancels, exiting, intent, fresh, task, bounds>>

\* Executions are kept by their identity.
Recorded(i) == broker[i].filled
Execution ==
  /\ Free /\ \E i \in Orders : known[i] < broker[i].filled /\ known' = [known EXCEPT ![i] = Recorded(i)]
  /\ account' = TRUE /\ invalidate_reconciliation /\ task' = [Idle EXCEPT !.at = "sync"]
  /\ UNCHANGED <<run, pending, orders, seen, broker, cancels, exiting, intent, fresh, bounds>>

FillsAgree == \A i \in Orders : seen[i].filled = known[i]
\* _fx_ownership_agrees, and _fx_cash_issues: the currency balance is what the executions leave.
OwnershipAgrees == evidence.balance = owned
CashAgrees == FillsAgree /\ OwnershipAgrees
ReplacementReady_Uncovered(S) == \A i \in S : Ended(i)
\* _fx_replacement_ready: ended, and a reconciliation that began after the end agrees.
ReplacementReady(S) == /\ evidence.current /\ OwnershipAgrees /\ FillsAgree
                       /\ \A i \in S : Ended(i) /\ i \in evidence.cover

OfEntry == {i \in Orders : i >= Entry}
\* _fx_sell: of all that is owned; beside another sell it raises, and the call ends there.
Sell(purpose) ==
  \/ /\ ActiveSells = {} /\ Reserve(purpose, owned, 0, "dispatching")
     /\ task' = [task EXCEPT !.at = "submit", !.order = Len(orders) + 1]
  \/ ActiveSells # {} /\ task' = Idle /\ UNCHANGED <<orders, known, seen, broker>>
\* Otherwise the call goes on.
NoSell == UNCHANGED <<orders, known, seen, broker>> /\ task' = [task EXCEPT !.at = task.then, !.then = "idle"]

\* _fx_exit_maintain: what competes is cancelled, and the exit sent when it has ended.
ExitStep ==
  /\ cancels' = cancels \cup {i \in OfEntry : /\ orders[i].state \in {"working", "dispatching", "reserved"}
                                              /\ orders[i].purpose # "exit"}
  /\ IF ReplacementReady(OfEntry) /\ fresh /\ Len(orders) < MaxOrders
        /\ (reconciled \/ \A i \in OfEntry : orders[i].state # "rejected")
     THEN Sell("exit") ELSE NoSell

Resized == {i \in ActiveSells : orders[i].quantity # owned}
\* _fx_protect: one stop for what is owned; another only after the one before it has ended.
ProtectStep ==
  /\ cancels' = cancels \cup Resized \cup (IF Ended(Entry) THEN {} ELSE {Entry})
  /\ LET old == Orders \ Entries
     IN IF ~bounds.local /\ ActiveSells = {} /\ (old = {} \/ ReplacementReady(old)) /\ Len(orders) < MaxOrders
        THEN Sell("protection") ELSE NoSell

\* A fill of an entry whose exit was asked: the exit goes on.
Resumed == owned > 0 /\ intent = Entry

\* _fx_sync, at the end of a handler or at the next maintenance.
Sync ==
  /\ task.at = "sync" \/ (Free /\ Entry # 0)
  /\ exiting' = (exiting \/ Resumed)
  /\ IF owned > 0 /\ account
     THEN (IF exiting' THEN ExitStep ELSE ProtectStep) /\ UNCHANGED run
     ELSE /\ run' = [run EXCEPT !.armed = @ /\ ~(owned = 0 /\ Entry # 0 /\ Ended(Entry) /\ reconciled)]
          /\ NoSell /\ UNCHANGED cancels
  /\ UNCHANGED <<pending, intent, account, fresh, reconciled, rec, evidence, bounds>>

\* _fx_request_exit: the operator, the end of the session, or the local stop; two writes.
RequestExit ==
  /\ Free /\ owned > 0 /\ ~exiting /\ exiting' = TRUE /\ run' = [run EXCEPT !.armed = FALSE]
  /\ bounds.exits > 0 /\ bounds' = [bounds EXCEPT !.exits = @ - 1]
  /\ task' = [Idle EXCEPT !.at = "intend"]
  /\ UNCHANGED <<pending, orders, known, seen, broker, cancels, intent, account, fresh, reconciled, rec, evidence>>
Intend == /\ task.at = "intend" /\ intent' = Entry /\ task' = [task EXCEPT !.at = "sync"]
          /\ UNCHANGED <<world, orders, known, seen, cancels, exiting, reconciled, rec, evidence>>

-----------------------------------------------------------------------------
(* Reconciliation, process and quotes.                                     *)

BeginReconcile ==
  /\ Free /\ ~rec.on
  /\ rec' = [on |-> TRUE, current |-> TRUE, cover |-> {i \in Orders : seen[i].ended \/ orders[i].state = "cancelled"}]
  /\ UNCHANGED <<world, orders, known, seen, cancels, exiting, intent, reconciled, evidence, task>>

\* The executions of the snapshot, then _fx_sync with the evidence of the one before.
Collect ==
  /\ Free /\ rec.on
  /\ known' = Filled
  /\ rec' = [rec EXCEPT !.current = @ /\ known' = known, !.on = FALSE]
  /\ evidence' = [evidence EXCEPT !.current = @ /\ known' = known, !.balance = Net(Filled)]
  /\ reconciled' = (reconciled /\ known' = known)
  /\ task' = [Idle EXCEPT !.at = "sync", !.then = "finish"]
  /\ account' = (account \/ \E i \in Orders : broker[i].status # "absent")
  /\ UNCHANGED <<run, pending, orders, seen, broker, cancels, exiting, intent, fresh, bounds>>

Protected == IF bounds.local THEN fresh
             ELSE /\ Cardinality(ActiveSells) = 1
                  /\ \A i \in ActiveSells : /\ orders[i].purpose = "protection" /\ orders[i].quantity = owned
                                            /\ orders[i].state = "working"

Finish ==
  /\ task.at = "finish" /\ task' = Idle
  /\ evidence' = [evidence EXCEPT !.current = rec.current, !.cover = rec.cover]
  /\ reconciled' = /\ CashAgrees
                   /\ \A i \in Orders : orders[i].state \notin {"unknown", "dispatching", "cancel_pending"}
                   /\ owned > 0 => ~exiting /\ Protected
  /\ exiting' = (exiting /\ owned > 0)
  /\ UNCHANGED <<world, orders, known, seen, cancels, intent, rec>>

Quotes == /\ Free /\ (fresh => bounds.quiet > 0) /\ fresh' = ~fresh
          /\ bounds' = IF fresh THEN [bounds EXCEPT !.quiet = @ - 1] ELSE bounds
          /\ UNCHANGED <<run, pending, orders, known, seen, broker, cancels, exiting, intent, account,
                         reconciled, rec, evidence, task>>

\* The process stops, whatever it was doing, and starts.
Restart ==
  /\ bounds.restarts > 0 /\ bounds' = [bounds EXCEPT !.restarts = @ - 1]
  /\ run' = [run EXCEPT !.armed = FALSE] /\ pending' = 0 /\ task' = Idle /\ account' = FALSE
  /\ reconciled' = FALSE /\ rec' = NotBegun /\ evidence' = NoEvidence
  /\ orders' = [i \in Orders |-> IF orders[i].state \in {"reserved", "dispatching"}
                                 THEN [orders[i] EXCEPT !.state = "unknown"] ELSE orders[i]]
  /\ UNCHANGED <<known, seen, broker, cancels, exiting, intent, fresh>>

Next == \/ Arm \/ Disarm \/ Signal \/ RetrySignal \/ Enter \/ Guard \/ Submit \/ Fill \/ Cancelled \/ Status
        \/ Execution \/ Sync \/ RequestExit \/ Intend \/ BeginReconcile \/ Collect \/ Finish
        \/ Quotes \/ Restart

Spec == Init /\ [][Next]_vars
-----------------------------------------------------------------------------
\* The loop runs, and the broker answers.
Advance == Guard \/ Submit \/ Finish
Fair == /\ SF_vars(Sync) /\ WF_vars(Advance) /\ WF_vars(Fill) /\ WF_vars(Cancelled) /\ SF_vars(Status)
        /\ SF_vars(Execution) /\ SF_vars(BeginReconcile) /\ SF_vars(Collect)

TypeOK == /\ owned \in 0..bounds.units /\ evidence.balance \in 0..bounds.units /\ intent \in 0..Len(orders)
          /\ cancels \subseteq Orders /\ \A i \in Orders : known[i] <= broker[i].filled

\* The sells that may still execute never exceed what the broker says is left: not while a stop is
\* replaced, an exit competes with it, a submission was lost or the process restarted.
SellsAreCovered == Net(Filled) >=
  SumOver({i \in Orders \ Entries : broker[i].status \in {"absent", "live"} /\ ~Ended(i)},
          [i \in Orders |-> orders[i].quantity - broker[i].filled])

\* A signal kept for one authorization never enters under another.
SignalOfAuthorization == Len(orders') > Len(orders) /\ orders'[Len(orders')].purpose = "entry"
                           => orders'[Len(orders')].auth = run.auth

Lost == \E i \in Orders : orders[i].state = "unknown" /\ broker[i].status = "absent"
ExitAsked == intent # 0 /\ intent = Entry /\ owned > 0
ExitEnded == owned = 0 \/ Lost \/ ~fresh \/ Len(orders) = MaxOrders

\* Once the exit of an entry was asked, what is owned of that entry is sold in the end, also what was
\* filled after the position had been flat or after a restart.
ExitIsCarriedOut == ExitAsked ~> ExitEnded
=============================================================================
