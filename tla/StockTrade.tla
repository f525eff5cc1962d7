------------------------------ MODULE StockTrade ------------------------------
(***************************************************************************)
(* One stock breakout run whose stop the broker holds (stock_engine.py): a *)
(* crossing trade buys with a bracket, perhaps after waiting for credit;   *)
(* the fills decide how many shares the stop must cover and at what price, *)
(* so the child of the bracket is amended after them; a complete protected *)
(* trade qualifies the plan for more than one share.                       *)
(***************************************************************************)
EXTENDS Integers, FiniteSets, Sequences

CONSTANTS Shares,   \* what a qualified entry buys
          Prices,   \* what a share may fill at; the ask the entry was sized at is 1
          Budgets   \* bounds: [arms, changes, raises, waiting, raised, qualified]: authorizations, changes of
                    \* the market or of the rules, amendments that raise, and that wait; qualified from the start

VARIABLES
  run,         \* durable: [armed, auth, entries]
  trigger,     \* durable, stock_trigger: [state, auth]
  market,      \* [binding, open, fresh, funds]: what the checks look at
  entry,       \* durable, the outbox row and its reservation: [state, quantity, auth, notional]
  plan,        \* durable, stock_protection: [quantity, stop]
  amendment,   \* durable, stock_amendment: [quantity, stop] or None
  known,       \* durable, executions: [bought, paid, sold]
  seen,        \* the stop child's document: [status, quantity, stop, filled]
  broker,      \* parent [status, bought, paid, cancelling] and child [status, quantity, stop, filled]
  wire,        \* amendments on their way to the broker
  link,        \* [agreement, reconciled]
  trial,       \* durable, stock_trial of the entry and stock_qualification: [protected, qualified]
  bounds
vars == <<run, trigger, market, entry, plan, amendment, known, seen, broker, wire, link, trial, bounds>>

None == [quantity |-> 0, stop |-> 0]
NoFills == [bought |-> 0, paid |-> 0, sold |-> 0]
NoChild == [status |-> "absent", quantity |-> 0, stop |-> 0, filled |-> 0]
NoOrders == [status |-> "absent", bought |-> 0, paid |-> 0, cancelling |-> FALSE, child |-> NoChild]
Finished == {"filled", "cancelled", "rejected", "none"}
ACTIVE == {"Submitted", "PreSubmitted"}

\* protection_price: one per cent below the average, here named by twice the average.
Stop(f) == (2 * f.paid) \div f.bought
Owned(f) == f.bought - f.sold
Truth == [bought |-> broker.bought, paid |-> broker.paid, sold |-> broker.child.filled]

Init ==
  /\ run = [armed |-> FALSE, auth |-> 0, entries |-> 0] /\ trigger = [state |-> "none", auth |-> 0]
  /\ market = [binding |-> TRUE, open |-> TRUE, fresh |-> TRUE, funds |-> "ready"]
  /\ entry = [state |-> "none", quantity |-> 0, auth |-> 0, notional |-> 0]
  /\ plan = None /\ amendment = None /\ known = NoFills /\ seen = NoChild /\ broker = NoOrders /\ wire = <<>>
  /\ link = [agreement |-> TRUE, reconciled |-> TRUE] /\ bounds \in Budgets
  /\ trial = [protected |-> FALSE, qualified |-> bounds.qualified]

Spend(b) == bounds[b] > 0 /\ bounds' = [bounds EXCEPT ![b] = @ - 1]
Disarmed(r) == [r EXCEPT !.armed = FALSE]

-----------------------------------------------------------------------------
(* The market and the rules.                                               *)

\* stock_rules, stock_fee: new evidence; a run whose binding is no longer the reviewed one is disarmed.
RulesChange ==
  /\ market.binding /\ Spend("changes")
  /\ market' = [market EXCEPT !.binding = FALSE] /\ run' = Disarmed(run)
  /\ UNCHANGED <<trigger, entry, plan, amendment, known, seen, broker, wire, link, trial>>
\* A new binding is prepared for the run, which nothing may hold by then.
Bind ==
  /\ ~market.binding /\ ~run.armed /\ Owned(known) = 0 /\ entry.state \in Finished
  /\ market' = [market EXCEPT !.binding = TRUE] /\ trial' = [trial EXCEPT !.qualified = FALSE]
  /\ UNCHANGED <<run, trigger, entry, plan, amendment, known, seen, broker, wire, link, bounds>>

MarketMoves ==
  /\ Spend("changes")
  /\ \E m \in {[market EXCEPT !.open = ~@], [market EXCEPT !.fresh = ~@]}
              \cup {[market EXCEPT !.funds = f] : f \in {"ready", "checking", "short"} \ {market.funds}} :
       market' = m
  /\ UNCHANGED <<run, trigger, entry, plan, amendment, known, seen, broker, wire, link, trial>>

\* The contract, its rules and its route still are what the binding was prepared for.
Compatible == market.binding
\* The broker's credit, or settled cash of the currency, less what other runs have reserved of it.
Funded == market.funds = "ready"
\* The stages of the review, each of which needs the one before it.
Checks == Compatible /\ market.open /\ market.fresh /\ Funded

Arm ==
  /\ ~run.armed /\ link.reconciled /\ Checks /\ Owned(known) = 0 /\ entry.state \in Finished /\ Spend("arms")
  /\ run' = [armed |-> TRUE, auth |-> run.auth + 1, entries |-> 0]
  /\ UNCHANGED <<trigger, market, entry, plan, amendment, known, seen, broker, wire, link, trial>>

\* _crypto_candidate, namespace stock: the candle that closed arms the trigger, or finds it passed.
Candle ==
  /\ run.armed /\ run.entries = 0 /\ trigger.auth # run.auth
  /\ \E s \in {"monitoring", "skipped"} : trigger' = [state |-> s, auth |-> run.auth]
  /\ UNCHANGED <<run, market, entry, plan, amendment, known, seen, broker, wire, link, trial, bounds>>
Expire ==
  /\ trigger.state \in {"monitoring", "credit_wait"} /\ trigger' = [trigger EXCEPT !.state = "expired"]
  /\ UNCHANGED <<run, market, entry, plan, amendment, known, seen, broker, wire, link, trial, bounds>>

-----------------------------------------------------------------------------
(* The crossing and the entry.                                             *)

\* An unqualified plan buys one share.
Size == IF trial.qualified THEN Shares ELSE 1
Watched == run.armed /\ run.entries = 0 /\ trigger.state \in {"monitoring", "credit_wait"} /\ trigger.auth = run.auth

Enter ==
  /\ run' = [run EXCEPT !.entries = 1]
  /\ entry' = [state |-> "working", quantity |-> Size, auth |-> run.auth, notional |-> Size]
  /\ plan' = None /\ amendment' = None /\ known' = NoFills /\ trial' = [trial EXCEPT !.protected = FALSE]
  /\ broker' = [status |-> "live", bought |-> 0, paid |-> 0, cancelling |-> FALSE,
                child |-> [status |-> "PreSubmitted", quantity |-> Size, stop |-> 2, filled |-> 0]]
  /\ seen' = broker'.child /\ wire' = <<>> /\ link' = [link EXCEPT !.reconciled = FALSE]

\* A trade at or above the high. A stale one skips the candle; pending credit waits for a later
\* trade under the same trigger; anything else that is refused disarms the run.
Crossing ==
  /\ link.agreement /\ market.open /\ Owned(known) = 0 /\ Watched
  /\ LET skipped == trigger.state = "monitoring" /\ ~market.fresh
         refused == ~link.reconciled \/ ~market.fresh \/ market.funds = "short" \/ entry.state \notin Finished
     IN CASE skipped -> trigger' = [trigger EXCEPT !.state = "skipped"]
                        /\ UNCHANGED <<run, entry, plan, amendment, known, seen, broker, wire, link, trial>>
          [] ~skipped /\ refused ->
               /\ run' = Disarmed(run) /\ trigger' = [trigger EXCEPT !.state = IF @ = "monitoring" THEN "triggered" ELSE @]
               /\ UNCHANGED <<entry, plan, amendment, known, seen, broker, wire, link, trial>>
          [] ~skipped /\ ~refused /\ market.funds = "checking" ->
               /\ trigger' = [trigger EXCEPT !.state = "credit_wait"]
               /\ UNCHANGED <<run, entry, plan, amendment, known, seen, broker, wire, link, trial>>
          [] OTHER -> Enter /\ trigger' = [trigger EXCEPT !.state = IF @ = "monitoring" THEN "triggered" ELSE @]
  /\ UNCHANGED <<market, bounds>>

-----------------------------------------------------------------------------
(* The broker: it works the child for what the parent has bought.          *)

Fill ==
  /\ broker.status = "live" /\ broker.bought < entry.quantity
  /\ \E p \in Prices : broker' = [broker EXCEPT !.bought = @ + 1, !.paid = @ + p,
                                                !.status = IF broker.bought + 1 = entry.quantity THEN "filled" ELSE @]
  /\ UNCHANGED <<run, trigger, market, entry, plan, amendment, known, seen, wire, link, trial, bounds>>
\* The rest of the entry is cancelled; the broker may cut the child down to what was bought.
Cancelled ==
  /\ broker.status = "live" /\ broker.cancelling
  /\ \E q \in {broker.bought, broker.child.quantity} :
       broker' = [broker EXCEPT !.status = "cancelled", !.child.quantity = q,
                                !.child.status = IF broker.bought = 0 THEN "Cancelled" ELSE @]
  /\ UNCHANGED <<run, trigger, market, entry, plan, amendment, known, seen, wire, link, trial, bounds>>
StopFills ==
  /\ broker.child.status \in ACTIVE /\ broker.child.filled < broker.child.quantity
  /\ Owned(Truth) > 0
  /\ broker' = [broker EXCEPT !.child.filled = @ + 1,
                              !.child.status = IF broker.child.filled + 1 = broker.child.quantity THEN "Filled" ELSE @]
  /\ UNCHANGED <<run, trigger, market, entry, plan, amendment, known, seen, wire, link, trial, bounds>>
\* placeOrder on the child's identifier replaces its total quantity and its stop.
Amended ==
  /\ wire # <<>> /\ wire' = Tail(wire)
  /\ broker' = IF broker.child.status \in ACTIVE
               THEN [broker EXCEPT !.child.quantity = Head(wire).quantity, !.child.stop = Head(wire).stop,
                                   !.child.status = IF Head(wire).quantity <= broker.child.filled THEN "Filled" ELSE @]
               ELSE broker
  /\ UNCHANGED <<run, trigger, market, entry, plan, amendment, known, seen, link, trial, bounds>>

-----------------------------------------------------------------------------
(* What the engine learns, and does about it.                              *)

\* _stock_sync: the protection the fills call for, and a reservation no smaller than they are.
Synced(f) == IF Owned(f) <= 0 THEN plan ELSE [quantity |-> Owned(f), stop |-> Stop(f)]
Reserved(f, e) == [e EXCEPT !.notional = IF Owned(f) > 0 /\ f.paid > @ THEN f.paid ELSE @]
Remainder(f, e) == Owned(f) > 0 /\ e.state \in {"working", "dispatching"} /\ f.bought < e.quantity
Cancelling(f, e) == IF Remainder(f, e) THEN [e EXCEPT !.state = "cancel_pending"] ELSE e

Execution ==
  /\ known # Truth /\ known' = Truth /\ link' = [agreement |-> FALSE, reconciled |-> FALSE]
  /\ plan' = Synced(Truth) /\ entry' = Cancelling(Truth, Reserved(Truth, entry))
  /\ broker' = [broker EXCEPT !.cancelling = @ \/ Remainder(Truth, entry)]
  /\ UNCHANGED <<run, trigger, market, amendment, seen, wire, trial, bounds>>

\* The order's row, which the parent's status projects; a status opens the view to doubt.
Projected == CASE broker.status = "absent" -> entry.state
               [] broker.status = "live" -> IF broker.cancelling THEN "cancel_pending" ELSE "working"
               [] OTHER -> broker.status
Status ==
  /\ entry.state # Projected \/ seen # broker.child
  /\ entry' = [entry EXCEPT !.state = Projected] /\ seen' = broker.child
  /\ link' = [link EXCEPT !.reconciled = FALSE]
  /\ UNCHANGED <<run, trigger, market, plan, amendment, known, broker, wire, trial, bounds>>

\* _valid_protection: activated, working, of the position's size and at the planned stop.
Valid(e, c, p, f) ==
  /\ e.state \in {"filled", "cancelled"} /\ c.status \in ACTIVE
  /\ c.quantity - c.filled = Owned(f) /\ c.stop = p.stop

\* An amendment the broker has not shown yet is not overwritten.
Acknowledged(c) == amendment = None \/ (c.stop = amendment.stop /\ c.quantity = amendment.quantity)
\* _stock_amend: recorded, then sent; a call that raises may have reached the broker.
Amend(e, c, p) ==
  IF e.state \in Finished /\ c.status \in ACTIVE /\ Acknowledged(c)
  THEN /\ amendment' = p
       /\ \/ wire' = Append(wire, p) /\ UNCHANGED bounds
          \/ /\ bounds.raises > 0 /\ bounds' = [bounds EXCEPT !.raises = @ - 1, !.raised = TRUE]
             /\ wire' \in {wire, Append(wire, p)}
  ELSE UNCHANGED <<amendment, wire, bounds>>

\* A trade seen protected, and now closed, qualifies the plan.
Qualified(t, flat, valid) == t.qualified \/ (flat /\ t.protected)

Reconcile ==
  /\ ~link.reconciled /\ Len(wire) < bounds.waiting
  /\ known' = Truth /\ seen' = broker.child /\ plan' = Synced(Truth)
  /\ LET r == Reserved(Truth, [entry EXCEPT !.state = Projected])
         e == Cancelling(Truth, r)
         open == Owned(Truth) > 0
         valid == open /\ Valid(e, broker.child, plan', Truth)
         flat == ~open /\ e.state \in Finished \ {"none"}
         done == e.state # "cancel_pending" /\ (open => valid)
     IN /\ entry' = IF done /\ flat /\ broker.child.status \notin ACTIVE THEN [e EXCEPT !.notional = 0] ELSE e
        /\ broker' = [broker EXCEPT !.cancelling = @ \/ Remainder(Truth, r)]
        /\ link' = [agreement |-> TRUE, reconciled |-> done]
        /\ IF open /\ ~valid THEN Amend(e, broker.child, plan') ELSE UNCHANGED <<amendment, wire, bounds>>
        /\ trial' = IF ~done THEN trial
                    ELSE [protected |-> trial.protected \/ valid, qualified |-> Qualified(trial, flat, valid)]
        /\ run' = IF done /\ flat /\ e.auth = run.auth THEN Disarmed(run) ELSE run
  /\ UNCHANGED <<trigger, market>>

Next ==
  \/ RulesChange \/ Bind \/ MarketMoves \/ Arm \/ Candle \/ Expire \/ Crossing
  \/ Fill \/ Cancelled \/ StopFills \/ Amended \/ Execution \/ Status \/ Reconcile
Spec == Init /\ [][Next]_vars

-----------------------------------------------------------------------------
TypeOK ==
  /\ run.entries \in 0..1 /\ trigger.auth <= run.auth /\ Owned(known) \in 0..Shares
  /\ Len(wire) <= bounds.waiting /\ entry.quantity \in 0..Shares /\ plan.quantity \in 0..Shares

\* When the engine holds its view for true and no news is on the way, the stop the broker works
\* covers exactly the shares that are left and stands below what was paid for them, through partial
\* and late fills, amendments in flight and a child that had begun to execute.
StopFitsFills ==
  link.reconciled /\ known = Truth /\ Owned(Truth) > 0 =>
    /\ broker.child.status \in ACTIVE /\ broker.child.quantity - broker.child.filled = Owned(Truth)
    /\ broker.child.stop = Stop(Truth)
\* What is known to be bought is reserved, until it is sold again.
ExposureIsReserved == Owned(known) > 0 => known.paid <= entry.notional
\* At most one amendment is unanswered, so that an older one never lands after a newer, as long as
\* the stop has not begun to execute: what is left of the shares, sent as the quantity of the whole
\* child, is never what the broker then shows to be left, and so the same amendment is sent again.
OneAmendment == Len(wire) > 1 => broker.child.filled > 0
\* A plan buys more than one share only after a trade of it was seen protected and was closed.
QualifiedByTrade ==
  trial'.qualified /\ ~trial.qualified =>
    /\ trial.protected /\ Owned(Truth) = 0 /\ broker.bought > 0
    /\ entry'.state \in Finished
\* An entry is made only under the authorization whose candle the trade crossed, once, on a market
\* that is open and fresh, also when it had waited for credit.
EnteredAsAuthorized ==
  run'.entries > run.entries =>
    /\ run.armed /\ entry'.auth = trigger.auth /\ market.binding /\ Checks
    /\ entry.state \in Finished /\ Owned(Truth) = 0

Unprotected == Owned(Truth) > 0 /\ broker.status # "live"
Protected == \/ Owned(Truth) = 0 \/ broker.child.filled > 0 \/ broker.child.status \notin ACTIVE
             \/ bounds.raised
             \/ broker.child.stop = Stop(Truth) /\ broker.child.quantity = Owned(Truth)
\* The stop follows the fills in the end, unless it had begun to execute or an amendment raised, which
\* is not repeated: nobody knows whether the broker was told.
StopIsAmended == Unprotected ~> Protected
=============================================================================
