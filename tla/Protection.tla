----------------------------- MODULE Protection -----------------------------
(***************************************************************************)
(* The sell side of one position: the bracket's stop, the exits that the   *)
(* strategy or the operator asks for, and the stops that reconciliation    *)
(* submits when the position is not protected (protection.py and           *)
(* close_position in engine.py).  Every sell of an entry is in one OCA     *)
(* group of the broker.                                                    *)
(*                                                                         *)
(* The engine learns what the broker does late and piecewise: an order     *)
(* status, an execution and a position arrive at different times, and a    *)
(* snapshot takes the three at different times too.  How one callback is   *)
(* folded into a row, and what a lost connection does, are OrderReducer's  *)
(* and EntryOrder's subjects.                                              *)
(***************************************************************************)
EXTENDS Integers, FiniteSets, FiniteSetsExt

CONSTANTS Quantity,    \* shares of the entry
          Later,       \* later orders: replacement stops and exits
          MaxExits,    \* bound: exit orders
          MaxLosses,   \* bound: sells the broker cancels or rejects by itself
          MaxRaises,   \* bound: submissions that raise
          MaxRestarts  \* bound: process restarts

ASSUME ProtectionAssumption ==
  /\ Quantity \in Nat \ {0} /\ IsFiniteSet(Later) /\ Later \cap {"entry", "stop"} = {}
  /\ MaxExits \in Nat /\ MaxLosses \in Nat /\ MaxRaises \in Nat /\ MaxRestarts \in Nat

VARIABLES
  row,        \* durable: outbox state of the entry and of the later orders
  doc,        \* durable: broker_order documents [status, filled]
  executed,   \* durable: shares of the executions received for each order
  request,    \* durable: cancel_request documents
  kind,       \* durable: the purpose of the later orders
  reserved,   \* durable: the reservation of the entry is active
  wanted,     \* durable: exit_request
  position,   \* adapter and engine: the position of the continuous subscription
  ready,      \* engine: reconciled
  snapshot,   \* engine: [parts, current, seen] of the reconciliation under way
  state,      \* broker: the orders
  size,       \* broker: their quantities, as the OCA group reduces them
  filled,     \* broker: their filled quantities
  bounds      \* [losses, raises, restarts] so far

durable == <<row, doc, executed, request, kind, reserved, wanted>>
engine  == <<position, ready, snapshot>>
broker  == <<state, size, filled>>
vars    == <<durable, engine, broker, bounds>>

Orders == {"entry", "stop"} \cup Later
Sells  == Orders \ {"entry"}
Sent   == Orders \ {"stop"}     \* the orders with a row of their own

TERMINAL == {"Filled", "Cancelled", "Rejected"}
Live(o)  == state[o] \in {"coming", "active"}

\* owned: what the executions add up to, and what the account holds.
Net(shares) == shares["entry"] - MapThenSumSet(LAMBDA o : shares[o], Sells)
Owned       == Net(executed)
Held        == Net(filled)

\* No document: nothing was reported of the order.
Nothing == [status |-> "none", filled |-> 0, size |-> 0]

\* No snapshot is under way.
Idle  == [parts |-> {"none"}, current |-> FALSE, seen |-> {}]
Parts == {"orders", "executions"}

Init ==
  /\ row = [o \in Sent |-> IF o = "entry" THEN "sent" ELSE "none"]
  /\ doc = [o \in Orders |-> Nothing]
  /\ executed = [o \in Orders |-> 0] /\ request = [o \in Orders |-> "none"]
  /\ kind = [o \in Later |-> "none"] /\ reserved = TRUE /\ wanted = FALSE
  /\ position = 0 /\ ready = FALSE /\ snapshot = Idle
  /\ state = [o \in Orders |-> IF o \in Later THEN "none" ELSE "coming"]
  /\ size = [o \in Orders |-> IF o \in Later THEN 0 ELSE Quantity]
  /\ filled = [o \in Orders |-> 0]
  /\ bounds = [losses |-> 0, raises |-> 0, restarts |-> 0]

-----------------------------------------------------------------------------
(* The broker.                                                             *)

BrokerAccepts(o) ==
  /\ state[o] = "coming"
  /\ state' = [state EXCEPT ![o] = "active"]
  /\ UNCHANGED <<durable, engine, size, filled, bounds>>

\* The stop goes with its parent.
Closed(status) == IF status \in TERMINAL THEN status ELSE "Cancelled"

Lost == bounds.losses < MaxLosses /\ bounds' = [bounds EXCEPT !.losses = @ + 1]

BrokerRejects(o) ==
  /\ state[o] = "coming"
  /\ \/ /\ o = "entry" /\ bounds' = bounds
        /\ state' = [state EXCEPT !["entry"] = "Rejected", !["stop"] = Closed(@)]
     \/ o # "entry" /\ Lost /\ state' = [state EXCEPT ![o] = "Rejected"]
  /\ UNCHANGED <<durable, engine, size, filled>>

EntryFills ==
  /\ state["entry"] = "active" /\ filled' = [filled EXCEPT !["entry"] = @ + 1]
  /\ state' = [state EXCEPT !["entry"] = IF filled'["entry"] = Quantity THEN "Filled" ELSE @]
  /\ UNCHANGED <<durable, engine, size, bounds>>

\* The entry ends: its stop goes too, or stays for what was bought.
EntryEnds ==
  /\ state["entry"] = "active"
  /\ \E kept \in {TRUE, FALSE} :
       /\ kept => filled["entry"] > 0
       /\ state' = [state EXCEPT !["entry"] = "Cancelled",
                                 !["stop"]  = IF kept THEN @ ELSE Closed(@)]
       /\ size' = IF kept THEN [size EXCEPT !["stop"] = Min({@, filled["entry"]})] ELSE size
  /\ UNCHANGED <<durable, engine, filled, bounds>>

\* One share is sold: the group reduces the others and blocks what the account does not hold.
SellFills(o) ==
  /\ state[o] = "active" /\ filled[o] < size[o] /\ Held > 0
  /\ o = "stop" => state["entry"] \in TERMINAL
  /\ LET group == {p \in Sells \ {o} : state[p] = "active"}
     IN  /\ filled' = [filled EXCEPT ![o] = @ + 1]
         /\ size' = [p \in Orders |-> IF p \in group THEN size[p] - 1 ELSE size[p]]
         /\ state' = [p \in Orders |-> IF p = o /\ filled'[o] = size[o] THEN "Filled"
                                       ELSE IF p \in group /\ size'[p] <= filled[p] THEN "Cancelled"
                                       ELSE state[p]]
  /\ UNCHANGED <<durable, engine, bounds>>

\* A requested cancellation of a sell, or one of the broker's own.
SellEnds(o) ==
  /\ state[o] = "active" /\ state' = [state EXCEPT ![o] = "Cancelled"]
  /\ (request[o] = "pending" /\ bounds' = bounds) \/ (request[o] # "pending" /\ Lost)
  /\ UNCHANGED <<durable, engine, size, filled>>

-----------------------------------------------------------------------------
(* Callbacks.                                                              *)

Invalidated == /\ ready' = FALSE
               /\ snapshot' = [snapshot EXCEPT !.current = FALSE]

\* The document and the row after the status of order o, as the broker has it now.
Reported(o) == [status |-> state[o], filled |-> filled[o], size |-> size[o]]
Known(S)    == {o \in S : state[o] \notin {"none", "coming"}}
RowAfter(o) ==
  IF o \notin Known(Sent) THEN row[o]
  ELSE IF state[o] = "active"
       THEN IF row[o] = "cancel_pending" \/ request[o] = "pending"
            THEN "cancel_pending" ELSE "working"
       ELSE CASE state[o] = "Filled" -> "filled" [] state[o] = "Cancelled" -> "cancelled"
              [] state[o] = "Rejected" -> "rejected"

Learned(S) ==
  /\ doc' = [o \in Orders |-> IF o \in Known(S) THEN Reported(o) ELSE doc[o]]
  /\ row' = [o \in Sent |-> IF o \in S THEN RowAfter(o) ELSE row[o]]

\* A snapshot under way takes the order in.
Staged(S, part) == [snapshot EXCEPT !.seen = IF snapshot = Idle THEN @ ELSE @ \cup S,
                                    !.parts = @ \cup part]
Superseded(s)   == [s EXCEPT !.current = FALSE]

\* Mutant of ObserveOrder: a change of an order leaves the account reconciled.
ObserveOrder_Silent(o) ==
  /\ o \in Known(Orders) /\ doc[o] # Reported(o)
  /\ Learned({o}) /\ snapshot' = Staged({o}, {}) /\ UNCHANGED ready
  /\ UNCHANGED <<executed, request, kind, reserved, wanted, position, broker, bounds>>

\* A status counts against the snapshot only while the account is reconciled.
ObserveOrder(o) ==
  /\ o \in Known(Orders) /\ doc[o] # Reported(o)
  /\ Learned({o}) /\ ready' = FALSE
  /\ snapshot' = IF ready THEN Superseded(Staged({o}, {})) ELSE Staged({o}, {})
  /\ UNCHANGED <<executed, request, kind, reserved, wanted, position, broker, bounds>>

\* Mutant of ObserveExecution: an execution that is delivered again counts again.
ObserveExecution_Again(o) ==
  /\ filled[o] > 0 /\ executed' = [executed EXCEPT ![o] = @ + 1]
  /\ Invalidated
  /\ UNCHANGED <<row, doc, request, kind, reserved, wanted, position, broker, bounds>>

\* An execution counts always.
ObserveExecution(o) ==
  /\ executed[o] < filled[o] /\ executed' = [executed EXCEPT ![o] = @ + 1]
  /\ Invalidated
  /\ UNCHANGED <<row, doc, request, kind, reserved, wanted, position, broker, bounds>>

ObservePosition ==
  /\ position # Held /\ position' = Held
  /\ IF ready THEN Invalidated ELSE UNCHANGED <<ready, snapshot>>
  /\ UNCHANGED <<durable, broker, bounds>>

-----------------------------------------------------------------------------
(* Orders of the engine.                                                   *)

\* _queue_cancel keeps the first request; a connected engine sends it at once.
Cancelled(S) == [o \in Orders |-> IF o \in S /\ request[o] = "none" THEN "pending" ELSE request[o]]

Open(o) == row[o] \notin {"none", "filled", "cancelled", "rejected"}

\* reserve_order, mark_dispatch and placeOrder; a submission that raises may have been sent.
Dispatched(x, purpose) ==
  /\ kind' = [kind EXCEPT ![x] = purpose] /\ size' = [size EXCEPT ![x] = Owned]
  /\ \/ /\ row' = [row EXCEPT ![x] = "sent"] /\ state' = [state EXCEPT ![x] = "coming"]
        /\ bounds' = bounds
     \/ /\ bounds.raises < MaxRaises /\ bounds' = [bounds EXCEPT !.raises = @ + 1]
        /\ row' = [row EXCEPT ![x] = "unknown"]
        /\ state' \in {state, [state EXCEPT ![x] = "coming"]}

\* The deadline of the entry, a disarm or an incident cancels it.
CancelEntry ==
  /\ row["entry"] \in {"sent", "working", "unknown"}
  /\ row' = [row EXCEPT !["entry"] = "cancel_pending"] /\ request' = Cancelled({"entry"})
  /\ Invalidated
  /\ UNCHANGED <<doc, executed, kind, reserved, wanted, position, broker, bounds>>

\* An exit limit that is ten seconds old is cancelled, to be replaced at a new price.
RefreshExit(x) ==
  /\ kind[x] = "exit" /\ row[x] = "working"
  /\ row' = [row EXCEPT ![x] = "cancel_pending"] /\ request' = Cancelled({x})
  /\ Invalidated
  /\ UNCHANGED <<doc, executed, kind, reserved, wanted, position, broker, bounds>>

\* _fill_agreement_issues.
FillsDisagree == \E o \in Orders : doc[o].status # "none" /\ doc[o].filled # executed[o]

Exits == {x \in Later : kind[x] = "exit"}

RequestExit ==
  /\ ~wanted /\ Owned # 0 /\ Cardinality(Exits) < MaxExits /\ wanted' = TRUE
  /\ UNCHANGED <<row, doc, executed, request, kind, reserved, engine, broker, bounds>>

\* Mutant of ClosePosition: an exit that is open does not count.
ClosePosition_Again(x) ==
  /\ ready /\ wanted /\ Owned > 0 /\ kind[x] = "none" /\ Cardinality(Exits) < MaxExits
  /\ Dispatched(x, "exit") /\ Invalidated
  /\ UNCHANGED <<doc, executed, request, reserved, wanted, position, filled>>

\* close_position, asked again by every evaluation until the position is flat.
ClosePosition(x) ==
  /\ ready /\ wanted /\ Owned > 0 /\ kind[x] = "none" /\ Cardinality(Exits) < MaxExits
  /\ \A y \in Exits : ~Open(y)
  /\ Dispatched(x, "exit") /\ Invalidated
  /\ UNCHANGED <<doc, executed, request, reserved, wanted, position, filled>>

-----------------------------------------------------------------------------
(* Reconciliation.                                                         *)

\* Positions come from the subscription at once; after thirty seconds nothing counts.
BeginReconcile ==
  /\ snapshot = Idle /\ snapshot' = [parts |-> {}, current |-> TRUE, seen |-> {}]
  /\ ready' \in {ready, FALSE}
  /\ UNCHANGED <<durable, position, broker, bounds>>

\* Open orders are all listed, completed ones may be missing.
TakeOrders ==
  /\ snapshot # Idle /\ "orders" \notin snapshot.parts
  /\ \E seen \in SUBSET Known(Orders) :
       /\ \A o \in Known(Orders) : state[o] = "active" => o \in seen
       /\ Learned(seen)
       /\ IF ready /\ \E o \in seen : doc[o] # Reported(o)
          THEN ready' = FALSE /\ snapshot' = Superseded(Staged(seen, {"orders"}))
          ELSE UNCHANGED ready /\ snapshot' = Staged(seen, {"orders"})
  /\ UNCHANGED <<executed, request, kind, reserved, wanted, position, broker, bounds>>

TakeExecutions ==
  /\ snapshot # Idle /\ "executions" \notin snapshot.parts
  /\ executed' = filled
  /\ IF executed # filled
     THEN ready' = FALSE /\ snapshot' = Superseded(Staged({}, {"executions"}))
     ELSE UNCHANGED ready /\ snapshot' = Staged({}, {"executions"})
  /\ UNCHANGED <<row, doc, request, kind, reserved, wanted, position, broker, bounds>>

Complete == snapshot.parts = Parts

FinishSuperseded ==
  /\ Complete /\ ~snapshot.current
  /\ snapshot' = Idle /\ ready' = FALSE
  /\ UNCHANGED <<durable, position, broker, bounds>>

\* _identity_issues: a row that the snapshot lacks.
Absent(o) == row[o] \in {"working", "cancel_pending"} /\ o \notin snapshot.seen

\* _valid_protection: a stop that works for exactly what is owned.
Covers(o) ==
  /\ o \in snapshot.seen /\ doc[o].status = "active" /\ doc[o].size - doc[o].filled = Owned
  /\ IF o = "stop" THEN row["entry"] = "filled" ELSE kind[o] = "protection"

\* Mutant of Related: only the orders with a row of their own.
Related_Rows == {x \in Later : kind[x] # "none"}

Related == {"stop"} \cup {x \in Later : kind[x] # "none"}

\* Mutant of Ended: absence from the snapshot ends an order.
Ended_Absent(o) == doc[o].status \in TERMINAL \/ o \notin snapshot.seen

\* Mutant of Ended: a rejection does not end an order.
Ended_NotRejected(o) == doc[o].status \in TERMINAL \ {"Rejected"}

Ended(o) == doc[o].status \in TERMINAL
Working(o) == doc[o].status = "active"

\* _reconcile_cancellations.
Confirmed == [o \in Orders |-> IF request[o] # "none" /\ o \in snapshot.seen /\ Ended(o)
                               THEN "confirmed" ELSE request[o]]
Asked(S)  == [o \in Orders |-> IF o \in S /\ Confirmed[o] = "none" THEN "pending" ELSE Confirmed[o]]

EntryOver == row["entry"] \in {"filled", "cancelled", "rejected"}
Agrees    == Owned = position
Identified == ~FillsDisagree /\ \A o \in Sent : ~Absent(o)

\* _flat_sell_issues.
FlatSell == EntryOver /\ Owned = 0 /\ \E o \in Related : ~Ended(o)

Protected == Agrees /\ Identified /\ \E o \in Sells : Covers(o)

\* Nothing is left to explain.
Settled == /\ Identified /\ Agrees /\ ~FlatSell /\ (Owned # 0 => Protected)
           /\ \A o \in Sent : row[o] \notin {"sent", "unknown", "cancel_pending"}

\* Mutant of Released: capacity goes back with the position.
Released_Flat == Agrees /\ EntryOver /\ Owned = 0

\* Reservations: the stop's status as the snapshot has it; Rejected is not in this list.
Released == /\ Settled /\ EntryOver /\ Owned = 0
            /\ "stop" \in snapshot.seen => doc["stop"].status \in {"Cancelled", "Filled"}

Missing == [o \in Sent |-> IF Absent(o) THEN "unknown" ELSE row[o]]

Finished ==
  /\ Complete /\ snapshot.current /\ snapshot' = Idle
  /\ ready' = Settled
  /\ reserved' = (reserved /\ ~Released) /\ wanted' = (wanted /\ Owned # 0)

\* A replacement waits for every order that came before it.
Uncertain   == \E x \in Later : row[x] \in {"sent", "unknown", "cancel_pending"}
Replaceable == EntryOver /\ ~Uncertain /\ \A o \in Related : Ended(o)
Exhausted   == \A x \in Later : kind[x] # "none"

\* The position needs no repair, or none is possible yet, or the model has no identifier left.
Finish ==
  /\ Finished
  /\ \/ Owned <= 0 \/ Protected \/ ~Identified \/ ~Agrees
     \/ ~EntryOver /\ row["entry"] \in {"unknown", "cancel_pending"}
     \/ EntryOver /\ Uncertain
     \/ Replaceable /\ Exhausted
  /\ row' = Missing /\ request' = IF FlatSell THEN Asked({o \in Related : Working(o)}) ELSE Confirmed
  /\ UNCHANGED <<doc, executed, kind, position, broker, bounds>>

Repair == /\ Finished /\ Owned > 0 /\ ~Protected /\ Identified /\ Agrees

\* _repair_protection: first the rest of the entry ...
RepairCancelsEntry ==
  /\ Repair /\ row["entry"] \in {"sent", "working"}
  /\ row' = [row EXCEPT !["entry"] = "cancel_pending"] /\ request' = Asked({"entry"})
  /\ UNCHANGED <<doc, executed, kind, position, broker, bounds>>

\* ... then every sell that works, and the evidence that it ended ...
RepairCancelsSells ==
  /\ Repair /\ EntryOver /\ ~Uncertain /\ \E o \in Related : ~Ended(o)
  /\ request' = Asked({o \in Related : Working(o)})
  /\ UNCHANGED <<row, doc, executed, kind, position, broker, bounds>>

\* ... and then the replacement for exactly what is owned.
RepairSubmits(x) ==
  /\ Repair /\ Replaceable /\ kind[x] = "none"
  /\ Dispatched(x, "protection") /\ request' = Confirmed
  /\ UNCHANGED <<doc, executed, position, filled>>

\* _restore: what was being sent is unknown; a new subscription reports the position.
Restart ==
  /\ bounds.restarts < MaxRestarts /\ bounds' = [bounds EXCEPT !.restarts = @ + 1]
  /\ row' = [o \in Sent |-> IF row[o] = "sent" THEN "unknown" ELSE row[o]]
  /\ position' = Held /\ ready' = FALSE /\ snapshot' = Idle
  /\ UNCHANGED <<doc, executed, request, kind, reserved, wanted, broker>>

-----------------------------------------------------------------------------
Broker == \/ \E o \in Orders : BrokerAccepts(o) \/ BrokerRejects(o)
          \/ EntryFills \/ EntryEnds
          \/ \E o \in Sells : SellFills(o) \/ SellEnds(o)

Observe == \/ \E o \in Orders : ObserveOrder(o) \/ ObserveExecution(o)
           \/ ObservePosition

Act == \/ CancelEntry \/ RequestExit
       \/ \E x \in Later : RefreshExit(x) \/ ClosePosition(x)

Reconcile == \/ BeginReconcile \/ TakeOrders \/ TakeExecutions
             \/ FinishSuperseded \/ Finish \/ RepairCancelsEntry \/ RepairCancelsSells
             \/ \E x \in Later : RepairSubmits(x)

Next == Broker \/ Observe \/ Act \/ Reconcile \/ Restart

Spec == Init /\ [][Next]_vars

\* What runs by itself: the broker answers and reports, the entry has a deadline,
\* and the engine reconciles every fifteen seconds.
Fairness ==
  /\ \A o \in Orders : /\ WF_vars(BrokerAccepts(o)) /\ WF_vars(ObserveOrder(o))
                       /\ WF_vars(ObserveExecution(o))
  /\ \A o \in Sells : WF_vars(request[o] = "pending" /\ SellEnds(o))
  /\ WF_vars(EntryFills \/ EntryEnds) /\ WF_vars(ObservePosition) /\ WF_vars(Reconcile)

LiveSpec == Spec /\ Fairness

-----------------------------------------------------------------------------
(* Properties.                                                             *)

\* Types; an execution identifier counts once, so nothing is executed that was not filled.
TypeOK ==
  /\ row \in [Sent -> {"none", "sent", "unknown", "working", "cancel_pending"}
                       \cup {"filled", "cancelled", "rejected"}]
  /\ doc \in [Orders -> [status : {"none", "active"} \cup TERMINAL,
                         filled : 0..Quantity, size : 0..Quantity]]
  /\ executed \in [Orders -> 0..Quantity] /\ filled \in [Orders -> 0..Quantity]
  /\ \A o \in Orders : executed[o] <= filled[o]
  /\ request \in [Orders -> {"none", "pending", "confirmed"}]
  /\ kind \in [Later -> {"none", "exit", "protection"}]
  /\ reserved \in BOOLEAN /\ wanted \in BOOLEAN /\ ready \in BOOLEAN
  /\ position \in 0..Quantity
  /\ snapshot \in [parts : SUBSET (Parts \cup {"none"}), current : BOOLEAN, seen : SUBSET Orders]
  /\ state \in [Orders -> {"none", "coming", "active"} \cup TERMINAL]
  /\ size \in [Orders -> 0..Quantity]

\* protection.py, "never replace an uncertain order": when a replacement stop is sent, the
\* entry and every other sell have ended at the broker, whatever was still unreported, and
\* the replacement is for exactly what the account then holds.
ReplacementWaits ==
  [][\A x \in Later : kind[x] = "none" /\ kind'[x] = "protection"
        => (\A o \in Orders \ {x} : ~Live(o)) /\ size'[x] = Held]_vars

\* Only one exit order of the position can fill at the broker, however often the limit is
\* refreshed, the submission raises or the process restarts.
OneExit == \A x, y \in Exits : Live(x) /\ Live(y) => x = y

\* "No capacity release until all are terminal": once the reservation is given back the
\* account holds nothing of this entry, and no order of it can still trade.
FlatRelease == ~reserved => Held = 0 /\ \A o \in Orders : ~Live(o)

\* A reconciled account with a position has a stop at the broker for exactly that position,
\* unless the broker has already changed something that it has yet to report.
Covered == \E o \in Sells : /\ state[o] = "active" /\ size[o] - filled[o] = Held
                            /\ IF o = "stop" THEN state["entry"] \in TERMINAL
                               ELSE kind[o] = "protection"
Reports == position = Held /\ \A o \in Orders : o \in Known(Orders) => doc[o] = Reported(o)
ReadyIsCovered == ready /\ Reports /\ Held # 0 => Covered

\* A position does not stay without a stop: it is sold, or it is covered in the end, while
\* there are order identifiers to cover it with.
EventuallyCovered == []<>(Held = 0 \/ Covered \/ Exhausted)

\* A position that was sold leaves no sell working: what can still trade is cancelled.
FlatEnds == []<>(Held # 0 \/ state["entry"] \notin TERMINAL \/ \A o \in Sells : ~Live(o))
=============================================================================
