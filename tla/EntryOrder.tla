----------------------------- MODULE EntryOrder -----------------------------
(***************************************************************************)
(* The life of one entry order: workspace/engine.py (_enter, cancel_entry, *)
(* begin_reconcile, _finish_reconcile, observe, _restore), store.py        *)
(* (reserve_order, mark_dispatch), protection.py (the cancellation         *)
(* requests), reconciliation.py (staged snapshots) and oms.py, against a   *)
(* broker that is not under src/.  The order is a locally monitored stock  *)
(* entry: one broker order without children.                               *)
(*                                                                         *)
(* The engine owner is one thread, but every durable write is a            *)
(* transaction of its own and the process may stop between two of them:    *)
(* pc is the place of the thread inside _enter, cancel_entry or            *)
(* _flush_cancellations, "idle" between two turns of its loop.             *)
(***************************************************************************)
EXTENDS OrderStatus, Sequences, FiniteSets

CONSTANTS Qty,           \* shares of the entry, filled one by one
          MaxEpoch,      \* bound: connections of one process
          MaxCrashes,    \* bound: process crashes
          MaxInbox       \* bound: callbacks waiting when the broker sends another

ASSUME EntryAssumption ==
  /\ Qty \in Nat \ {0} /\ MaxEpoch \in Nat \ {0}
  /\ MaxCrashes \in Nat /\ MaxInbox \in Nat

VARIABLES
  outbox,       \* durable: state of the outbox row
  doc,          \* durable: the broker_order document
  request,      \* durable: the cancel_request document
  execs,        \* durable: identifiers in the executions table
  reservation,  \* durable: the risk reservation
  intent,       \* durable: an incident_cancel document waits for this run
  pc,           \* engine: where the thread is
  connected,    \* engine: connected and attested
  epoch,        \* engine: broker.epoch, connections this process has made
  verified,     \* engine: [reconciled, position_agreement, published position]
  view,         \* engine: broker_orders, the published row of the order
  snapshot,     \* engine: the reconciliation under way
  inbox,        \* adapter: queued observations, oldest first
  positions,    \* adapter: the position subscription [complete, cached]
  link,         \* the TCP connection is up
  market,       \* broker: what became of the order
  filled,       \* broker: shares filled
  asked,        \* broker: whether a cancel order arrived
  sent,         \* times placeOrder was called
  crashes

durable  == <<outbox, doc, request, execs, reservation, intent>>
engine   == <<pc, connected, epoch, verified, view, snapshot>>
adapter  == <<inbox, positions, link>>
broker   == <<market, filled, asked>>
vars     == <<durable, engine, adapter, broker, sent, crashes>>

Finished == {"cancelled", "filled", "rejected"}
Rows     == {"none", "reserved", "unknown"} \cup ProjectedStates

\* The places of the engine thread between two durable writes.
Places == {"idle", "guard", "submit", "queue", "flush", "send", "finish"}

\* The parts of a snapshot; account_end carries nothing the order depends on.
Parts == {"positions", "orders", "completed", "executions"}

NotSeen    == [seen |-> FALSE, full |-> FALSE, status |-> "absent", filled |-> NoValue]
NoSnapshot == [inflight |-> FALSE, superseded |-> FALSE, parts |-> {},
               row |-> NotSeen, position |-> 0]
NoRequest  == [state |-> "none", epoch |-> 0]

Init ==
  /\ outbox = "none" /\ doc = EmptyDoc /\ request = NoRequest /\ execs = {}
  /\ reservation = "none" /\ intent = FALSE
  /\ pc = "idle" /\ connected = FALSE /\ epoch = 0
  /\ verified = [reconciled |-> FALSE, agreement |-> FALSE, position |-> 0]
  /\ view = NotSeen /\ snapshot = NoSnapshot
  /\ inbox = <<>> /\ positions = [complete |-> FALSE, cached |-> 0] /\ link = FALSE
  /\ market = "none" /\ filled = 0 /\ asked = "no" /\ sent = 0 /\ crashes = 0

-----------------------------------------------------------------------------
(* Shared effects.                                                         *)

\* invalidate_reconciliation: nothing is verified, and the snapshot under way is stale.
Invalidated(v) == [v EXCEPT !.reconciled = FALSE]
Unsettled(v)   == [v EXCEPT !.reconciled = FALSE, !.agreement = FALSE]

Superseded(s) == [s EXCEPT !.superseded = s.inflight]

Invalidate == verified' = Invalidated(verified) /\ snapshot' = Superseded(snapshot)

\* raise_in: an incident of this run leaves a durable request to cancel a pending entry.
Incident(row) == intent' = (intent \/ row \notin Finished \cup {"none"})

OnLink(messages) == IF link THEN inbox \o messages ELSE inbox
Room == ~link \/ Len(inbox) < MaxInbox
-----------------------------------------------------------------------------
(* _enter: reserve, guard, mark, submit.                                   *)

Reserve ==
  /\ pc = "idle" /\ verified.reconciled /\ connected
  /\ outbox = "none"
  /\ outbox' = "reserved" /\ reservation' = "active" /\ pc' = "guard"
  /\ UNCHANGED <<doc, request, execs, intent, connected, epoch, verified, view, snapshot,
                 adapter, broker, sent, crashes>>

\* guard_entry_dispatch refuses: the never-sent intent is retired with its reservation.
GuardBlocks ==
  /\ pc = "guard"
  /\ outbox' = "cancelled" /\ reservation' = "released" /\ pc' = "idle"
  /\ UNCHANGED <<doc, request, execs, intent, connected, epoch, verified, view, snapshot,
                 adapter, broker, sent, crashes>>

MarkDispatch ==
  /\ pc = "guard" /\ outbox = "reserved" /\ reservation = "active"
  /\ outbox' = "dispatching" /\ pc' = "submit"
  /\ UNCHANGED <<doc, request, execs, reservation, intent, connected, epoch, verified, view,
                 snapshot, adapter, broker, sent, crashes>>

\* mark_dispatch raises (emergency, expiry, archived): the row stays reserved.
MarkRefused ==
  /\ pc = "guard" /\ pc' = "idle"
  /\ UNCHANGED <<durable, connected, epoch, verified, view, snapshot, adapter, broker, sent,
                 crashes>>

Submit ==
  /\ pc = "submit"
  /\ market' = (IF link THEN "wire" ELSE "lost") /\ sent' = sent + 1
  /\ Invalidate /\ pc' = "idle"
  /\ UNCHANGED <<durable, connected, epoch, view, adapter, filled, asked, crashes>>

\* Mutant of SubmitRaises: the dispatch is tried again after the exception.
SubmitRaises_Resends ==
  /\ pc = "submit" /\ sent < 2
  /\ market' = (IF link THEN "wire" ELSE "lost") /\ sent' = sent + 1
  /\ UNCHANGED <<durable, engine, adapter, filled, asked, crashes>>

\* submit_bracket raises, before or after the order left.
SubmitRaises ==
  /\ pc = "submit"
  /\ \/ UNCHANGED <<market, sent>>
     \/ market' = (IF link THEN "wire" ELSE "lost") /\ sent' = sent + 1
  /\ outbox' = "unknown" /\ Incident("unknown") /\ Invalidate /\ pc' = "idle"
  /\ UNCHANGED <<doc, request, execs, reservation, connected, epoch, view, adapter, filled,
                 asked, crashes>>

-----------------------------------------------------------------------------
(* cancel_entry and the cancellation requests.                             *)

\* Operator, deadline, disarm or emergency stop.
CancelEntry ==
  /\ pc = "idle" /\ outbox \in {"reserved", "dispatching", "unknown", "working"}
  /\ outbox' = "cancel_pending" /\ pc' = "queue" /\ Invalidate
  /\ UNCHANGED <<doc, request, execs, reservation, intent, connected, epoch, view, adapter,
                 broker, sent, crashes>>

\* _flush_incident_cancellations; the document goes when the row needs nothing more.
RetireReserved ==
  /\ pc = "idle" /\ intent /\ outbox = "reserved"
  /\ outbox' = "cancelled" /\ reservation' = "released" /\ intent' = FALSE
  /\ UNCHANGED <<doc, request, execs, engine, adapter, broker, sent, crashes>>

CancelForIncident ==
  /\ pc = "idle" /\ intent /\ outbox # "reserved"
  /\ IF outbox \in {"dispatching", "unknown", "working"}
       THEN outbox' = "cancel_pending" /\ pc' = "queue" /\ Invalidate
            /\ UNCHANGED intent
       ELSE intent' = FALSE /\ UNCHANGED <<outbox, pc, verified, snapshot>>
  /\ UNCHANGED <<doc, request, execs, reservation, connected, epoch, view, adapter, broker,
                 sent, crashes>>

\* raise_in for anything else that affects the run: the watchdog process does it at any time.
OtherIncident ==
  /\ ~intent /\ Incident(outbox) /\ intent'
  /\ UNCHANGED <<outbox, doc, request, execs, reservation, engine, adapter, broker, sent,
                 crashes>>

\* _queue_cancel: a request that exists is left alone.
QueueCancel ==
  /\ pc = "queue"
  /\ request' = (IF request.state = "none" THEN [NoRequest EXCEPT !.state = "queued"]
                 ELSE request)
  /\ pc' = IF request.state = "none" THEN "flush" ELSE "idle"
  /\ UNCHANGED <<outbox, doc, execs, reservation, intent, connected, epoch, verified, view,
                 snapshot, adapter, broker, sent, crashes>>

\* _flush_cancellations: first the durable mark, ...
FlushCancellation ==
  /\ pc \in {"idle", "flush"}
  /\ IF connected /\ request.state = "queued"
       THEN request' = [state |-> "pending", epoch |-> epoch] /\ pc' = "send"
       ELSE pc = "flush" /\ pc' = "idle" /\ UNCHANGED request
  /\ UNCHANGED <<outbox, doc, execs, reservation, intent, connected, epoch, verified, view,
                 snapshot, adapter, broker, sent, crashes>>

\* ... then the SDK call, which may raise and may be lost with the connection.
SendCancel ==
  /\ pc = "send" /\ pc' = "idle"
  /\ asked' = IF link /\ asked = "no" THEN "wire" ELSE asked
  /\ UNCHANGED <<durable, connected, epoch, verified, view, snapshot, adapter, market,
                 filled, sent, crashes>>

SendCancelRaises ==
  /\ pc = "send" /\ ~link /\ pc' = "idle" /\ Incident(outbox)
  /\ UNCHANGED <<outbox, doc, request, execs, reservation, connected, epoch, verified, view,
                 snapshot, adapter, broker, sent, crashes>>
-----------------------------------------------------------------------------
(* observe: one queued callback at a time.                                 *)

Take == pc = "idle" /\ connected /\ inbox # <<>> /\ inbox' = Tail(inbox)

Event(status, n, code, completed) ==
  [status |-> status, filled |-> n, code |-> code, permanent |-> 0, completed |-> completed]

\* The reducer on one observation; the failure record plays no part here.
Reduced(event) == _order_observation(doc, outbox, request.state, NoFailure, event)
Disturbs(r)    == r.incident \/ (verified.reconciled /\ r.changed)

\* broker_orders[key]: lifecycle from the reducer, identity only from full callbacks.
RowOf(r, full) == [seen |-> TRUE, full |-> full \/ view.full,
                   status |-> r.doc.status, filled |-> r.doc.filled]

\* _snapshot_order, while a reconciliation is under way.
Staged(s, row) == IF s.inflight THEN [s EXCEPT !.row = row] ELSE s

\* Only an intent that exists has a row to move.
RowAfter(r) == IF outbox = "none" THEN "none" ELSE r.state

Settle(r) ==
  /\ doc' = r.doc /\ outbox' = RowAfter(r)
  /\ verified' = IF Disturbs(r) THEN Invalidated(verified) ELSE verified

Observed == UNCHANGED <<request, execs, reservation, intent, connected, epoch, positions, link,
                        broker, sent, crashes>>

\* order_status
ObserveStatus ==
  /\ Take /\ Head(inbox).kind = "status"
  /\ LET r == Reduced(Event(Head(inbox).status, Head(inbox).filled, 0, FALSE))
         s == IF Disturbs(r) THEN Superseded(snapshot) ELSE snapshot
     IN  Settle(r) /\ view' = RowOf(r, FALSE) /\ snapshot' = Staged(s, RowOf(r, FALSE))
  /\ Observed /\ UNCHANGED pc

\* broker_error 201 for an order of ours: no identity evidence, and not staged.
ObserveRejection ==
  /\ Take /\ Head(inbox).kind = "reject"
  /\ LET r == Reduced(Event("Rejected", NoValue, 201, FALSE))
     IN  doc' = r.doc /\ outbox' = RowAfter(r) /\ view' = RowOf(r, FALSE)
  /\ Invalidate /\ Observed /\ UNCHANGED pc

\* Any other broker_error that names the order, such as a cancel that finds no order.
ObserveError ==
  /\ Take /\ Head(inbox).kind = "error" /\ Incident(outbox) /\ Invalidate
  /\ UNCHANGED <<outbox, doc, request, execs, reservation, pc, connected, epoch, view,
                 positions, link, broker, sent, crashes>>

\* _execution: new executions unsettle the positions as well.
Execute(ids) ==
  /\ execs' = execs \cup ids
  /\ verified' = IF ids \subseteq execs THEN verified ELSE Unsettled(verified)

ObserveExecution ==
  /\ Take /\ Head(inbox).kind = "exec" /\ Execute({Head(inbox).id})
  /\ snapshot' = IF Head(inbox).id \in execs THEN snapshot ELSE Superseded(snapshot)
  /\ UNCHANGED <<outbox, doc, request, reservation, intent, pc, connected, epoch, view,
                 positions, link, broker, sent, crashes>>

\* _snapshot_position: staged while a reconciliation is under way.
Moved(quantity) == verified.reconciled /\ verified.position # quantity

ObservePosition ==
  /\ Take /\ Head(inbox).kind = "position"
  /\ LET q == Head(inbox).quantity
         v == IF Moved(q) THEN Unsettled(verified) ELSE verified
         s == IF Moved(q) THEN Superseded(snapshot) ELSE snapshot
     IN  /\ verified' = IF snapshot.inflight THEN v ELSE [v EXCEPT !.position = q]
         /\ snapshot' = IF snapshot.inflight THEN [s EXCEPT !.position = q] ELSE s
  /\ UNCHANGED <<durable, pc, connected, epoch, view, positions, link, broker, sent, crashes>>

-----------------------------------------------------------------------------
(* The answers to a snapshot request; one message holds the rows of a part  *)
(* and its end marker.                                                      *)

Marked(s, part) == [s EXCEPT !.parts = @ \cup {part}]
NextPc(part)    == IF Parts = snapshot.parts \cup {part} THEN "finish" ELSE "idle"

TakePart(part) ==
  /\ Take /\ Head(inbox).kind = "answer" /\ Head(inbox).part = part
  /\ snapshot.inflight /\ pc' = NextPc(part)

AnsweredPosition ==
  /\ TakePart("positions")
  /\ LET q == Head(inbox).quantity
     IN  /\ verified' = IF Moved(q) THEN Unsettled(verified) ELSE verified
         /\ snapshot' = [Marked(IF Moved(q) THEN Superseded(snapshot) ELSE snapshot, "positions")
                          EXCEPT !.position = q]
  /\ Observed /\ UNCHANGED <<outbox, doc, view>>

\* open_order, for a live order or for completed-order evidence; "none" is no row.
AnsweredOrders ==
  /\ \E part \in {"orders", "completed"} :
       /\ TakePart(part)
       /\ IF Head(inbox).status = "none"
            THEN snapshot' = Marked(snapshot, part) /\ UNCHANGED <<outbox, doc, verified, view>>
            ELSE LET r == Reduced(Event(Head(inbox).status, Head(inbox).filled, 0,
                                        part = "completed"))
                     s == IF Disturbs(r) THEN Superseded(snapshot) ELSE snapshot
                 IN  /\ Settle(r) /\ view' = RowOf(r, TRUE)
                     /\ snapshot' = Marked(Staged(s, RowOf(r, TRUE)), part)
  /\ Observed

AnsweredExecutions ==
  /\ TakePart("executions") /\ Execute(Head(inbox).ids)
  /\ snapshot' = Marked(IF Head(inbox).ids \subseteq execs THEN snapshot
                        ELSE Superseded(snapshot), "executions")
  /\ UNCHANGED <<outbox, doc, request, reservation, intent, connected, epoch, view, positions,
                 link, broker, sent, crashes>>

-----------------------------------------------------------------------------
(* Reconciliation.                                                         *)

\* _stage_reconciliation and broker.reconcile; a known position is answered from the cache.
Begun == [NoSnapshot EXCEPT !.inflight = TRUE]
CachedPosition == IF positions.complete
  THEN <<[kind |-> "answer", part |-> "positions", quantity |-> positions.cached]>> ELSE <<>>

\* begin_reconcile, with evidence older than thirty seconds or not.
BeginReconcile ==
  /\ pc = "idle" /\ connected /\ ~snapshot.inflight
  /\ snapshot' = Begun /\ inbox' = inbox \o CachedPosition
  /\ verified' \in {verified, Unsettled(verified)}
  /\ UNCHANGED <<durable, pc, connected, epoch, view, positions, link, broker, sent, crashes>>

\* _publish_snapshot refuses: the evidence changed while it was collected.
FinishSuperseded ==
  /\ pc = "finish" /\ snapshot.superseded
  /\ snapshot' = NoSnapshot /\ verified' = Unsettled(verified) /\ pc' = "idle"
  /\ UNCHANGED <<durable, connected, epoch, view, adapter, broker, sent, crashes>>

\* _identity_issues: a working row that the snapshot does not show becomes unknown.
Missing == outbox \in {"working", "cancel_pending"} /\ ~snapshot.row.seen

IdentityIssue == doc.conflict \/ Missing \/ (snapshot.row.seen /\ ~snapshot.row.full)

\* _fill_agreement_issues: the reported quantity against the durable executions.
ReportedFill ==
  LET reported == IF snapshot.row.seen THEN snapshot.row.filled ELSE doc.filled
  IN  IF reported = NoValue /\ outbox = "filled" THEN Qty ELSE reported
FillIssue == ReportedFill # NoValue /\ ReportedFill # Cardinality(execs)

\* Mutant of AbsentRow: an order the snapshot does not show is taken for cancelled.
AbsentRow_Cancelled == "cancelled"

AbsentRow == "unknown"

\* _reconcile_cancellations: confirmed by a terminal row, ...
Confirms == request.state # "none" /\ snapshot.row.seen /\ snapshot.row.status \in TERMINAL

\* Mutant of Retries: a pending request is left to itself.
Retries_Never == FALSE

\* ... and sent again once a new connection shows the order working.
Retries == /\ request.state = "pending" /\ request.epoch # epoch
           /\ snapshot.row.seen /\ snapshot.row.status \in WORKING

ReconciledRequest ==
  [request EXCEPT !.state = IF Confirms THEN "confirmed" ELSE IF Retries THEN "queued" ELSE @]

Owned == Cardinality(execs)

\* Mutant of Issues: a cancellation under way does not count as uncertain.
Issues_Settled(row, protected) ==
  \/ IdentityIssue \/ FillIssue
  \/ Owned # snapshot.position
  \/ Owned # 0 /\ ~protected
  \/ row \in {"unknown", "dispatching"}

\* The issues of _finish_reconcile; protected is the verdict of _stock_valid_local.
Issues(row, protected) ==
  \/ IdentityIssue \/ FillIssue
  \/ Owned # snapshot.position
  \/ Owned # 0 /\ ~protected
  \/ row \in {"unknown", "dispatching", "cancel_pending"}

\* Mutants of Releases: a finished row is enough; a rejected entry is forgotten.
Releases_AnyFinished(row, clean) == row \in Finished
Releases_NotRejected(row, clean) == clean /\ row \in {"cancelled", "filled"} /\ Owned = 0

Releases(row, clean) == clean /\ row \in Finished /\ Owned = 0

Finish ==
  /\ pc = "finish" /\ ~snapshot.superseded
  /\ \E protected \in BOOLEAN :
       LET row   == IF Missing THEN AbsentRow ELSE outbox
           clean == ~Issues(row, protected)
       IN  /\ outbox' = row
           /\ verified' = [reconciled |-> clean, agreement |-> Owned = snapshot.position,
                           position |-> snapshot.position]
           /\ reservation' = IF reservation = "active" /\ Releases(row, clean)
                               THEN "released" ELSE reservation
  /\ request' = ReconciledRequest
  /\ view' = snapshot.row /\ snapshot' = NoSnapshot
  /\ pc' = IF ReconciledRequest.state = "queued" THEN "flush" ELSE "idle"
  /\ UNCHANGED <<doc, execs, intent, connected, epoch, adapter, broker, sent, crashes>>

-----------------------------------------------------------------------------
(* Connections and restarts.                                               *)

\* maintain connects, the handshake and the account context attest and reconcile.
Connect ==
  /\ pc = "idle" /\ ~connected /\ epoch < MaxEpoch
  /\ epoch' = epoch + 1 /\ connected' = TRUE /\ link' = TRUE
  /\ inbox' = <<>> /\ positions' = [complete |-> FALSE, cached |-> 0]
  /\ snapshot' = Begun
  /\ UNCHANGED <<durable, pc, verified, view, broker, sent, crashes>>

\* The socket goes; what is on the wire arrives or does not.
Drop ==
  /\ link /\ link' = FALSE
  /\ market' \in (IF market = "wire" THEN {"wire", "lost"} ELSE {market})
  /\ asked' \in (IF asked = "wire" THEN {"wire", "no"} ELSE {asked})
  /\ (market' = "lost" => asked' # "wire")
  /\ UNCHANGED <<durable, engine, inbox, positions, filled, sent, crashes>>

\* _connection_lost; callbacks that still wait belong to the old epoch.
ConnectionLost ==
  /\ pc = "idle" /\ connected /\ ~link
  /\ connected' = FALSE /\ verified' = Unsettled(verified)
  /\ snapshot' = NoSnapshot
  /\ UNCHANGED <<durable, pc, epoch, view, adapter, broker, sent, crashes>>

\* The process stops anywhere and starts again: _restore.
\* Mutant of Restored: a state of its own that nothing else knows.
Restored_Interrupted(row) == IF row \in {"reserved", "dispatching"} THEN "interrupted" ELSE row

Restored(row) == IF row \in {"reserved", "dispatching"} THEN "unknown" ELSE row

Restart ==
  /\ pc' = "idle" /\ connected' = FALSE /\ epoch' = 0
  /\ verified' = [reconciled |-> FALSE, agreement |-> FALSE, position |-> 0]
  /\ view' = NotSeen /\ snapshot' = NoSnapshot
  /\ inbox' = <<>> /\ positions' = [complete |-> FALSE, cached |-> 0] /\ link' = FALSE
  /\ outbox' = Restored(outbox) /\ crashes' = crashes + 1
  /\ UNCHANGED <<request, execs, reservation, intent, filled, sent>>
  /\ market' \in (IF market = "wire" THEN {"wire", "lost"} ELSE {market})
  /\ asked' \in (IF asked = "wire" THEN {"wire", "no"} ELSE {asked})
  /\ (market' = "lost" => asked' # "wire")

Crash == crashes < MaxCrashes /\ Restart /\ UNCHANGED doc

\* Between the document and the row of one observation.
CrashInObservation ==
  /\ crashes < MaxCrashes /\ pc = "idle" /\ connected /\ inbox # <<>>
  /\ Head(inbox).kind \in {"status", "reject"}
  /\ doc' = (IF Head(inbox).kind = "status"
               THEN Reduced(Event(Head(inbox).status, Head(inbox).filled, 0, FALSE))
               ELSE Reduced(Event("Rejected", NoValue, 201, FALSE))).doc
  /\ Restart

-----------------------------------------------------------------------------
(* The broker (external): one order, callbacks in the order they were sent. *)

Status(status)    == [kind |-> "status", status |-> status, filled |-> filled']
Execution(id)     == [kind |-> "exec", id |-> id]
Emit(messages)    == Room /\ inbox' = OnLink(messages)
QuietBroker       == UNCHANGED <<durable, engine, positions, link, sent, crashes>>

BrokerAccepts ==
  /\ market = "wire" /\ market' = "live" /\ UNCHANGED <<filled, asked>>
  /\ Emit(<<Status("Submitted")>>) /\ QuietBroker

BrokerRejects ==
  /\ market = "wire" /\ market' = "rejected" /\ UNCHANGED <<filled, asked>>
  /\ Emit(<<[kind |-> "reject"]>>) /\ QuietBroker

\* The callbacks of a fill come in any order; the position update may lead them.
Position(n) == [kind |-> "position", quantity |-> n]

BrokerFills ==
  /\ market = "live" /\ filled < Qty /\ filled' = filled + 1
  /\ market' = (IF filled' = Qty THEN "filled" ELSE "live") /\ UNCHANGED asked
  /\ LET status == Status(IF filled' = Qty THEN "Filled" ELSE "Submitted")
         exec   == Execution(filled')
     IN  \/ Emit(<<status, exec>>) /\ UNCHANGED positions
         \/ Emit(<<exec, status>>) /\ UNCHANGED positions
         \/ /\ link /\ positions.complete
            /\ Emit(<<Position(filled'), exec, status>>)
            /\ positions' = [positions EXCEPT !.cached = filled']
  /\ UNCHANGED <<durable, engine, link, sent, crashes>>

\* On request, or by itself at the end of the order's time in force.
BrokerCancels ==
  /\ market = "live" /\ market' = "cancelled" /\ UNCHANGED <<filled, asked>>
  /\ Emit(<<Status("Cancelled")>>) /\ QuietBroker

\* A cancel order follows the order on the same connection; it may find none to cancel.
CancelArrives ==
  /\ asked = "wire" /\ market # "wire" /\ asked' = "yes" /\ UNCHANGED <<market, filled>>
  /\ IF market = "live" THEN UNCHANGED inbox ELSE Emit(<<[kind |-> "error"]>>)
  /\ QuietBroker

BrokerUpdatesPosition ==
  /\ link /\ positions.complete /\ positions.cached # filled
  /\ positions' = [positions EXCEPT !.cached = filled]
  /\ UNCHANGED <<market, filled, asked>>
  /\ Emit(<<Position(filled)>>)
  /\ UNCHANGED <<durable, engine, link, sent, crashes>>

\* The parts of the request under way that the broker has not answered yet.
Waiting(m) == m.kind = "answer"
Awaited == IF link /\ snapshot.inflight
             THEN Parts \ (snapshot.parts \cup
                           {inbox[i].part : i \in {j \in DOMAIN inbox : Waiting(inbox[j])}})
             ELSE {}

Answer(message) == message.part \in Awaited /\ Emit(<<message>>) /\ UNCHANGED broker

BrokerAnswersPositions ==
  /\ Answer([kind |-> "answer", part |-> "positions", quantity |-> filled])
  /\ positions' = [complete |-> TRUE, cached |-> filled]
  /\ UNCHANGED <<durable, engine, link, sent, crashes>>

BrokerAnswersOpenOrders ==
  /\ Answer([kind |-> "answer", part |-> "orders", filled |-> NoValue,
             status |-> IF market = "live" THEN "Submitted" ELSE "none"])
  /\ QuietBroker

\* Completed orders are reported for the current day only.
BrokerAnswersCompletedOrders ==
  /\ \E today \in BOOLEAN :
       Answer([kind |-> "answer", part |-> "completed", filled |-> filled,
               status |-> IF today /\ market = "filled" THEN "Filled"
                          ELSE IF today /\ market = "cancelled" THEN "Cancelled"
                          ELSE "none"])
  /\ QuietBroker

BrokerAnswersExecutions ==
  /\ Answer([kind |-> "answer", part |-> "executions", ids |-> 1..filled])
  /\ QuietBroker

-----------------------------------------------------------------------------
Dispatch == Reserve \/ GuardBlocks \/ MarkDispatch \/ MarkRefused \/ Submit \/ SubmitRaises

Cancel == \/ CancelEntry \/ OtherIncident \/ RetireReserved \/ CancelForIncident \/ QueueCancel
          \/ FlushCancellation \/ SendCancel \/ SendCancelRaises

Observe == \/ ObserveStatus \/ ObserveRejection \/ ObserveError \/ ObserveExecution
           \/ ObservePosition \/ AnsweredPosition \/ AnsweredOrders \/ AnsweredExecutions

Reconcile == BeginReconcile \/ FinishSuperseded \/ Finish

Broker == \/ BrokerAccepts \/ BrokerRejects \/ BrokerFills \/ BrokerCancels \/ CancelArrives
          \/ BrokerUpdatesPosition \/ BrokerAnswersPositions \/ BrokerAnswersOpenOrders
          \/ BrokerAnswersCompletedOrders \/ BrokerAnswersExecutions

Next == \/ Dispatch \/ Cancel \/ Observe \/ Reconcile
        \/ Connect \/ (epoch < MaxEpoch /\ Drop) \/ ConnectionLost
        \/ Crash \/ CrashInObservation \/ Broker

Spec == Init /\ [][Next]_vars

(* The owner thread finishes what it began and drains the queue, then runs  *)
(* maintain(), in every turn of _loop; the broker answers what it is asked. *)
(* Operators, fills and failures owe nothing.  Take and GoOn are Observe    *)
(* and the steps from a place other than "idle", without their effects.     *)
GoOn == pc # "idle" /\ pc' \in Places \ {pc}

EngineFairness ==
  /\ WF_pc(GoOn) /\ WF_inbox(Take) /\ WF_vars(pc = "idle" /\ FlushCancellation)
  /\ WF_vars(RetireReserved \/ CancelForIncident)
  /\ WF_vars(BeginReconcile) /\ WF_vars(Connect \/ ConnectionLost)

BrokerFairness ==
  /\ WF_vars(BrokerAccepts \/ BrokerRejects) /\ WF_vars(CancelArrives)
  /\ WF_vars(BrokerUpdatesPosition)
  /\ WF_vars(BrokerAnswersPositions \/ BrokerAnswersOpenOrders
             \/ BrokerAnswersCompletedOrders \/ BrokerAnswersExecutions)

FairSpec == Spec /\ EngineFairness /\ BrokerFairness

-----------------------------------------------------------------------------
(* Properties.                                                             *)

RowType == [seen : BOOLEAN, full : BOOLEAN, status : Statuses \cup {"absent"},
            filled : {NoValue} \cup 0..Qty]

\* The variables keep to the values the code can store.
TypeOK ==
  /\ outbox \in Rows
  /\ doc \in [status : Statuses \cup {"absent"}, filled : {NoValue} \cup 0..Qty,
              code : {0, 201}, permanent : {0}, conflict : BOOLEAN]
  /\ request \in [state : {"none", "queued", "pending", "confirmed"}, epoch : 0..MaxEpoch]
  /\ execs \subseteq 1..Qty
  /\ reservation \in {"none", "active", "released"} /\ intent \in BOOLEAN
  /\ pc \in Places
  /\ connected \in BOOLEAN /\ epoch \in 0..MaxEpoch
  /\ verified \in [reconciled : BOOLEAN, agreement : BOOLEAN, position : 0..Qty]
  /\ view \in RowType
  /\ snapshot \in [inflight : BOOLEAN, superseded : BOOLEAN, parts : SUBSET Parts,
                   row : RowType, position : 0..Qty]
  /\ positions \in [complete : BOOLEAN, cached : 0..Qty] /\ link \in BOOLEAN
  /\ market \in {"none", "wire", "lost", "live", "filled", "cancelled", "rejected"}
  /\ filled \in 0..Qty /\ asked \in {"no", "wire", "yes"} /\ sent \in Nat /\ crashes \in Nat

Exposed == market \in {"wire", "live"}

(* An uncertain submission is never sent again: whatever raises, crashes or *)
(* is lost, placeOrder is called at most once for the intent (README.md).   *)
SubmittedOnce == sent <= 1

(* A row that is over is over at the broker: no crash, reconnect or stale   *)
(* snapshot closes the local row of an order that can still fill.           *)
FinishedRowIsDead == outbox \in Finished => ~Exposed

Promise == INSTANCE EntryCapacity WITH
  capacity <- CASE reservation = "none" -> "free" [] reservation = "active" -> "held"
                [] OTHER -> "returned",
  exposure <- IF market = "none" THEN "none" ELSE IF Exposed THEN "open" ELSE "closed",
  bought   <- filled

(* The durable ledger, the cancellation protocol and the reconciliation     *)
(* together keep the promise of EntryCapacity: held before sent, sent once, *)
(* returned only without exposure.                                          *)
CapacityPromise == Promise!Spec

(* When the account is reconciled and no callback waits, the ledger knows   *)
(* every fill and whether the order still works at the broker.              *)
ReconciledIsTrue ==
  verified.reconciled /\ link /\ inbox = <<>> =>
    /\ execs = 1..filled
    /\ outbox = "working" <=> market = "live"
    /\ market # "wire"

(* A recorded cancellation stays in force: while the request is unconfirmed *)
(* no callback, snapshot or restart makes the row an ordinary working order *)
(* again, which the deadline would cancel a second time.                    *)
CancelRequestIsLatched ==
  request.state \in {"queued", "pending"} => outbox \notin {"reserved", "dispatching", "working"}

(* An entry that the run wants cancelled is asked to be cancelled, through   *)
(* lost connections and lost cancel orders, as long as it can still fill.   *)
CancelReachesBroker ==
  outbox = "cancel_pending" /\ market = "live" ~> asked = "yes" \/ ~Exposed

(* A zero-fill entry that is over gives its capacity back in the end.       *)
ReservationIsReturned ==
  outbox \in {"cancelled", "rejected"} /\ filled = 0 ~> reservation # "active"

(* A request marked as sent is either received or sent again.               *)
PendingCancelIsRetried ==
  request.state = "pending" /\ market = "live" ~> asked = "yes" \/ ~Exposed
=============================================================================
