--------------------------- MODULE BrokerSnapshot ---------------------------
(***************************************************************************)
(* The collection of one account snapshot (reconciliation.py,              *)
(* broker_snapshots.py): the engine stages a generation and asks for five  *)
(* parts.  Orders and completed orders have end markers without a request  *)
(* number, so a new generation waits for both; executions and the two      *)
(* account requests are numbered and may be asked again; positions are a   *)
(* subscription that is complete once.                                     *)
(***************************************************************************)
EXTENDS Integers, Sequences

CONSTANTS Uncorrelated, \* the end markers without a request number: orders_end, completed_orders_end
          Budgets,      \* bounds: [begins, changes, retries, faults] of a behaviour: snapshots begun,
                        \* changes at the broker, deadlines that pass (replies are lost only before the
                        \* last) and requests that raise, overflows or lost connections
          MaxQueue      \* bound: observations waiting when the broker says more

VARIABLES
  engine,     \* [connected, inflight, generation, parts, revision, staged, reconciled]
  adapter,    \* [epoch, positions, uncorrelated, executions, account, reconciliation_id, next, overflow]
  queue,      \* observations, as the adapter queued them
  pending,    \* broker: requests it has not answered
  version,    \* broker: changes so far
  seen,       \* the last change the engine observed
  begun,      \* the change at which the snapshot began
  collected,  \* for each part taken: the change its answer is from
  broken,     \* a request raised or an unnumbered reply was lost on this connection
  bounds      \* what is left of the budget

vars == <<engine, adapter, queue, pending, version, seen, begun, collected, broken, bounds>>

Account      == {"account_summary", "account_ledger"}
Parts        == Uncorrelated \cup {"positions_end", "executions_end", "account_end"}
Missing      == Parts \ engine.parts
Nothing      == [p \in {} |-> 0]

Reset(n) == [epoch |-> n, positions |-> "none", uncorrelated |-> Nothing, executions |-> {},
             account |-> {}, reconciliation_id |-> 0, next |-> 1, overflow |-> FALSE]

Init ==
  /\ engine = [connected |-> TRUE, inflight |-> FALSE, generation |-> 0, parts |-> {},
               revision |-> 0, staged |-> <<>>, reconciled |-> FALSE]
  /\ adapter = Reset(1) /\ queue = <<>> /\ pending = {}
  /\ version = 0 /\ seen = 0 /\ begun = 0 /\ collected = Nothing
  /\ broken = FALSE /\ bounds \in Budgets

Marker(kind, generation, at) ==
  [type |-> kind, generation |-> generation, epoch |-> adapter.epoch, at |-> at]
Invalidated(e) == [e EXCEPT !.reconciled = FALSE, !.revision = @ + 1]
Fault == bounds.faults > 0 /\ bounds' = [bounds EXCEPT !.faults = @ - 1]

-----------------------------------------------------------------------------
(* Requests.  A numbered request retires its predecessor.                  *)

Executions(a) ==
  [a EXCEPT !.executions = {<<"executions_end", a.next, a.reconciliation_id>>}, !.next = @ + 1]
Accounts(a) ==
  [a EXCEPT !.account = {<<k, a.next, a.reconciliation_id>> : k \in Account}, !.next = @ + 1]
Asked(a, kinds) == (IF "executions_end" \in kinds THEN a.executions ELSE {})
                   \cup (IF "account_end" \in kinds THEN a.account ELSE {})

\* Positions are asked for once per connection; later snapshots use what was received since.
Positions(a) == IF a.positions = "none" THEN [a EXCEPT !.positions = "requested"] ELSE a

Stage == /\ bounds.begins > 0 /\ engine.connected /\ ~engine.inflight
         /\ engine' = [engine EXCEPT !.inflight = TRUE, !.generation = engine.generation + 1,
                                     !.parts = {}, !.staged = <<adapter.epoch, engine.revision>>]
         /\ begun' = version /\ collected' = Nothing

BeginReconcile ==
  /\ Stage /\ adapter.uncorrelated = Nothing
  /\ bounds' = [bounds EXCEPT !.begins = @ - 1]
  /\ LET g == engine.generation + 1
         a == Accounts(Executions(Positions([adapter EXCEPT !.reconciliation_id = g])))
     IN /\ adapter' = [a EXCEPT !.uncorrelated = [k \in Uncorrelated |-> g]]
        /\ queue' = IF adapter.positions = "complete"
                    THEN Append(queue, Marker("positions_end", g, version)) ELSE queue
        /\ pending' = pending \cup Asked(a, Parts) \cup {<<k, 0, g>> : k \in Uncorrelated}
                      \cup (IF adapter.positions = "none" THEN {<<"positions_end", 0, g>>} ELSE {})
  /\ UNCHANGED <<version, seen, broken>>

\* broker.reconcile raises: the snapshot is in flight and nothing more was asked.
BeginRaises ==
  /\ Stage /\ bounds.faults > 0 /\ broken' = TRUE
  /\ bounds' = [bounds EXCEPT !.begins = @ - 1, !.faults = @ - 1]
  /\ adapter' = [adapter EXCEPT !.reconciliation_id = engine.generation + 1]
  /\ UNCHANGED <<queue, pending, version, seen>>

\* The deadline of a snapshot: what is numbered and missing is asked again.
Deadline ==
  /\ engine.inflight /\ bounds.retries > 0
  /\ bounds' = [bounds EXCEPT !.retries = @ - 1]
  /\ engine' = [engine EXCEPT !.reconciled = FALSE]
  /\ LET e == IF "executions_end" \in Missing THEN Executions(adapter) ELSE adapter
         a == IF "account_end" \in Missing THEN Accounts(e) ELSE e
     IN adapter' = a /\ pending' = pending \cup Asked(a, Missing)
  /\ UNCHANGED <<queue, version, seen, begun, collected, broken>>

-----------------------------------------------------------------------------
(* Replies.                                                                *)

\* An account part is complete when both of its requests are.
Answers(r) ==
  CASE r[1] \in DOMAIN adapter.uncorrelated ->
         /\ adapter' = [adapter EXCEPT !.uncorrelated = [k \in DOMAIN @ \ {r[1]} |-> @[k]]]
         /\ queue' = Append(queue, Marker(r[1], adapter.uncorrelated[r[1]], version))
    [] r \in adapter.executions ->
         queue' = Append(queue, Marker(r[1], r[3], version)) /\ UNCHANGED adapter
    [] r[1] = "positions_end" ->
         /\ queue' = Append(queue, Marker(r[1], r[3], version))
         /\ adapter' = [adapter EXCEPT !.positions = "complete"]
    [] r \in adapter.account ->
         /\ adapter' = [adapter EXCEPT !.account = @ \ {r}]
         /\ queue' = IF adapter.account = {r}
                     THEN Append(queue, Marker("account_end", r[3], version)) ELSE queue
    [] OTHER -> UNCHANGED <<queue, adapter>>

Answer ==
  /\ Len(queue) < MaxQueue
  /\ \E r \in pending : pending' = pending \ {r} /\ Answers(r)
  /\ UNCHANGED <<engine, version, seen, begun, collected, broken, bounds>>

Lose ==
  /\ bounds.retries > 0
  /\ \E r \in pending :
       /\ pending' = pending \ {r}
       /\ broken' = (broken \/ r[1] \in Uncorrelated \cup {"positions_end"})
  /\ UNCHANGED <<engine, adapter, queue, version, seen, begun, collected, bounds>>

\* Something changes at the broker: an order, which is reported, or a value of the account, which
\* is not.  When the queue is full a report is lost, and the adapter says so.
Change ==
  /\ bounds.changes > 0 /\ bounds' = [bounds EXCEPT !.changes = @ - 1] /\ version' = version + 1
  /\ queue' = Append(queue, Marker("order", 0, version + 1)) \/ UNCHANGED queue
  /\ UNCHANGED <<engine, adapter, pending, seen, begun, collected, broken>>

Overflow ==
  /\ version' = version + 1 /\ Fault
  /\ adapter' = [adapter EXCEPT !.overflow = TRUE]
  /\ UNCHANGED <<engine, queue, pending, seen, begun, collected, broken>>

-----------------------------------------------------------------------------
(* The engine.                                                             *)

Current(m) == m.epoch = adapter.epoch /\ m.generation \in {0, engine.generation}

\* All parts: published, unless something changed or the connection did.
Publish(e) ==
  [e EXCEPT !.inflight = FALSE, !.reconciled = (e.staged = <<adapter.epoch, e.revision>>)]

Part(m) ==
  LET e == [engine EXCEPT !.parts = @ \cup {m.type}]
  IN /\ collected' = [p \in DOMAIN collected \cup {m.type} |->
                        IF p = m.type THEN m.at ELSE collected[p]]
     /\ engine' = IF e.parts = Parts THEN Publish(e) ELSE e

Observe ==
  /\ queue # <<>> /\ queue' = Tail(queue)
  /\ LET m == Head(queue)
     IN CASE ~Current(m) -> UNCHANGED <<engine, collected, seen>>
          [] Current(m) /\ m.type = "order" ->
               seen' = m.at /\ engine' = Invalidated(engine) /\ UNCHANGED collected
          [] OTHER ->
               /\ IF engine.inflight THEN Part(m) ELSE UNCHANGED <<engine, collected>>
               /\ UNCHANGED seen
  /\ UNCHANGED <<adapter, pending, version, begun, broken, bounds>>

\* After an overflow every turn of the loop invalidates, until the process restarts.
Distrust ==
  /\ engine.reconciled \/ (engine.inflight /\ engine.staged[2] = engine.revision)
  /\ adapter.overflow /\ engine' = Invalidated(engine)
  /\ UNCHANGED <<adapter, queue, pending, version, seen, begun, collected, broken, bounds>>

ConnectionLost ==
  /\ engine.connected /\ Fault /\ pending' = {}
  /\ engine' = [engine EXCEPT !.connected = FALSE, !.inflight = FALSE, !.reconciled = FALSE]
  /\ UNCHANGED <<adapter, queue, version, seen, begun, collected, broken>>

Connect ==
  /\ ~engine.connected /\ engine' = [engine EXCEPT !.connected = TRUE]
  /\ adapter' = [Reset(adapter.epoch + 1) EXCEPT !.overflow = adapter.overflow]
  /\ broken' = FALSE
  /\ UNCHANGED <<queue, pending, version, seen, begun, collected, bounds>>

Next == \/ BeginReconcile \/ BeginRaises \/ Deadline \/ Answer \/ Lose \/ Change \/ Overflow
        \/ Observe \/ Distrust \/ ConnectionLost \/ Connect

Spec == Init /\ [][Next]_vars

Fair == WF_vars(Answer) /\ WF_vars(Observe) /\ WF_vars(Deadline)

-----------------------------------------------------------------------------
TypeOK == /\ engine.parts \subseteq Parts /\ engine.generation \in Nat
          /\ DOMAIN adapter.uncorrelated \subseteq Uncorrelated /\ seen <= version
          /\ engine.reconciled => engine.parts = Parts \/ engine.inflight

\* The adapter never has to refuse a snapshot (broker_snapshots.py:81): when none is in flight on
\* this connection, both unnumbered markers have arrived.
NeverRefused == engine.connected /\ ~engine.inflight => adapter.uncorrelated = Nothing

\* A snapshot becomes the operational view only when every part is an answer to a request made
\* after it began, and none is older than something the engine has observed meanwhile.
PublishedIsCurrent ==
  engine.inflight /\ engine'.reconciled /\ ~engine'.inflight =>
    \A p \in Parts : collected'[p] >= begun /\ collected'[p] >= seen

Waiting == engine.inflight
Ended   == ~engine.inflight \/ broken

\* Every snapshot ends, published or superseded, although numbered replies are lost; one whose
\* unnumbered reply was lost, or whose request raised, waits for the next connection.
SnapshotEnds == Waiting ~> Ended
=============================================================================
