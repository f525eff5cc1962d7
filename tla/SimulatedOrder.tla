----------------------------- MODULE SimulatedOrder -----------------------------
(***************************************************************************)
(* The orchestrator of a simulated order (simulation_orchestration.py):    *)
(* bars, signal, proposal, risk decision, order, ticket and then, when     *)
(* approved, the execution at the fake broker and the position.  Every     *)
(* step journals before it changes what is in memory, and the journal may  *)
(* raise; a caller may then ask again with the same ids.                   *)
(***************************************************************************)
EXTENDS Integers, Sequences, FiniteSets, SequencesExt, FiniteSetsExt

CONSTANTS Orders,      \* the order of a run, its ticket and its client id carry the same name
          Setups       \* what is replayed, the policy, the requests, and bounds: [raises, calls, stops]

VARIABLES
  setup,
  runs,        \* status of a simulation run
  signals,     \* signals in the journal
  sources,     \* of an order: the signal that its proposal names, 0 for none
  risks,       \* of an order: the last risk decision
  history,     \* transitions of orders in the journal: [id, order, to, at, approval, broker, filled]
  tickets,     \* [status, at] of a ticket
  decisions,   \* [id, ticket, at] of the decisions taken
  exchange,    \* [order, state] of the fake broker's transitions
  results,     \* executions that have ended
  position,    \* of an order: [updates, protected, alerts, dispatched, recorded]
  stopped,
  op,          \* the operation under way: what it still has to do
  bounds
vars == <<setup, runs, signals, sources, risks, history, tickets, decisions, exchange, results, position, stopped, op, bounds>>

Nothing == [none |-> TRUE]
NoTicket == [status |-> "absent", at |-> 0]
NoOrder == [state |-> "none", at |-> 0, approval |-> "none", broker |-> 0, filled |-> 0]

-----------------------------------------------------------------------------
(* What is computed: bars, the signal, the risk checks.                    *)

SumOf(f, S) == FoldSet(LAMBDA k, n : f[k] + n, 0, S)
\* Bars of the trades [at, price, volume], which are in order: one for each bucket with a trade.
BucketStart(e) == e.at - (e.at % 5)
BuildTimeBars(events) ==
  LET starts == SetToSortSeq({BucketStart(events[k]) : k \in DOMAIN events}, <)
      In(s) == {k \in DOMAIN events : BucketStart(events[k]) = s} IN
  [b \in DOMAIN starts |-> [start |-> starts[b], high |-> Max({events[k].price : k \in In(starts[b])}),
                            volume |-> SumOf([k \in DOMAIN events |-> events[k].volume], In(starts[b]))]]
\* The sessions are as long as the day.
ValidSessions(bars, sessions) == \A s \in sessions : Len(s) >= Len(bars)
Cumulative(volumes, b) == SumOf(volumes, 1..b)
\* The first bar above the first one's high, when the volume of the day is at least the average's
\* multiple; 0 for none.  A bar that breaks out without the volume ends the search.
Breakout(bars, sessions, multiplier) ==
  LET above == {b \in 2..Len(bars) : bars[b].high > bars[1].high}
      b == Min(above)
      average == FoldSet(LAMBDA s, n : Cumulative(s, b) + n, 0, sessions) IN
  IF above = {} \/ Cumulative([k \in DOMAIN bars |-> bars[k].volume], b) * Cardinality(sessions) < multiplier * average THEN 0 ELSE b

Bars == BuildTimeBars(setup.events)
SignalBar == Breakout(Bars, setup.sessions, setup.multiplier)
Reference == Bars[SignalBar].high
\* In the time of the replay a signal is evaluated ten seconds after its bar, which is less than a unit.
RiskEvaluatedAt == IF setup.domain = "request" THEN setup.evaluated ELSE Bars[SignalBar].start + 5
RunChecks ==
  /\ setup.allowed /\ ~setup.duplicate /\ setup.known
  /\ RiskEvaluatedAt - (Bars[SignalBar].start + 5) \in 0..setup.age
  /\ setup.quantity <= setup.most /\ setup.quantity * Reference <= setup.notional
  /\ Bars[1].high < Reference

-----------------------------------------------------------------------------
(* The state machine of an order, over the transitions of a journal.       *)

AllowedTransitions ==
  [none |-> {"CREATED"}, CREATED |-> {"PENDING_APPROVAL", "RISK_REJECTED"}, PENDING_APPROVAL |-> {"APPROVED", "APPROVAL_REJECTED"},
   APPROVED |-> {"SUBMITTED"}, SUBMITTED |-> {"ACKNOWLEDGED", "REJECTED", "FAILED", "UNKNOWN"},
   ACKNOWLEDGED |-> {"PARTIALLY_FILLED", "FILLED", "CANCEL_REQUESTED", "REJECTED", "FAILED", "UNKNOWN"},
   PARTIALLY_FILLED |-> {"PARTIALLY_FILLED", "FILLED", "CANCEL_REQUESTED", "FAILED", "UNKNOWN"},
   CANCEL_REQUESTED |-> {"CANCELLED", "FAILED", "UNKNOWN"},
   FILLED |-> {}, CANCELLED |-> {}, REJECTED |-> {}, FAILED |-> {}, UNKNOWN |-> {}, RISK_REJECTED |-> {}, APPROVAL_REJECTED |-> {}]
BeforeApproval == {"CREATED", "PENDING_APPROVAL", "RISK_REJECTED", "APPROVAL_REJECTED"}
BrokerStates == {"ACKNOWLEDGED", "PARTIALLY_FILLED", "FILLED", "CANCELLED", "REJECTED", "FAILED", "UNKNOWN"}
\* What a transition leaves: a reference that it does not carry stays as it was.
NextSnapshot(w, t) == [state |-> t.to, at |-> t.at, approval |-> IF t.approval = "none" THEN w.approval ELSE t.approval,
                       broker |-> IF t.broker = 0 THEN w.broker ELSE t.broker, filled |-> t.filled]
ValidateFill(w, t) ==
  CASE t.to = "PARTIALLY_FILLED" -> w.filled < t.filled /\ t.filled < setup.quantity
    [] t.to = "FILLED" -> t.filled = setup.quantity
    [] OTHER -> t.filled = w.filled
\* A snapshot says what is still open: nothing, once the order has ended.
Terminal == {"RISK_REJECTED", "APPROVAL_REJECTED", "FILLED", "CANCELLED", "REJECTED", "FAILED"}
Leaves(w) == IF w.state \in Terminal THEN 0 ELSE setup.quantity - w.filled
ValidSnapshot(w) == w.filled >= 0 /\ Leaves(w) >= 0 /\ w.filled + Leaves(w) <= setup.quantity
ValidateTransition(w, t) ==
  /\ t.to \in AllowedTransitions[w.state] /\ t.at >= w.at /\ ValidateFill(w, t)
  /\ t.to \notin BeforeApproval => NextSnapshot(w, t).approval # "none"
  /\ t.to \in BrokerStates => NextSnapshot(w, t).broker # 0
  /\ ValidSnapshot(NextSnapshot(w, t))
Of(o) == SelectSeq(history, LAMBDA t : t.order = o)
Snapshot(o) == FoldLeft(NextSnapshot, NoOrder, Of(o))
BrokerState(o) == LET s == SelectSeq(exchange, LAMBDA x : x.order = o) IN IF s = <<>> THEN "none" ELSE Last(s).state

-----------------------------------------------------------------------------
Init ==
  /\ setup \in Setups /\ bounds = setup.bounds
  /\ runs = [o \in Orders |-> "absent"] /\ signals = 0 /\ sources = [o \in Orders |-> 0] /\ risks = [o \in Orders |-> "none"]
  /\ history = <<>> /\ tickets = [o \in Orders |-> NoTicket] /\ decisions = {} /\ exchange = <<>> /\ results = {}
  /\ position = [o \in Orders |-> [updates |-> 0, protected |-> TRUE, alerts |-> 0, dispatched |-> 0, recorded |-> FALSE]]
  /\ stopped = FALSE /\ op = Nothing

Spend(b) == bounds[b] > 0 /\ bounds' = [bounds EXCEPT ![b] = @ - 1]
RunTodo == << <<"create">>, <<"running">>, <<"strategy">>, <<"propose">>, <<"risk">>, <<"oms", "CREATED">>,
              <<"oms", "PENDING_APPROVAL">>, <<"ticket">>, <<"completed">> >>
Begin(kind, o, todo, request) == op' = [kind |-> kind, order |-> o, todo |-> todo, request |-> request]

Run(o) ==
  /\ op = Nothing /\ Spend("calls") /\ ~stopped
  /\ Begin("run", o, RunTodo, [id |-> o, at |-> setup.evaluated, reference |-> "none"])
  /\ UNCHANGED <<setup, runs, signals, sources, risks, history, tickets, decisions, exchange, results, position, stopped>>

\* What follows an approval, by the outcome asked of the fake broker.
ExecutionTodo(outcome) ==
  << <<"decide">>, <<"oms", "APPROVED">>, <<"oms", "SUBMITTED">> >> \o
  CASE outcome = "reject" -> << <<"broker", "rejected">>, <<"oms", "REJECTED">> >>
    [] outcome = "acknowledge_only" -> << <<"broker", "acknowledged">>, <<"oms", "ACKNOWLEDGED">> >>
    [] outcome = "fill" -> << <<"broker", "acknowledged">>, <<"oms", "ACKNOWLEDGED">>, <<"broker", "filled">>, <<"oms", "FILLED">> >>
    [] outcome = "cancel" -> << <<"broker", "acknowledged">>, <<"oms", "ACKNOWLEDGED">>, <<"oms", "CANCEL_REQUESTED">>,
                                <<"broker", "cancelled">>, <<"oms", "CANCELLED">> >>
\* The order must be pending, so an execution that failed after its approval is not taken up again.
ExecuteApprovedOrder(q) ==
  /\ op = Nothing /\ Spend("calls") /\ ~stopped /\ \A x \in results : x.id # q.id
  /\ Snapshot(q.order).state = "PENDING_APPROVAL" /\ sources[q.order] # 0
  /\ Begin("execution", q.order, ExecutionTodo(q.outcome) \o << <<"result">> >>, q)
  /\ UNCHANGED <<setup, runs, signals, sources, risks, history, tickets, decisions, exchange, results, position, stopped>>

\* A fill moves the position; when protection is missing an alert is made and dispatched.
RecordFill(o, protected) ==
  /\ op = Nothing /\ Spend("calls") /\ BrokerState(o) = "filled" /\ ~position[o].recorded
  /\ Begin("position", o, << <<"position", protected>> >> \o (IF protected THEN <<>> ELSE << <<"alert">>, <<"dispatch">> >>) \o << <<"recorded">> >>,
           [id |-> o])
  /\ UNCHANGED <<setup, runs, signals, sources, risks, history, tickets, decisions, exchange, results, position, stopped>>

-----------------------------------------------------------------------------
(* The steps.  One that was done under its id is not done again.           *)

RunAllowed == [absent |-> {}, created |-> {"running", "completed", "failed", "cancelled"}, running |-> {"completed", "failed", "cancelled"},
               completed |-> {}, failed |-> {}, cancelled |-> {}]
RunAt(status) == IF status \in {"completed", "failed"} THEN setup.evaluated ELSE setup.requested
TransitionRun(o, status) == status \in RunAllowed[runs[o]] /\ RunAt(status) >= setup.requested
RunDone(o, status) == runs[o] = status \/ (status = "running" /\ runs[o] \in {"completed", "failed"})
Transition(w) ==
  [id |-> <<op.request.id, w>>, order |-> op.order, to |-> w, at |-> op.request.at, approval |-> op.request.reference,
   broker |-> IF w \in BrokerStates THEN Len(exchange) ELSE 0, filled |-> IF w = "FILLED" THEN setup.quantity ELSE 0]
Applied(w) == \E k \in DOMAIN history : history[k].id = <<op.request.id, w>>
Decided(q) == [id |-> q.decision, ticket |-> q.ticket, at |-> q.at] \in decisions
ValidTicket(t) == t.status = "approved" => t.at <= setup.expires
\* Up to its last instant a ticket can be approved.
ValidateDecision(q) == /\ \A d \in decisions : d.id # q.decision
                       /\ tickets[q.ticket].status = "pending" /\ ValidTicket([status |-> "approved", at |-> q.at])
\* A ticket is made for a pending order whose risk decision passed.
ValidTicketRequest(o) == risks[o] = "passed" /\ Snapshot(o).state = "PENDING_APPROVAL" /\ setup.expires > setup.evaluated
\* The proposed stop is below the price at which the order was proposed.
ValidProposal == Bars[1].high < Reference
\* What the fake broker says of an order: all of it open, all of it filled, or nothing of either.
BrokerTransition(o, s) == [order |-> o, state |-> s, filled |-> IF s = "filled" THEN setup.quantity ELSE 0,
                           leaves |-> IF s = "acknowledged" THEN setup.quantity ELSE 0]
\* The fake broker takes a client id once, and ends only what it has acknowledged.
BrokerTakes(s) == IF s \in {"acknowledged", "rejected"} THEN BrokerState(op.order) = "none" ELSE BrokerState(op.order) = "acknowledged"

Step == Head(op.todo)
\* A step that is refused raises; so may each that writes to the journal.
Refused ==
  CASE Step[1] = "running" -> ~(RunDone(op.order, "running") \/ TransitionRun(op.order, "running"))
    [] Step[1] \in {"completed", "failed"} -> ~(RunDone(op.order, Step[1]) \/ TransitionRun(op.order, Step[1]))
    [] Step[1] = "strategy" -> ~ValidSessions(Bars, setup.sessions)
    [] Step[1] = "propose" -> sources[op.order] # 0 \/ ~ValidProposal \/ \E p \in Orders : sources[p] = signals
    [] Step[1] = "oms" -> ~(Applied(Step[2]) \/ ValidateTransition(Snapshot(op.order), Transition(Step[2])))
    [] Step[1] = "ticket" -> tickets[op.order] = NoTicket /\ ~ValidTicketRequest(op.order)
    [] Step[1] = "decide" -> ~(Decided(op.request) \/ ValidateDecision(op.request))
    [] Step[1] = "broker" -> ~BrokerTakes(Step[2])
    [] OTHER -> FALSE
\* After a failure a run is set to failed, and the failure of that leaves it as it is.
Raise ==
  /\ op # Nothing
  /\ \/ Refused /\ UNCHANGED bounds
     \/ ~Refused /\ Step[1] \notin {"result", "recorded"} /\ Spend("raises")
  /\ op' = IF op.kind = "run" /\ Step[1] \notin {"create", "running", "failed"} THEN [op EXCEPT !.todo = << <<"failed">> >>] ELSE Nothing
  /\ UNCHANGED <<setup, runs, signals, sources, risks, history, tickets, decisions, exchange, results, position, stopped>>

Continue(rest) == op' = IF rest = <<>> THEN Nothing ELSE [op EXCEPT !.todo = rest]
OnRun == /\ Step[1] \in {"create", "running", "completed", "failed"} /\ Continue(Tail(op.todo))
         /\ runs' = (IF Step[1] = "create" THEN [runs EXCEPT ![op.order] = IF @ = "absent" THEN "created" ELSE @]
                     ELSE IF RunDone(op.order, Step[1]) THEN runs ELSE [runs EXCEPT ![op.order] = Step[1]])
         /\ UNCHANGED <<signals, sources, risks, history, tickets, decisions, exchange, results, position>>
\* Without a signal, or with a blocked decision, the run is complete.
OnStrategy == /\ Step[1] = "strategy" /\ signals' = signals + (IF SignalBar = 0 THEN 0 ELSE 1)
              /\ Continue(IF SignalBar = 0 THEN << <<"completed">> >> ELSE Tail(op.todo))
              /\ UNCHANGED <<runs, sources, risks, history, tickets, decisions, exchange, results, position>>
OnProposal == /\ Step[1] = "propose" /\ sources' = [sources EXCEPT ![op.order] = signals] /\ Continue(Tail(op.todo))
              /\ UNCHANGED <<runs, signals, risks, history, tickets, decisions, exchange, results, position>>
OnRisk == /\ Step[1] = "risk" /\ risks' = [risks EXCEPT ![op.order] = IF RunChecks THEN "passed" ELSE "blocked"]
          /\ Continue(IF RunChecks THEN Tail(op.todo) ELSE << <<"completed">> >>)
          /\ UNCHANGED <<runs, signals, sources, history, tickets, decisions, exchange, results, position>>
ApplyTransition ==
  /\ Step[1] = "oms" /\ history' = (IF Applied(Step[2]) THEN history ELSE Append(history, Transition(Step[2])))
  /\ Continue(Tail(op.todo)) /\ UNCHANGED <<runs, signals, sources, risks, tickets, decisions, exchange, results, position>>
CreateTicket ==
  /\ Step[1] = "ticket" /\ tickets' = [tickets EXCEPT ![op.order] = IF @ = NoTicket THEN [status |-> "pending", at |-> 0] ELSE @]
  /\ Continue(Tail(op.todo)) /\ UNCHANGED <<runs, signals, sources, risks, history, decisions, exchange, results, position>>
\* The ticket is the one that the request names.
ApplyDecision ==
  /\ Step[1] = "decide" /\ Continue(Tail(op.todo))
  /\ LET q == op.request IN
     IF Decided(q) THEN UNCHANGED <<tickets, decisions>>
     ELSE /\ tickets' = [tickets EXCEPT ![q.ticket] = [status |-> "approved", at |-> q.at]]
          /\ decisions' = decisions \cup {[id |-> q.decision, ticket |-> q.ticket, at |-> q.at]}
  /\ UNCHANGED <<runs, signals, sources, risks, history, exchange, results, position>>
OnBroker == /\ Step[1] = "broker" /\ exchange' = Append(exchange, BrokerTransition(op.order, Step[2]))
            /\ Continue(Tail(op.todo)) /\ UNCHANGED <<runs, signals, sources, risks, history, tickets, decisions, results, position>>
OnResult == /\ Step[1] = "result" /\ results' = results \cup {op.request} /\ Continue(Tail(op.todo))
            /\ UNCHANGED <<runs, signals, sources, risks, history, tickets, decisions, exchange, position>>
OnPosition ==
  /\ Step[1] \in {"position", "alert", "dispatch", "recorded"} /\ Continue(Tail(op.todo))
  /\ position' = [position EXCEPT ![op.order] =
       CASE Step[1] = "position" -> [@ EXCEPT !.updates = @ + 1, !.protected = Step[2]]
         [] Step[1] = "alert" -> [@ EXCEPT !.alerts = 1]
         [] Step[1] = "dispatch" -> [@ EXCEPT !.dispatched = 1]
         [] OTHER -> [@ EXCEPT !.recorded = TRUE]]
  /\ UNCHANGED <<runs, signals, sources, risks, history, tickets, decisions, exchange, results>>
Perform ==
  /\ op # Nothing /\ ~Refused /\ UNCHANGED <<setup, stopped, bounds>>
  /\ \/ OnRun \/ OnStrategy \/ OnProposal \/ OnRisk \/ ApplyTransition \/ CreateTicket \/ ApplyDecision \/ OnBroker \/ OnResult \/ OnPosition

Toggle == /\ Spend("stops") /\ stopped' = ~stopped
          /\ UNCHANGED <<setup, runs, signals, sources, risks, history, tickets, decisions, exchange, results, position, op>>
Next == \/ Perform \/ Raise \/ Toggle
        \/ \E o \in Orders : Run(o) \/ \E p \in BOOLEAN : RecordFill(o, p)
        \/ \E q \in setup.requests : ExecuteApprovedOrder(q)
Spec == Init /\ [][Next]_vars

-----------------------------------------------------------------------------
TypeOK == /\ \A o \in Orders : runs[o] \in DOMAIN RunAllowed /\ Snapshot(o).state \in DOMAIN AllowedTransitions \cup {"none"}
          /\ \A o \in Orders : risks[o] \in {"none", "passed", "blocked"} /\ sources[o] \in 0..signals

\* The orders follow the fake broker and never run ahead of it: an order is said to be filled,
\* cancelled or rejected by a transition that names the broker's own transition into that state,
\* whatever raised in between; and a restored history, which applies the rules to every transition
\* again, is accepted.
OrderFollowsBroker ==
  \A k \in DOMAIN history :
    LET t == history[k]
        before == FoldLeft(NextSnapshot, NoOrder, SelectSeq(SubSeq(history, 1, k - 1), LAMBDA x : x.order = t.order)) IN
    /\ ValidateTransition(before, t)
    /\ t.to \in {"ACKNOWLEDGED", "FILLED", "CANCELLED", "REJECTED"} =>
         /\ exchange[t.broker].order = t.order /\ exchange[t.broker].filled = t.filled
         /\ exchange[t.broker].state = [ACKNOWLEDGED |-> "acknowledged", FILLED |-> "filled", CANCELLED |-> "cancelled", REJECTED |-> "rejected"][t.to]
\* What reaches the fake broker is one order per client id, of a risk decision that passed and of a
\* ticket approved before it expired, by the decision that the order names; an order whose requests
\* name its own ticket was approved on that one.
SubmittedAsApproved ==
  exchange' # exchange =>
    LET o == Last(exchange').order
        q == op.request IN
    /\ BrokerState(o) \in {"none", "acknowledged"} /\ risks[o] = "passed"
    /\ \E d \in decisions : /\ d.id = q.decision /\ tickets[d.ticket].status = "approved" /\ d.at \in setup.evaluated..setup.expires
                            /\ q.ticket = o => d.ticket = o
\* An entry that has been recorded without its protection has been alerted.
UnprotectedIsAlerted == \A o \in Orders : position[o].recorded /\ ~position[o].protected => position[o].dispatched = 1
=============================================================================
