---------------------------- MODULE OrderReducer ----------------------------
(***************************************************************************)
(* One dispatched order under every sequence of broker callbacks: status,  *)
(* open-order, completed-order and rejection callbacks may be late,        *)
(* repeated, reordered or contradictory.  The engine folds each one with   *)
(* _order_observation; in between it may ask for the order's cancellation, *)
(* send that request, and confirm it from a reconciliation.                *)
(***************************************************************************)
EXTENDS OrderStatus

CONSTANTS
  MaxFilled,      \* largest quantity a callback reports
  PermanentIds    \* permanent ids the broker may report

ASSUME ReducerAssumption ==
  /\ MaxFilled \in Nat
  /\ PermanentIds \subseteq Nat \ {0}

VARIABLES
  doc,        \* the durable broker_order document
  state,      \* the state of the outbox row
  request,    \* the durable cancel_request: "none", "queued", "pending", "confirmed"
  failure,    \* the durable order_failure record
  executed,   \* an execution of this order is recorded
  fresh       \* history: the last step observed completed-order evidence

vars == <<doc, state, request, failure, executed, fresh>>

Quantities == 0 .. MaxFilled
Codes == {0} \cup RejectionCodes

Docs ==
  [status: Statuses \cup {"absent"}, filled: Quantities \cup {NoValue}, code: Codes,
   permanent: PermanentIds \cup {0}, conflict: BOOLEAN]

\* What orderStatus, openOrder and completedOrder may carry, and a rejection error.
OrderEvents ==
  [status: Statuses, filled: Quantities \cup {NoValue}, code: {0},
   permanent: PermanentIds \cup {0}, completed: BOOLEAN]
RejectionEvents ==
  {[status |-> "Rejected", filled |-> NoValue, code |-> c, permanent |-> 0,
    completed |-> FALSE] : c \in RejectionCodes}

States == ProjectedStates
Requests == {"none", "queued", "pending", "confirmed"}
Failures == [kind: {"none"} \cup States, code: Codes, progress: BOOLEAN]

TypeOK ==
  /\ doc \in Docs
  /\ state \in States
  /\ request \in Requests
  /\ failure \in Failures
  /\ executed \in BOOLEAN
  /\ fresh \in BOOLEAN

\* The row right after mark_dispatch: nothing has been heard of the order.
Init ==
  /\ doc = EmptyDoc
  /\ state = "dispatching"
  /\ request = "none"
  /\ failure = NoFailure
  /\ executed = FALSE
  /\ fresh = FALSE

-----------------------------------------------------------------------------
Apply(event) ==
  LET r == _order_observation(doc, state, request, failure, event)
  IN  /\ doc' = r.doc /\ state' = r.state /\ failure' = r.failure
      /\ UNCHANGED <<request, executed>>

\* observe: order_status and open_order callbacks
Observe == \E event \in OrderEvents : Apply(event) /\ fresh' = event.completed

\* observe: broker_error 201 or 10318 about an order the application owns
ObserveRejection ==
  \E event \in RejectionEvents :
    /\ event.code = 10318 => _initial_quantity_rejection(doc, state, executed)
    /\ Apply(event)
    /\ fresh' = FALSE

\* _execution: a fill of this order becomes durable
ObserveExecution ==
  /\ executed' = TRUE
  /\ fresh' = FALSE
  /\ UNCHANGED <<doc, state, request, failure>>

\* submit_bracket raised: the outcome of the dispatch is unknown.
DispatchInterrupted ==
  /\ state = "dispatching" /\ doc = EmptyDoc
  /\ state' = "unknown"
  /\ fresh' = FALSE
  /\ UNCHANGED <<doc, request, failure, executed>>

\* Mutant of CancelEntry: only a filled order is left alone.
CancelEntry_Finished ==
  /\ state \notin {"cancel_pending", "filled"}
  /\ state' = "cancel_pending"
  /\ request' = IF request = "none" THEN "queued" ELSE request
  /\ fresh' = FALSE
  /\ UNCHANGED <<doc, failure, executed>>

(* cancel_entry: the row is marked first, then the request is stored unless *)
(* the order already has one.                                               *)
CancelEntry ==
  /\ state \notin {"cancel_pending", "cancelled", "filled", "rejected"}
  /\ state' = "cancel_pending"
  /\ request' = IF request = "none" THEN "queued" ELSE request
  /\ fresh' = FALSE
  /\ UNCHANGED <<doc, failure, executed>>

\* _flush_cancellations
FlushCancellation ==
  /\ request = "queued"
  /\ request' = "pending"
  /\ fresh' = FALSE
  /\ UNCHANGED <<doc, state, failure, executed>>

\* _reconcile_cancellations: only a terminal status proves the cancellation.
ReconcileCancellation ==
  /\ request # "none" /\ doc.status \in TERMINAL
  /\ request' = "confirmed"
  /\ fresh' = FALSE
  /\ UNCHANGED <<doc, state, failure, executed>>

\* _identity_issues: a row believed live is missing from a published snapshot.
MissingFromSnapshot ==
  /\ state \in {"working", "cancel_pending"}
  /\ state' = "unknown"
  /\ fresh' = FALSE
  /\ UNCHANGED <<doc, request, failure, executed>>

Next ==
  \/ Observe \/ ObserveRejection \/ ObserveExecution
  \/ DispatchInterrupted
  \/ CancelEntry \/ FlushCancellation \/ ReconcileCancellation
  \/ MissingFromSnapshot

Spec == Init /\ [][Next]_vars

-----------------------------------------------------------------------------
(* A delayed callback never reopens an order: once the document is terminal *)
(* it stays terminal, whatever arrives afterwards (project_status); and a   *)
(* fill is the strongest evidence: no later status, rejection or            *)
(* cancellation takes the row or the document away from filled.             *)
TerminalIsFinal ==
  [][ /\ doc.status \in TERMINAL => doc'.status \in TERMINAL
      /\ doc.status = "Filled" => doc'.status = "Filled"
      /\ state = "filled" => state' = "filled" ]_vars

(* Once the row's document is terminal the row agrees with it: no callback  *)
(* order leaves a finished order displayed as live, uncertain or cancelling *)
(* (_order_observation's transition against cancel_entry's early return).   *)
RowAgreesWithTerminalDoc ==
  doc.status \in TERMINAL => state = STATES(doc.status)

(* The cancellation intent stays latched: while the request is unconfirmed  *)
(* no working or pending callback turns the row back into a live order.     *)
CancellationLatched == request \in CancelLatched => state \notin {"working", "dispatching"}

(* Contradictory terminal evidence is only cleared by fresh completed-order *)
(* evidence, never by the next ordinary callback.                           *)
ConflictIsSticky ==
  [][doc.conflict /\ ~doc'.conflict => fresh' /\ doc'.status \in TERMINAL]_vars

(* A rejected order is never filed as a plain cancellation: a rejection     *)
(* code, once recorded, survives every later callback, and the failure      *)
(* record that holds the incident stays classified as a rejection.          *)
RejectionIsRemembered ==
  [][ doc.code \in RejectionCodes =>
        /\ doc'.code \in RejectionCodes
        /\ failure.kind = "rejected" => failure'.kind = "rejected" ]_vars

(* One order, one broker identity: a known permanent id is neither erased   *)
(* nor replaced by a later callback.                                        *)
IdentityIsKept == [][doc.permanent # 0 => doc'.permanent = doc.permanent]_vars

(* A repeated callback is harmless: folding it a second time changes neither *)
(* the document, the row nor the failure record (the incident's episode).    *)
DuplicateIsHarmless ==
  \A event \in OrderEvents \cup RejectionEvents :
    LET once  == _order_observation(doc, state, request, failure, event)
        twice == _order_observation(once.doc, once.state, request, once.failure, event)
    IN  /\ twice.doc = once.doc
        /\ twice.state = once.state
        /\ twice.failure = once.failure
=============================================================================
