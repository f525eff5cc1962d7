------------------------ MODULE OrderReducer_proofs ------------------------
(***************************************************************************)
(* Proofs about the reducer of broker callbacks, for every bound on the    *)
(* reported quantities and every set of permanent ids.                     *)
(***************************************************************************)
EXTENDS OrderReducer, TLAPS

Events == OrderEvents \cup RejectionEvents

USE DEF NoValue, RejectionCodes

-----------------------------------------------------------------------------
(* Lemmas about project_status and _order_observation. *)

(* Folding an observation yields a well-formed document (project_status). *)
LEMMA ProjectType ==
  ASSUME NEW old \in Docs, NEW obs \in Events
  PROVE  project_status(old, obs) \in Docs
<1> DEFINE new == project_status(old, obs)
<1>1. /\ obs.status \in Statuses /\ obs.filled \in Quantities \cup {NoValue}
      /\ obs.code \in Codes /\ obs.permanent \in PermanentIds \cup {0}
  <2>1. CASE obs \in OrderEvents
    BY <2>1 DEF OrderEvents, Codes
  <2>2. CASE obs \in RejectionEvents
    <3>1. "Rejected" \in Statuses
      BY DEF Statuses, KnownStatuses, TERMINAL
    <3> QED BY <2>2, <3>1 DEF RejectionEvents, Codes
  <2> QED BY <2>1, <2>2 DEF Events
<1>2. /\ old.status \in Statuses \cup {"absent"} /\ old.filled \in Quantities \cup {NoValue}
      /\ old.code \in Codes /\ old.permanent \in PermanentIds \cup {0}
      /\ old.conflict \in BOOLEAN
  BY DEF Docs
<1>3. new.status \in Statuses \cup {"absent"}
  BY <1>1, <1>2 DEF project_status
<1>4. new.filled \in Quantities \cup {NoValue}
  BY <1>1, <1>2 DEF project_status
<1>5. new.code \in Codes /\ new.permanent \in PermanentIds \cup {0}
  BY <1>1, <1>2 DEF project_status
<1>6. new.conflict \in BOOLEAN
  BY <1>2 DEF project_status
<1>7. new = [status |-> new.status, filled |-> new.filled, code |-> new.code,
             permanent |-> new.permanent, conflict |-> new.conflict]
  BY DEF project_status
<1> HIDE DEF new
<1>8. new \in Docs
  BY <1>3, <1>4, <1>5, <1>6, <1>7 DEF Docs
<1> QED BY <1>8 DEF new

(* A terminal document stays terminal under every observation. *)
LEMMA ProjectTerminal ==
  ASSUME NEW old, NEW obs, old.status \in TERMINAL
  PROVE  project_status(old, obs).status \in TERMINAL
BY DEF project_status, Disposition, TERMINAL, LateTerminal, LateRejection, LatePending,
       Reopens, AfterFill, Unexplained, KnownStatuses, PENDING, WORKING

(* A filled document stays filled under every observation. *)
LEMMA ProjectFilled ==
  ASSUME NEW old, NEW obs, old.status = "Filled"
  PROVE  project_status(old, obs).status = "Filled"
BY DEF project_status, Disposition, TERMINAL, LateTerminal, LateRejection, LatePending,
       Reopens, AfterFill, Unexplained, KnownStatuses, PENDING, WORKING

(* The row state that _order_observation computes is one the table can name. *)
LEMMA ObservedStateType ==
  ASSUME NEW st \in States, NEW rq, NEW status
  PROVE  ObservedState(st, rq, status) \in States
BY DEF ObservedState, States, ProjectedStates, STATES

(* _order_observation keeps the document, the row and the failure record well formed. *)
LEMMA ObservationType ==
  ASSUME TypeOK, NEW event \in Events
  PROVE  LET r == _order_observation(doc, state, request, failure, event)
         IN  r.doc \in Docs /\ r.state \in States /\ r.failure \in Failures
<1> DEFINE obs  == Normalised(doc, event)
           new  == project_status(doc, obs)
           next == ObservedState(state, request, new.status)
<1>1. obs \in Events
  <2>1. CASE event \in OrderEvents
    <3>1. "Rejected" \in Statuses
      BY DEF Statuses, KnownStatuses, TERMINAL
    <3>2. obs \in OrderEvents
      BY <2>1, <3>1 DEF OrderEvents, Normalised
    <3> QED BY <3>2 DEF Events
  <2>2. CASE event \in RejectionEvents
    <3>1. obs = event
      BY <2>2 DEF RejectionEvents, Normalised
    <3> QED BY <3>1
  <2> QED BY <2>1, <2>2 DEF Events
<1>2. new \in Docs
  BY <1>1, ProjectType DEF TypeOK
<1>3. next \in States
  BY ObservedStateType DEF TypeOK
<1>4. [doc EXCEPT !.conflict = TRUE] \in Docs
  BY DEF TypeOK, Docs
<1>5. failure \in Failures /\ Progressed(failure) \in Failures
  BY DEF TypeOK, Failures, Progressed
<1>6. ASSUME NEW seen \in Failures
      PROVE  NextFailure(seen, next, new) \in Failures
  <2>1. "rejected" \in States
    BY DEF States, ProjectedStates
  <2>2. new.code \in Codes
    BY <1>2 DEF Docs
  <2> HIDE DEF new, next
  <2> QED BY <1>3, <1>6, <2>1, <2>2 DEF Failures, NextFailure
<1> HIDE DEF obs, new, next
<1> QED BY <1>2, <1>3, <1>4, <1>5, <1>6 DEF _order_observation, obs, new, next, TypeOK

(* _order_observation never takes a document out of a terminal status. *)
LEMMA ObservationTerminal ==
  ASSUME NEW event, doc.status \in TERMINAL
  PROVE  _order_observation(doc, state, request, failure, event).doc.status \in TERMINAL
<1>1. [doc EXCEPT !.conflict = TRUE].status = doc.status
  OBVIOUS
<1>2. project_status(doc, Normalised(doc, event)).status \in TERMINAL
  BY ProjectTerminal
<1> QED BY <1>1, <1>2 DEF _order_observation

(* _order_observation never takes back a fill, in the document or in the row. *)
LEMMA ObservationFilled ==
  ASSUME NEW event
  PROVE  LET r == _order_observation(doc, state, request, failure, event)
         IN  /\ doc.status = "Filled" => r.doc.status = "Filled"
             /\ state = "filled" => r.state = "filled"
<1>1. [doc EXCEPT !.conflict = TRUE].status = doc.status
  OBVIOUS
<1>2. doc.status = "Filled" => project_status(doc, Normalised(doc, event)).status = "Filled"
  BY ProjectFilled
<1>3. \A status : state = "filled" => ObservedState(state, request, status) = "filled"
  BY DEF ObservedState
<1> QED BY <1>1, <1>2, <1>3 DEF _order_observation

-----------------------------------------------------------------------------
(* Every callback sequence leaves a well-formed document, row and failure   *)
(* record (OrderLedger._order_observation).                                 *)
THEOREM TypeCorrect == Spec => []TypeOK
<1>1. Init => TypeOK
  <2>1. EmptyDoc \in Docs
    BY DEF EmptyDoc, Docs, Codes
  <2>2. NoFailure \in Failures
    BY DEF NoFailure, Failures, Codes
  <2> QED BY <2>1, <2>2 DEF Init, TypeOK, States, ProjectedStates, Requests
<1>2. TypeOK /\ [Next]_vars => TypeOK'
  <2> SUFFICES ASSUME TypeOK, [Next]_vars PROVE TypeOK'
    OBVIOUS
  <2> USE DEF TypeOK
  <2>1. ASSUME NEW event \in Events, Apply(event), fresh' \in BOOLEAN PROVE TypeOK'
    BY <2>1, ObservationType DEF Apply
  <2>2. CASE Observe
    <3>1. PICK event \in OrderEvents : Apply(event) /\ fresh' = event.completed
      BY <2>2 DEF Observe
    <3>2. event.completed \in BOOLEAN
      BY DEF OrderEvents
    <3> QED BY <2>1, <3>1, <3>2 DEF Events
  <2>3. CASE ObserveRejection
    <3>1. PICK event \in RejectionEvents : Apply(event) /\ fresh' = FALSE
      BY <2>3 DEF ObserveRejection
    <3> QED BY <2>1, <3>1 DEF Events
  <2>4. CASE ObserveExecution
    BY <2>4 DEF ObserveExecution
  <2>5. CASE DispatchInterrupted
    BY <2>5 DEF DispatchInterrupted, States, ProjectedStates
  <2>6. CASE CancelEntry
    BY <2>6 DEF CancelEntry, States, ProjectedStates, Requests
  <2>7. CASE FlushCancellation
    BY <2>7 DEF FlushCancellation, Requests
  <2>8. CASE ReconcileCancellation
    BY <2>8 DEF ReconcileCancellation, Requests
  <2>9. CASE MissingFromSnapshot
    BY <2>9 DEF MissingFromSnapshot, States, ProjectedStates
  <2>10. CASE UNCHANGED vars
    BY <2>10 DEF vars
  <2> QED
    BY <2>2, <2>3, <2>4, <2>5, <2>6, <2>7, <2>8, <2>9, <2>10 DEF Next
<1> QED BY <1>1, <1>2, PTL DEF Spec

(* A delayed callback never reopens an order whose document is terminal.    *)
LEMMA TerminalStays == [Next]_vars => [doc.status \in TERMINAL => doc'.status \in TERMINAL]_vars
<1> SUFFICES ASSUME Next, doc.status \in TERMINAL PROVE doc'.status \in TERMINAL
  OBVIOUS
<1>1. ASSUME NEW event, Apply(event) PROVE doc'.status \in TERMINAL
  BY <1>1, ObservationTerminal DEF Apply
<1>2. CASE Observe \/ ObserveRejection
  BY <1>1, <1>2 DEF Observe, ObserveRejection
<1>3. CASE ~(Observe \/ ObserveRejection)
  BY <1>3 DEF Next, ObserveExecution, DispatchInterrupted, CancelEntry,
              FlushCancellation, ReconcileCancellation, MissingFromSnapshot
<1> QED BY <1>2, <1>3

(* Nor does a later status, rejection or cancellation take back a fill.     *)
THEOREM TerminalStaysTerminal == Spec => TerminalIsFinal
<1>1. [Next]_vars => [/\ doc.status = "Filled" => doc'.status = "Filled"
                      /\ state = "filled" => state' = "filled"]_vars
  <2> SUFFICES ASSUME Next
               PROVE  /\ doc.status = "Filled" => doc'.status = "Filled"
                      /\ state = "filled" => state' = "filled"
    OBVIOUS
  <2>1. ASSUME NEW event, Apply(event)
        PROVE  /\ doc.status = "Filled" => doc'.status = "Filled"
               /\ state = "filled" => state' = "filled"
    BY <2>1, ObservationFilled DEF Apply
  <2>2. CASE Observe \/ ObserveRejection
    BY <2>1, <2>2 DEF Observe, ObserveRejection
  <2>3. CASE ~(Observe \/ ObserveRejection)
    BY <2>3 DEF Next, ObserveExecution, DispatchInterrupted, CancelEntry,
                FlushCancellation, ReconcileCancellation, MissingFromSnapshot
  <2> QED BY <2>2, <2>3
<1>2. [Next]_vars => [/\ doc.status \in TERMINAL => doc'.status \in TERMINAL
                      /\ doc.status = "Filled" => doc'.status = "Filled"
                      /\ state = "filled" => state' = "filled"]_vars
  BY <1>1, TerminalStays
<1> QED BY <1>2, PTL DEF Spec, TerminalIsFinal

(* One order, one broker identity: the permanent id, once known, is kept.   *)
THEOREM PermanentIdIsKept == Spec => IdentityIsKept
<1>1. [Next]_vars => [doc.permanent # 0 => doc'.permanent = doc.permanent]_vars
  <2> SUFFICES ASSUME Next, doc.permanent # 0 PROVE doc'.permanent = doc.permanent
    OBVIOUS
  <2>1. ASSUME NEW event, Apply(event) PROVE doc'.permanent = doc.permanent
    <3> DEFINE obs == Normalised(doc, event)
    <3>1. [doc EXCEPT !.conflict = TRUE].permanent = doc.permanent
      OBVIOUS
    <3>2. ~IdentityChanged(doc, obs) => project_status(doc, obs).permanent = doc.permanent
      BY DEF project_status, IdentityChanged
    <3> HIDE DEF obs
    <3>3. doc' = IF IdentityChanged(doc, obs) THEN [doc EXCEPT !.conflict = TRUE]
                 ELSE project_status(doc, obs)
      BY <2>1 DEF Apply, _order_observation, obs
    <3> QED BY <3>1, <3>2, <3>3
  <2>2. CASE Observe \/ ObserveRejection
    BY <2>1, <2>2 DEF Observe, ObserveRejection
  <2>3. CASE ~(Observe \/ ObserveRejection)
    BY <2>3 DEF Next, ObserveExecution, DispatchInterrupted, CancelEntry,
                FlushCancellation, ReconcileCancellation, MissingFromSnapshot
  <2> QED BY <2>2, <2>3
<1> QED BY <1>1, PTL DEF Spec, IdentityIsKept

(* A contradiction recorded on the document is only cleared by a step that  *)
(* observes fresh completed-order evidence of a terminal status.            *)
THEOREM ConflictStays == Spec => ConflictIsSticky
<1>1. TypeOK /\ [Next]_vars => [doc.conflict /\ ~doc'.conflict
                                  => fresh' /\ doc'.status \in TERMINAL]_vars
  <2> SUFFICES ASSUME TypeOK, Next, doc.conflict, ~doc'.conflict
               PROVE  fresh' /\ doc'.status \in TERMINAL
    OBVIOUS
  <2>1. ASSUME NEW event \in Events, Apply(event)
        PROVE  event.completed /\ doc'.status \in TERMINAL
    <3> DEFINE obs == Normalised(doc, event)
    <3>1. obs.completed = event.completed
      BY DEF Normalised, Events, OrderEvents, RejectionEvents
    <3> HIDE DEF obs
    <3>2. CASE IdentityChanged(doc, obs)
      <4>1. doc' = [doc EXCEPT !.conflict = TRUE]
        BY <2>1, <3>2 DEF Apply, _order_observation, obs
      <4>2. doc'.conflict = TRUE
        BY <4>1 DEF TypeOK, Docs
      <4> QED BY <4>2
    <3>3. CASE ~IdentityChanged(doc, obs)
      <4>1. doc' = project_status(doc, obs)
        BY <2>1, <3>3 DEF Apply, _order_observation, obs
      <4>2. Disposition(doc, obs) = "applied" /\ obs.completed /\ obs.status \in TERMINAL
        BY <4>1 DEF project_status
      <4> QED BY <3>1, <4>1, <4>2 DEF project_status
    <3> QED BY <3>2, <3>3
  <2>2. CASE Observe
    BY <2>1, <2>2 DEF Observe, Events
  <2>3. CASE ObserveRejection
    <3>1. PICK event \in RejectionEvents : Apply(event)
      BY <2>3 DEF ObserveRejection
    <3> QED BY <2>1, <3>1 DEF Events, RejectionEvents
  <2>4. CASE ~(Observe \/ ObserveRejection)
    BY <2>4 DEF Next, ObserveExecution, DispatchInterrupted, CancelEntry,
                FlushCancellation, ReconcileCancellation, MissingFromSnapshot
  <2> QED BY <2>2, <2>3, <2>4
<1> QED BY <1>1, TypeCorrect, PTL DEF Spec, ConflictIsSticky

(* A rejection code and the rejected classification of the failure survive  *)
(* every later callback.                                                    *)
THEOREM RejectionStays == Spec => RejectionIsRemembered
<1> DEFINE Kept == doc.code \in RejectionCodes =>
                     /\ doc'.code \in RejectionCodes
                     /\ failure.kind = "rejected" => failure'.kind = "rejected"
<1>1. TypeOK /\ [Next]_vars => [Kept]_vars
  <2> SUFFICES ASSUME TypeOK, Next, doc.code \in RejectionCodes
               PROVE  /\ doc'.code \in RejectionCodes
                      /\ failure.kind = "rejected" => failure'.kind = "rejected"
    BY DEF Kept
  <2>1. ASSUME NEW event \in Events, Apply(event)
        PROVE  /\ doc'.code \in RejectionCodes
               /\ failure.kind = "rejected" => failure'.kind = "rejected"
    <3> DEFINE obs  == Normalised(doc, event)
               new  == project_status(doc, obs)
               next == ObservedState(state, request, new.status)
    <3>1. obs.code \in Codes
      BY DEF Normalised, Events, OrderEvents, RejectionEvents, Codes
    <3>2. new.code \in RejectionCodes
      BY <3>1 DEF project_status, Codes
    <3>3. Progressed(failure).kind = failure.kind
      BY DEF Progressed, TypeOK, Failures
    <3>4. ASSUME NEW seen, seen.kind = failure.kind, failure.kind = "rejected"
          PROVE  NextFailure(seen, next, new).kind = "rejected"
      BY <3>2, <3>4 DEF NextFailure
    <3> HIDE DEF obs, new, next
    <3>5. CASE IdentityChanged(doc, obs)
      <4>1. [doc EXCEPT !.conflict = TRUE].code = doc.code
        OBVIOUS
      <4>2. doc' = [doc EXCEPT !.conflict = TRUE] /\ failure' = failure
        BY <2>1, <3>5 DEF Apply, _order_observation, obs
      <4> QED BY <4>1, <4>2
    <3>6. CASE ~IdentityChanged(doc, obs)
      BY <2>1, <3>2, <3>3, <3>4, <3>6 DEF Apply, _order_observation, obs, new, next
    <3> QED BY <3>5, <3>6
  <2>2. CASE Observe \/ ObserveRejection
    BY <2>1, <2>2 DEF Observe, ObserveRejection, Events
  <2>3. CASE ~(Observe \/ ObserveRejection)
    BY <2>3 DEF Next, ObserveExecution, DispatchInterrupted, CancelEntry,
                FlushCancellation, ReconcileCancellation, MissingFromSnapshot
  <2> QED BY <2>2, <2>3
<1> QED BY <1>1, TypeCorrect, PTL DEF Spec, RejectionIsRemembered, Kept

(* While a cancellation request is unconfirmed no callback turns the row    *)
(* back into a live order (_order_observation, cancel_entry).               *)
THEOREM CancellationStaysLatched == Spec => []CancellationLatched
<1> USE DEF CancellationLatched, CancelLatched
<1>1. Init => CancellationLatched
  BY DEF Init
<1>2. CancellationLatched /\ [Next]_vars => CancellationLatched'
  <2> SUFFICES ASSUME CancellationLatched, [Next]_vars PROVE CancellationLatched'
    OBVIOUS
  <2>1. ASSUME NEW event, Apply(event) PROVE CancellationLatched'
    <3>1. \A status : request \in CancelLatched
                        => ObservedState(state, request, status) \notin {"working", "dispatching"}
      BY DEF ObservedState
    <3> QED BY <2>1, <3>1 DEF Apply, _order_observation
  <2>2. CASE Observe \/ ObserveRejection
    BY <2>1, <2>2 DEF Observe, ObserveRejection
  <2>3. CASE ~(Observe \/ ObserveRejection)
    BY <2>3 DEF Next, ObserveExecution, DispatchInterrupted, CancelEntry,
                FlushCancellation, ReconcileCancellation, MissingFromSnapshot, vars
  <2> QED BY <2>2, <2>3
<1> QED BY <1>1, <1>2, PTL DEF Spec

-----------------------------------------------------------------------------
(* RowAgreesWithTerminalDoc is not inductive alone: a row that reads filled *)
(* ignores every status, so it must be known that only a filled document    *)
(* ever made it so.                                                         *)
RowInv == RowAgreesWithTerminalDoc /\ (state = "filled" => doc.status = "Filled")

(* _order_observation keeps the row in step with a terminal document.       *)
LEMMA ObservationAgrees ==
  ASSUME RowInv, NEW event
  PROVE  LET r == _order_observation(doc, state, request, failure, event)
         IN  /\ r.doc.status \in TERMINAL => r.state = STATES(r.doc.status)
             /\ r.state = "filled" => r.doc.status = "Filled"
<1> DEFINE obs == Normalised(doc, event)
           new == project_status(doc, obs)
<1>1. [doc EXCEPT !.conflict = TRUE].status = doc.status
  OBVIOUS
<1>2. doc.status = "Filled" => new.status = "Filled"
  BY ProjectFilled
<1>3. \A status : status \in TERMINAL /\ (state = "filled" => status = "Filled")
                    => ObservedState(state, request, status) = STATES(status)
  BY DEF ObservedState, STATES, TERMINAL, PENDING, WORKING
<1>4. \A status : ObservedState(state, request, status) = "filled"
                    => state = "filled" \/ status = "Filled"
  BY DEF ObservedState, STATES
<1> HIDE DEF obs, new
<1> QED BY <1>1, <1>2, <1>3, <1>4 DEF _order_observation, RowInv,
           RowAgreesWithTerminalDoc, obs, new

(* Once its document is terminal the row agrees with it, whatever callbacks *)
(* and cancellations follow (_order_observation, cancel_entry).             *)
THEOREM RowAgrees == Spec => []RowAgreesWithTerminalDoc
<1> USE DEF RowInv, RowAgreesWithTerminalDoc
<1>1. Init => RowInv
  BY DEF Init, EmptyDoc, TERMINAL
<1>2. RowInv /\ [Next]_vars => RowInv'
  <2> SUFFICES ASSUME RowInv, [Next]_vars PROVE RowInv'
    OBVIOUS
  <2>1. ASSUME NEW event, Apply(event) PROVE RowInv'
    BY <2>1, ObservationAgrees DEF Apply
  <2>2. CASE Observe \/ ObserveRejection
    BY <2>1, <2>2 DEF Observe, ObserveRejection
  <2>3. CASE DispatchInterrupted
    BY <2>3 DEF DispatchInterrupted, EmptyDoc, TERMINAL
  <2>4. doc.status \in TERMINAL => state \in {"cancelled", "filled", "rejected"}
    BY DEF STATES, TERMINAL, PENDING, WORKING
  <2>5. CASE CancelEntry \/ MissingFromSnapshot
    BY <2>4, <2>5 DEF CancelEntry, MissingFromSnapshot
  <2>6. CASE ObserveExecution \/ FlushCancellation \/ ReconcileCancellation \/ UNCHANGED vars
    BY <2>6 DEF ObserveExecution, FlushCancellation, ReconcileCancellation, vars
  <2> QED BY <2>2, <2>3, <2>5, <2>6 DEF Next
<1>3. RowInv => RowAgreesWithTerminalDoc
  OBVIOUS
<1> QED BY <1>1, <1>2, <1>3, PTL DEF Spec

-----------------------------------------------------------------------------
(* Folding the same observation twice: the disposition is the same, ...     *)
LEMMA SameDisposition ==
  ASSUME NEW old \in Docs, NEW obs \in Events
  PROVE  Disposition(project_status(old, obs), obs) = Disposition(old, obs)
<1> DEFINE new == project_status(old, obs)
<1>1. obs.code # 0 => obs.status = "Rejected"
  BY DEF Events, OrderEvents, RejectionEvents
<1>2. obs.code \in Codes /\ old.code \in Codes
  BY DEF Events, OrderEvents, RejectionEvents, Codes, Docs
<1>3. CASE Disposition(old, obs) = "applied"
  <2>1. new.status = obs.status
    BY <1>3 DEF project_status
  <2> HIDE DEF new
  <2>2. Disposition(new, obs) = "applied"
    BY <2>1 DEF Disposition, LateTerminal, LateRejection, LatePending, Reopens, AfterFill,
                Unexplained, KnownStatuses, PENDING, WORKING, TERMINAL
  <2> QED BY <1>3, <2>2 DEF new
<1>4. CASE Disposition(old, obs) # "applied"
  <2>1. new.status = old.status /\ new.code = IF obs.code # 0 THEN obs.code ELSE old.code
    BY <1>4 DEF project_status
  <2> HIDE DEF new
  <2>2. Disposition(new, obs) = Disposition(old, obs)
    BY <1>1, <1>2, <1>4, <2>1
       DEF Disposition, LateTerminal, LateRejection, LatePending, Reopens, AfterFill,
           Unexplained, KnownStatuses, PENDING, WORKING, TERMINAL, Codes
  <2> QED BY <2>2 DEF new
<1> QED BY <1>3, <1>4

(* ... so is the document, ...                                              *)
LEMMA SameDocument ==
  ASSUME NEW old \in Docs, NEW obs \in Events
  PROVE  project_status(project_status(old, obs), obs) = project_status(old, obs)
<1> DEFINE new == project_status(old, obs)
<1>1. Disposition(new, obs) = Disposition(old, obs)
  BY SameDisposition
<1>2. new = [status |-> new.status, filled |-> new.filled, code |-> new.code,
             permanent |-> new.permanent, conflict |-> new.conflict]
  BY DEF project_status
<1>3. /\ new.status = IF Disposition(old, obs) = "applied" THEN obs.status ELSE old.status
      /\ Disposition(old, obs) = "applied" /\ obs.filled # -1 => new.filled = obs.filled
      /\ obs.code # 0 => new.code = obs.code
      /\ obs.permanent # 0 => new.permanent = obs.permanent
      /\ Disposition(old, obs) = "conflict" => new.conflict = TRUE
      /\ Disposition(old, obs) = "applied" /\ obs.completed /\ obs.status \in TERMINAL
           => new.conflict = FALSE
  BY DEF project_status
<1> HIDE DEF new
<1>4. project_status(new, obs) = new
  BY <1>1, <1>2, <1>3 DEF project_status
<1> QED BY <1>4 DEF new

(* ... and the row.                                                         *)
LEMMA SameState ==
  ASSUME NEW st, NEW rq, NEW status
  PROVE  ObservedState(ObservedState(st, rq, status), rq, status) = ObservedState(st, rq, status)
BY DEF ObservedState, STATES

(* ... and a failure without progress in between.                           *)
LEMMA SameFailure ==
  ASSUME NEW f, NEW st, NEW old
  PROVE  NextFailure(NextFailure(f, st, old), st, old) = NextFailure(f, st, old)
<1> DEFINE kind == IF old.code \in RejectionCodes THEN "rejected" ELSE st
           same == [kind |-> kind, code |-> old.code, progress |-> FALSE]
<1>1. \A g : NextFailure(g, st, old) = IF g = same THEN g ELSE same
  BY DEF NextFailure
<1> HIDE DEF same
<1>2. \A g : NextFailure(g, st, old) = same
  BY <1>1
<1> QED BY <1>2

(* A broker callback delivered again changes neither the document, the row  *)
(* nor the failure record that holds the incident's episode (OrderLedger).  *)
THEOREM DuplicateChangesNothing == Spec => []DuplicateIsHarmless
<1>1. TypeOK => DuplicateIsHarmless
  <2> SUFFICES ASSUME TypeOK, NEW event \in Events
               PROVE  LET once  == _order_observation(doc, state, request, failure, event)
                          twice == _order_observation(once.doc, once.state, request,
                                                      once.failure, event)
                      IN  /\ twice.doc = once.doc
                          /\ twice.state = once.state
                          /\ twice.failure = once.failure
    BY DEF DuplicateIsHarmless, Events
  <2> DEFINE obs  == Normalised(doc, event)
             new  == project_status(doc, obs)
             next == ObservedState(state, request, new.status)
             disp == Disposition(doc, obs)
             once == _order_observation(doc, state, request, failure, event)
             twice == _order_observation(once.doc, once.state, request, once.failure, event)
  <2>1. obs \in Events /\ doc \in Docs
    <3>1. "Rejected" \in Statuses
      BY DEF Statuses, KnownStatuses, TERMINAL
    <3>2. CASE event \in OrderEvents
      BY <3>1, <3>2 DEF OrderEvents, Normalised, Events, TypeOK
    <3>3. CASE event \in RejectionEvents
      BY <3>3 DEF RejectionEvents, Normalised, Events, TypeOK
    <3> QED BY <3>2, <3>3 DEF Events
  <2>2. Normalised(new, event) = obs
    BY DEF Normalised, project_status, Events, OrderEvents, RejectionEvents
  <2>3. CASE IdentityChanged(doc, obs)
    <3> DEFINE held == [doc EXCEPT !.conflict = TRUE]
    <3>1. once.doc = held /\ once.state = state /\ once.failure = failure
      BY <2>3 DEF _order_observation
    <3>2. held.code = doc.code /\ held.permanent = doc.permanent
          /\ [held EXCEPT !.conflict = TRUE] = held
      BY <2>1 DEF Docs
    <3> HIDE DEF held, once
    <3>3. Normalised(held, event) = obs
      BY <3>2 DEF Normalised
    <3>4. IdentityChanged(held, obs)
      BY <2>3, <3>2 DEF IdentityChanged
    <3>5. _order_observation(held, state, request, failure, event).doc = held
          /\ _order_observation(held, state, request, failure, event).state = state
          /\ _order_observation(held, state, request, failure, event).failure = failure
      BY <3>2, <3>3, <3>4 DEF _order_observation
    <3> QED BY <3>1, <3>5 DEF once
  <2>4. CASE ~IdentityChanged(doc, obs)
    <3> DEFINE works == new.status \in WORKING /\ ~new.conflict /\ new.code = 0
                        /\ disp = "applied"
               Seen(f) == IF works THEN Progressed(f) ELSE f
               Fail(f) == IF Failed(next, new, obs) THEN NextFailure(Seen(f), next, new)
                          ELSE Seen(f)
    <3>1. once.doc = new /\ once.state = next /\ once.failure = Fail(failure)
      <4> HIDE DEF obs, new, next
      <4> QED BY <2>4 DEF _order_observation, obs, new, next
    <3>2. ~IdentityChanged(new, obs)
      BY <2>4 DEF IdentityChanged, project_status
    <3>3. /\ project_status(new, obs) = new /\ Disposition(new, obs) = disp
          /\ ObservedState(next, request, new.status) = next
      BY <2>1, SameDocument, SameDisposition, SameState
    <3>4. works => ~Failed(next, new, obs)
      <4> SUFFICES ASSUME works PROVE ~Failed(next, new, obs)
        OBVIOUS
      <4>1. obs.code \notin RejectionCodes
        BY DEF project_status
      <4>2. next \notin {"rejected", "unknown"}
        BY DEF ObservedState, STATES, WORKING, PENDING
      <4> QED BY <4>1, <4>2 DEF Failed
    <3>5. Progressed(Progressed(failure)) = Progressed(failure)
      BY DEF Progressed, TypeOK, Failures
    <3> HIDE DEF obs, new, next, disp, once, works
    <3>6. Fail(Fail(failure)) = Fail(failure)
      <4>1. CASE works
        BY <3>4, <3>5, <4>1
      <4>2. CASE ~works
        <5>1. NextFailure(NextFailure(failure, next, new), next, new)
                = NextFailure(failure, next, new)
          BY SameFailure
        <5> QED BY <4>2, <5>1
      <4> QED BY <4>1, <4>2
    <3>7. LET r == _order_observation(new, next, request, Fail(failure), event)
          IN  r.doc = new /\ r.state = next /\ r.failure = Fail(Fail(failure))
      BY <2>2, <3>2, <3>3 DEF _order_observation, works
    <3> QED BY <3>1, <3>6, <3>7 DEF once
  <2> QED BY <2>3, <2>4
<1> QED BY <1>1, TypeCorrect, PTL
=============================================================================
