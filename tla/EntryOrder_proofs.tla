------------------------- MODULE EntryOrder_proofs -------------------------
(***************************************************************************)
(* EntryOrder implements EntryCapacity, for every quantity and every bound *)
(* on connections, crashes and waiting callbacks.  The argument: a callback *)
(* that reports the end of the order is only ever sent after the order     *)
(* ended, and the end is final, so however late it is folded the document  *)
(* it leaves agrees with the broker; the row follows the document, and the *)
(* reservation follows a row that is over and whose reported quantity the  *)
(* executions add up to.                                                   *)
(***************************************************************************)
EXTENDS EntryOrder, SequenceTheorems, TLAPS

USE DEF NoValue

\* What the broker sends.
Messages ==
  [kind : {"status"}, status : {"Submitted", "Filled", "Cancelled"}, filled : 0..Qty]
  \cup [kind : {"exec"}, id : 1..Qty]
  \cup [kind : {"position"}, quantity : 0..Qty]
  \cup [kind : {"reject", "error"}]
  \cup [kind : {"answer"}, part : {"positions"}, quantity : 0..Qty]
  \cup [kind : {"answer"}, part : {"orders"}, status : {"Submitted", "none"}, filled : {NoValue}]
  \cup [kind : {"answer"}, part : {"completed"}, status : {"Filled", "Cancelled", "none"},
        filled : 0..Qty]
  \cup [kind : {"answer"}, part : {"executions"}, ids : SUBSET (1..Qty)]

Over == {"filled", "cancelled", "rejected"}

\* A callback that reports the end of the order is sent after it.
ReportsOrder(m) == m.kind = "status" \/ (m.kind = "answer" /\ m.part \in {"orders", "completed"})
Truth(m) ==
  /\ m.kind = "reject" => market = "rejected"
  /\ ReportsOrder(m) /\ m.status \in TERMINAL => market \in Over /\ m.filled = filled
Honest == {m \in Messages : Truth(m)}

\* The thread on its way to submit_bracket, and the intent before it is sent.
Unsent ==
  /\ pc = "guard" => outbox = "reserved"
  /\ pc = "submit" => outbox = "dispatching" /\ market = "none" /\ reservation = "active"
  /\ outbox = "none" => market = "none" /\ reservation = "none"
  /\ outbox = "reserved" => market = "none" /\ reservation = "active"

Unfilled == market \in {"none", "wire", "lost", "rejected"} => filled = 0

\* A terminal document reports an order that ended, with its final quantity.
DocOver == doc.status \in TERMINAL => /\ market \in Over
                                      /\ market = "rejected" \/ doc.filled = filled

\* A row ends with its document, or before anything was sent.
RowOver == outbox \in Finished => doc.status \in TERMINAL \/ market = "none"

\* The staged row carries the quantity of the document.
RowFresh == snapshot.row.seen => snapshot.inflight /\ snapshot.row.filled = doc.filled

Facts == Unsent /\ Unfilled /\ DocOver /\ RowOver /\ RowFresh
IInv  == TypeOK /\ inbox \in Seq(Honest) /\ Facts

-----------------------------------------------------------------------------
(* Callbacks.                                                              *)

\* The end of an order is final, so what was true of it stays true.
LEMMA HonestStays ==
  ASSUME market \in Over => market' = market /\ filled' = filled
  PROVE  Honest \subseteq Honest'
<1>1. ASSUME NEW m \in Messages, Truth(m) PROVE Truth(m)'
  BY <1>1 DEF Truth, Over
<1> QED BY <1>1 DEF Honest, Messages

LEMMA InboxStays ==
  ASSUME inbox \in Seq(Honest), market \in Over => market' = market /\ filled' = filled
  PROVE  inbox \in Seq(Honest')
BY HonestStays, SeqMonotonic

\* A callback is taken from the queue, and it is one that the broker sends.
LEMMA Taken ==
  ASSUME IInv, Take, UNCHANGED <<market, filled>>
  PROVE  /\ inbox' \in Seq(Honest') /\ Head(inbox) \in Messages /\ Truth(Head(inbox))
         /\ pc = "idle" /\ connected
<1>1. inbox \in Seq(Honest) /\ inbox # <<>>
  BY DEF IInv, Take
<1>2. Head(inbox) \in Honest /\ Tail(inbox) \in Seq(Honest)
  BY <1>1, HeadTailProperties
<1>3. Honest' = Honest
  BY DEF Honest, Truth, Messages
<1> QED BY <1>2, <1>3 DEF Take, Honest

\* The broker adds honest callbacks.
LEMMA Sends ==
  ASSUME IInv, market \in Over => market' = market /\ filled' = filled,
         NEW messages \in Seq(Honest'), inbox' = OnLink(messages)
  PROVE  inbox' \in Seq(Honest')
<1>1. inbox \in Seq(Honest')
  BY InboxStays DEF IInv
<1>2. inbox \o messages \in Seq(Honest')
  BY <1>1, ConcatProperties
<1> QED BY <1>1, <1>2 DEF OnLink

-----------------------------------------------------------------------------
(* The reducer.                                                            *)

Events == [status : Statuses, filled : {NoValue} \cup 0..Qty, code : {0, 201},
           permanent : {0}, completed : BOOLEAN]

LEMMA Words == /\ {"Submitted", "Filled", "Cancelled", "Rejected"} \subseteq Statuses
               /\ TERMINAL \subseteq Statuses
BY DEF Statuses, KnownStatuses, PENDING, WORKING, TERMINAL

LEMMA Normal == ASSUME NEW event \in Events
                PROVE  /\ Normalised(doc, event) \in Events
                       /\ Normalised(doc, event).filled = event.filled
                       /\ event.status # "Inactive" => Normalised(doc, event) = event
BY Words DEF Normalised, Events

LEMMA ReducedType ==
  ASSUME TypeOK, NEW event \in Events
  PROVE  /\ Reduced(event).doc \in [status : Statuses \cup {"absent"},
              filled : {NoValue} \cup 0..Qty, code : {0, 201}, permanent : {0}, conflict : BOOLEAN]
         /\ Reduced(event).state \in Rows \ {"none", "reserved"}
<1> DEFINE obs == Normalised(doc, event)
           new == project_status(doc, obs)
<1>1. obs \in Events
  BY Normal
<1>2. ~IdentityChanged(doc, obs)
  BY <1>1 DEF IdentityChanged, TypeOK
<1>3. Reduced(event).doc = new /\ Reduced(event).state = ObservedState(outbox, request.state, new.status)
  BY <1>2 DEF Reduced, _order_observation
<1>4. /\ new.status \in Statuses \cup {"absent"} /\ new.filled \in {NoValue} \cup 0..Qty
      /\ new.code \in {0, 201} /\ new.permanent \in {0} /\ new.conflict \in BOOLEAN
  <2>1. new.conflict \in BOOLEAN
    BY DEF project_status, TypeOK
  <2> QED BY <1>1, <2>1 DEF project_status, TypeOK, Events
<1>5. new = [status |-> new.status, filled |-> new.filled, code |-> new.code,
             permanent |-> new.permanent, conflict |-> new.conflict]
  BY DEF project_status
<1>6. \A status : ObservedState(outbox, request.state, status) \in ProjectedStates
  BY DEF ObservedState, STATES, ProjectedStates
<1> HIDE DEF new
<1>7. new \in [status : Statuses \cup {"absent"}, filled : {NoValue} \cup 0..Qty,
               code : {0, 201}, permanent : {0}, conflict : BOOLEAN]
  BY <1>4, <1>5
<1>8. Reduced(event).state \in ProjectedStates
  BY <1>3, <1>6
<1>9. Reduced(event).state \in Rows \ {"none", "reserved"}
  BY <1>8 DEF Rows, ProjectedStates
<1>10. Reduced(event).doc \in [status : Statuses \cup {"absent"}, filled : {NoValue} \cup 0..Qty,
                                code : {0, 201}, permanent : {0}, conflict : BOOLEAN]
  BY <1>3, <1>7
<1> QED BY <1>9, <1>10

\* A terminal document stays terminal.
LEMMA StaysTerminal ==
  ASSUME NEW old, NEW obs, old.status \in TERMINAL
  PROVE  project_status(old, obs).status \in TERMINAL
BY DEF project_status, Disposition, TERMINAL, LateTerminal, LateRejection, LatePending,
       Reopens, AfterFill, Unexplained, KnownStatuses, PENDING, WORKING

\* Folding a true report leaves a true document, and a row that ends with it.
LEMMA ReducedOver ==
  ASSUME TypeOK, Facts, NEW event \in Events, event.status # "Inactive",
         event.status \in TERMINAL => /\ market \in Over
                                      /\ market = "rejected" \/ event.filled = filled
  PROVE  LET r == Reduced(event)
         IN  /\ r.doc.status \in TERMINAL => /\ market \in Over
                                             /\ market = "rejected" \/ r.doc.filled = filled
             /\ RowAfter(r) \in Finished => r.doc.status \in TERMINAL \/ market = "none"
             /\ event.filled = NoValue => r.doc.filled = doc.filled
<1> DEFINE new == project_status(doc, event)
<1>1. Normalised(doc, event) = event
  BY Normal
<1>2. ~IdentityChanged(doc, event)
  BY DEF IdentityChanged, TypeOK, Events
<1>3. Reduced(event).doc = new /\ Reduced(event).state = ObservedState(outbox, request.state, new.status)
  BY <1>1, <1>2 DEF Reduced, _order_observation
<1>4. new.status \in TERMINAL => market \in Over /\ (market = "rejected" \/ new.filled = filled)
  <2>1. CASE Disposition(doc, event) = "applied"
    <3>1. new.status = event.status /\ (event.filled # -1 => new.filled = event.filled)
      BY <2>1 DEF project_status
    <3>2. filled \in 0..Qty
      BY DEF TypeOK
    <3>3. filled # -1
      BY <3>2
    <3> QED BY <3>1, <3>3
  <2>2. CASE Disposition(doc, event) # "applied"
    <3>1. new.status = doc.status /\ new.filled = doc.filled
      BY <2>2 DEF project_status
    <3> QED BY <3>1 DEF Facts, DocOver
  <2> QED BY <2>1, <2>2
<1>5. event.filled = -1 => new.filled = doc.filled
  BY DEF project_status
<1>6. doc.status \in TERMINAL => new.status \in TERMINAL
  BY StaysTerminal
<1>7. \A status : ObservedState(outbox, request.state, status) \in Finished
                    => outbox = "filled" \/ status \in TERMINAL
  BY DEF ObservedState, STATES, Finished, TERMINAL
<1> HIDE DEF new
<1>8. RowAfter(Reduced(event)) \in Finished => new.status \in TERMINAL \/ market = "none"
  <2>1. CASE outbox = "none"
    BY <2>1 DEF RowAfter, Finished
  <2>2. CASE outbox # "none"
    BY <2>2, <1>3, <1>6, <1>7 DEF RowAfter, Facts, RowOver, Finished
  <2> QED BY <2>1, <2>2
<1> QED BY <1>3, <1>4, <1>5, <1>8

-----------------------------------------------------------------------------
(* The invariant is inductive.                                             *)

LEMMA InitHolds == Init => IInv
<1> SUFFICES ASSUME Init PROVE IInv
  OBVIOUS
<1>1. TypeOK
  <2> USE EntryAssumption DEF EntryAssumption
  <2>1. NotSeen \in RowType /\ 0 \in 0..Qty /\ 0 \in 0..MaxEpoch
    BY DEF NotSeen, RowType
  <2>2. doc \in [status : Statuses \cup {"absent"}, filled : {NoValue} \cup 0..Qty,
                code : {0, 201}, permanent : {0}, conflict : BOOLEAN]
    BY DEF Init, EmptyDoc
  <2>3. request \in [state : {"none", "queued", "pending", "confirmed"}, epoch : 0..MaxEpoch]
    BY <2>1 DEF Init, NoRequest
  <2>4. snapshot \in [inflight : BOOLEAN, superseded : BOOLEAN, parts : SUBSET Parts,
                     row : RowType, position : 0..Qty]
    BY <2>1 DEF Init, NoSnapshot
  <2> QED BY <2>1, <2>2, <2>3, <2>4 DEF Init, TypeOK, Rows, Places
<1>2. inbox \in Seq(Honest)
  BY EmptySeq DEF Init
<1>3. Facts
  BY DEF Init, Facts, Unsent, Unfilled, DocOver, RowOver, RowFresh, EmptyDoc, NoSnapshot, NotSeen,
     TERMINAL, Finished
<1> QED BY <1>1, <1>2, <1>3 DEF IInv

\* A supersession leaves what a snapshot has staged.
LEMMA SupersededKeeps ==
  ASSUME TypeOK
  PROVE  /\ Superseded(snapshot) \in [inflight : BOOLEAN, superseded : BOOLEAN,
              parts : SUBSET Parts, row : RowType, position : 0..Qty]
         /\ Superseded(snapshot).row = snapshot.row
         /\ Superseded(snapshot).inflight = snapshot.inflight
         /\ Superseded(snapshot).parts = snapshot.parts
         /\ Superseded(snapshot).position = snapshot.position
BY DEF TypeOK, Superseded

LEMMA InvalidatedType ==
  ASSUME TypeOK
  PROVE  /\ Invalidated(verified) \in [reconciled : BOOLEAN, agreement : BOOLEAN, position : 0..Qty]
         /\ Unsettled(verified) \in [reconciled : BOOLEAN, agreement : BOOLEAN, position : 0..Qty]
<1> DEFINE V == [reconciled : BOOLEAN, agreement : BOOLEAN, position : 0..Qty]
<1>1. verified \in V
  BY DEF TypeOK
<1>2. Invalidated(verified) = [verified EXCEPT !.reconciled = FALSE]
  BY DEF Invalidated
<1>3. Unsettled(verified) = [Invalidated(verified) EXCEPT !.agreement = FALSE]
  BY DEF Unsettled, Invalidated
<1>4. \A v \in V : [v EXCEPT !.reconciled = FALSE] \in V /\ [v EXCEPT !.agreement = FALSE] \in V
  OBVIOUS
<1> QED BY <1>1, <1>2, <1>3, <1>4

LEMMA DispatchKeeps == IInv /\ Dispatch => IInv'
<1> SUFFICES ASSUME IInv, Dispatch PROVE IInv'
  OBVIOUS
<1> USE DEF durable, engine, adapter, broker
<1>1. TypeOK'
  <2> USE DEF IInv, TypeOK, Places, Rows, ProjectedStates
  <2>1. CASE Reserve
    BY <2>1 DEF Reserve
  <2>2. CASE GuardBlocks
    BY <2>2 DEF GuardBlocks
  <2>3. CASE MarkDispatch
    BY <2>3 DEF MarkDispatch
  <2>4. CASE MarkRefused
    BY <2>4 DEF MarkRefused
  <2>5. CASE Submit
    BY <2>5, SupersededKeeps, InvalidatedType DEF Submit, Invalidate
  <2>6. CASE SubmitRaises
    <3>1. intent' \in BOOLEAN
      BY <2>6 DEF SubmitRaises, Incident
    <3>2. \/ UNCHANGED <<market, sent>>
          \/ market' = (IF link THEN "wire" ELSE "lost") /\ sent' = sent + 1
      BY <2>6 DEF SubmitRaises
    <3>3. /\ outbox' = "unknown" /\ Invalidate /\ pc' = "idle"
          /\ UNCHANGED <<doc, request, execs, reservation, connected, epoch, view, adapter, filled,
                         asked, crashes>>
      BY <2>6 DEF SubmitRaises
    <3>4. market' \in {"none", "wire", "lost", "live", "filled", "cancelled", "rejected"}
          /\ sent' \in Nat
      BY <3>2
    <3>5. /\ verified' \in [reconciled : BOOLEAN, agreement : BOOLEAN, position : 0..Qty]
          /\ snapshot' \in [inflight : BOOLEAN, superseded : BOOLEAN, parts : SUBSET Parts,
                             row : RowType, position : 0..Qty]
      BY <3>3, SupersededKeeps, InvalidatedType DEF Invalidate
    <3> QED BY <3>1, <3>3, <3>4, <3>5
  <2> QED BY <2>1, <2>2, <2>3, <2>4, <2>5, <2>6 DEF Dispatch
<1>2. /\ UNCHANGED <<doc, inbox, filled>>
      /\ market \in Over => market' = market
      /\ market' = market \/ (market = "none" /\ filled = 0 /\ market' \in {"wire", "lost"} /\ pc = "submit")
  BY DEF Dispatch, Reserve, GuardBlocks, MarkDispatch, MarkRefused, Submit, SubmitRaises, IInv,
     Facts, Unsent, Unfilled, Over
<1>3. inbox' \in Seq(Honest')
  BY <1>2, InboxStays DEF IInv
<1>4. Unsent' /\ RowOver'
  BY DEF Dispatch, Reserve, GuardBlocks, MarkDispatch, MarkRefused, Submit, SubmitRaises, IInv,
     Facts, Unsent, RowOver, Finished
<1>5. Unfilled' /\ DocOver'
  BY <1>2 DEF IInv, Facts, Unfilled, DocOver, Over
<1>6. RowFresh'
  <2>1. snapshot' = snapshot \/ snapshot' = Superseded(snapshot)
    BY DEF Dispatch, Reserve, GuardBlocks, MarkDispatch, MarkRefused, Submit, SubmitRaises, Invalidate
  <2> QED BY <1>2, <2>1, SupersededKeeps DEF IInv, Facts, RowFresh
<1> QED BY <1>1, <1>3, <1>4, <1>5, <1>6 DEF IInv, Facts

LEMMA CancelKeeps == IInv /\ Cancel => IInv'
<1> SUFFICES ASSUME IInv, Cancel PROVE IInv'
  OBVIOUS
<1> USE DEF durable, engine, adapter, broker
<1>1. TypeOK'
  <2> USE DEF IInv, TypeOK, Places, Rows, ProjectedStates
  <2>1. CASE CancelEntry
    BY <2>1, SupersededKeeps, InvalidatedType DEF CancelEntry, Invalidate
  <2>2. CASE OtherIncident
    BY <2>2 DEF OtherIncident
  <2>3. CASE RetireReserved
    <3>1. outbox' = "cancelled" /\ reservation' = "released" /\ intent' = FALSE
          /\ UNCHANGED <<doc, request, execs, engine, adapter, broker, sent, crashes>>
      BY <2>3 DEF RetireReserved
    <3>2. intent' \in BOOLEAN
      BY <3>1, Zenon
    <3> QED BY <3>1, <3>2
  <2>4. CASE CancelForIncident
    <3>1. /\ intent' \in {intent, FALSE}
          /\ \/ outbox' = "cancel_pending" /\ pc' = "queue" /\ Invalidate
             \/ UNCHANGED <<outbox, pc, verified, snapshot>>
          /\ UNCHANGED <<doc, request, execs, reservation, connected, epoch, view, adapter, broker,
                         sent, crashes>>
      BY <2>4 DEF CancelForIncident
    <3>2. intent' \in BOOLEAN
      <4>1. intent \in BOOLEAN
        OBVIOUS
      <4> QED BY <3>1, <4>1, Zenon
    <3> QED BY <3>1, <3>2, SupersededKeeps, InvalidatedType DEF Invalidate
  <2>5. CASE QueueCancel
    <3>1. request' \in [state : {"none", "queued", "pending", "confirmed"}, epoch : 0..MaxEpoch]
      <4>1. request' = request \/ request' = [state |-> "queued", epoch |-> 0]
        BY <2>5 DEF QueueCancel, NoRequest
      <4> QED BY <4>1, EntryAssumption DEF EntryAssumption
    <3> QED BY <2>5, <3>1 DEF QueueCancel
  <2>6. CASE FlushCancellation
    BY <2>6 DEF FlushCancellation
  <2>7. CASE SendCancel
    BY <2>7 DEF SendCancel
  <2>8. CASE SendCancelRaises
    BY <2>8 DEF SendCancelRaises, Incident
  <2> QED BY <2>1, <2>2, <2>3, <2>4, <2>5, <2>6, <2>7, <2>8 DEF Cancel
<1>2. UNCHANGED <<doc, inbox, market, filled>>
  BY DEF Cancel, CancelEntry, OtherIncident, RetireReserved, CancelForIncident, QueueCancel,
     FlushCancellation, SendCancel, SendCancelRaises
<1>3. inbox' \in Seq(Honest')
  BY <1>2, InboxStays DEF IInv
<1>4. Unsent' /\ RowOver'
  BY DEF Cancel, CancelEntry, OtherIncident, RetireReserved, CancelForIncident, QueueCancel,
     FlushCancellation, SendCancel, SendCancelRaises, IInv, Facts, Unsent, RowOver, Finished
<1>5. Unfilled' /\ DocOver'
  BY <1>2 DEF IInv, Facts, Unfilled, DocOver
<1>6. RowFresh'
  <2>1. snapshot' = snapshot \/ snapshot' = Superseded(snapshot)
    BY DEF Cancel, CancelEntry, OtherIncident, RetireReserved, CancelForIncident, QueueCancel,
       FlushCancellation, SendCancel, SendCancelRaises, Invalidate
  <2> QED BY <1>2, <2>1, SupersededKeeps DEF IInv, Facts, RowFresh
<1> QED BY <1>1, <1>3, <1>4, <1>5, <1>6 DEF IInv, Facts

\* One order callback: the document, the row, the published and the staged row.
LEMMA SettleKeeps ==
  ASSUME IInv, Take, NEW event \in Events, event.status # "Inactive",
         event.status \in TERMINAL => /\ market \in Over
                                      /\ market = "rejected" \/ event.filled = filled,
         doc' = Reduced(event).doc, outbox' = RowAfter(Reduced(event)),
         verified' \in {verified, Invalidated(verified)},
         NEW full \in BOOLEAN, view' = RowOf(Reduced(event), full),
         NEW parts \in SUBSET Parts, pc' \in {"idle", "finish"},
         \E s \in {snapshot, Superseded(snapshot)} :
           \/ snapshot' = Staged(s, RowOf(Reduced(event), full))
           \/ snapshot' = [Staged(s, RowOf(Reduced(event), full)) EXCEPT !.parts = parts]
           \/ event.filled = NoValue /\ snapshot' = s,
         Observed
  PROVE  IInv'
<1> DEFINE r == Reduced(event)
<1>1. /\ r.doc \in [status : Statuses \cup {"absent"}, filled : {NoValue} \cup 0..Qty,
                    code : {0, 201}, permanent : {0}, conflict : BOOLEAN]
      /\ r.state \in Rows \ {"none", "reserved"}
  BY ReducedType DEF IInv
<1>2. RowOf(r, full) \in RowType /\ RowOf(r, full).filled = r.doc.filled
  BY <1>1 DEF RowOf, RowType, IInv, TypeOK
<1>3. /\ r.doc.status \in TERMINAL => /\ market \in Over
                                      /\ market = "rejected" \/ r.doc.filled = filled
      /\ RowAfter(r) \in Finished => r.doc.status \in TERMINAL \/ market = "none"
      /\ event.filled = NoValue => r.doc.filled = doc.filled
  BY ReducedOver DEF IInv
<1>4. UNCHANGED <<market, filled>>
  BY DEF Observed, broker
<1> HIDE DEF r
<1>5. PICK s \in {snapshot, Superseded(snapshot)} :
           \/ snapshot' = Staged(s, RowOf(r, full))
           \/ snapshot' = [Staged(s, RowOf(r, full)) EXCEPT !.parts = parts]
           \/ event.filled = NoValue /\ snapshot' = s
  BY DEF r
<1>6. s \in [inflight : BOOLEAN, superseded : BOOLEAN, parts : SUBSET Parts, row : RowType,
             position : 0..Qty] /\ s.row = snapshot.row /\ s.inflight = snapshot.inflight
  BY <1>5, SupersededKeeps DEF IInv, TypeOK
<1>7. snapshot' \in [inflight : BOOLEAN, superseded : BOOLEAN, parts : SUBSET Parts, row : RowType,
                     position : 0..Qty]
  BY <1>2, <1>5, <1>6 DEF Staged
<1>8. RowFresh'
  <2>1. CASE snapshot' = s /\ event.filled = NoValue
    BY <1>3, <1>6, <2>1 DEF r, IInv, Facts, RowFresh
  <2>2. CASE \/ snapshot' = Staged(s, RowOf(r, full))
             \/ snapshot' = [Staged(s, RowOf(r, full)) EXCEPT !.parts = parts]
    <3>1. CASE s.inflight
      <4>1. snapshot'.inflight /\ snapshot'.row = RowOf(r, full)
        BY <1>6, <2>2, <3>1 DEF Staged
      <4> QED BY <1>2, <4>1 DEF RowFresh, r
    <3>2. CASE ~s.inflight
      <4>1. snapshot'.row = s.row
        BY <1>6, <2>2, <3>2 DEF Staged
      <4> QED BY <1>6, <3>2, <4>1 DEF IInv, Facts, RowFresh
    <3> QED BY <3>1, <3>2
  <2> QED BY <1>5, <2>1, <2>2
<1>9. outbox' = IF outbox = "none" THEN "none" ELSE r.state
  BY DEF RowAfter, r
<1>10. TypeOK'
  <2>1. verified' \in [reconciled : BOOLEAN, agreement : BOOLEAN, position : 0..Qty]
    BY InvalidatedType DEF IInv, TypeOK
  <2>2. doc' = r.doc /\ view' = RowOf(r, full)
    BY DEF r
  <2> QED BY <1>1, <1>2, <1>7, <1>9, <2>1, <2>2 DEF IInv, TypeOK, Observed, broker, Places, Rows
<1>11. inbox' \in Seq(Honest') /\ pc = "idle"
  BY <1>4, Taken
<1>12. Unsent'
  BY <1>1, <1>4, <1>9 DEF IInv, Facts, Unsent, Observed
<1>13. Unfilled'
  BY <1>4 DEF IInv, Facts, Unfilled
<1>14. DocOver' /\ RowOver'
  BY <1>3, <1>4 DEF DocOver, RowOver, r
<1> QED BY <1>8, <1>10, <1>11, <1>12, <1>13, <1>14 DEF IInv, Facts

\* What a callback of each kind carries.
LEMMA Carried ==
  ASSUME NEW m \in Messages
  PROVE  /\ m.kind = "status" => m.status \in {"Submitted", "Filled", "Cancelled"} /\ m.filled \in 0..Qty
         /\ m.kind = "exec" => m.id \in 1..Qty
         /\ m.kind = "position" => m.quantity \in 0..Qty
         /\ m.kind = "answer" =>
              /\ m.part = "positions" => m.quantity \in 0..Qty
              /\ m.part = "orders" => m.status \in {"Submitted", "none"} /\ m.filled = NoValue
              /\ m.part = "completed" => m.status \in {"Filled", "Cancelled", "none"} /\ m.filled \in 0..Qty
              /\ m.part = "executions" => m.ids \subseteq 1..Qty
BY DEF Messages

\* Callbacks that leave the order's document and row alone.
LEMMA OthersKeep ==
  ASSUME IInv, Take,
         UNCHANGED <<outbox, doc, request, reservation, connected, epoch, view, positions, link,
                     broker, sent>>,
         execs' \subseteq 1..Qty, intent' \in BOOLEAN, crashes' \in Nat, pc' \in {"idle", "finish"},
         verified' \in [reconciled : BOOLEAN, agreement : BOOLEAN, position : 0..Qty],
         snapshot' \in [inflight : BOOLEAN, superseded : BOOLEAN, parts : SUBSET Parts,
                        row : RowType, position : 0..Qty],
         snapshot'.row = snapshot.row, snapshot'.inflight = snapshot.inflight
  PROVE  IInv'
<1>1. UNCHANGED <<market, filled>>
  BY DEF broker
<1>2. inbox' \in Seq(Honest') /\ pc = "idle"
  BY <1>1, Taken
<1>3. TypeOK'
  BY DEF IInv, TypeOK, broker, Places
<1>4. Facts'
  BY <1>1, <1>2 DEF IInv, Facts, Unsent, Unfilled, DocOver, RowOver, RowFresh, Finished
<1> QED BY <1>2, <1>3, <1>4 DEF IInv

LEMMA ObserveKeeps == IInv /\ Observe => IInv'
<1> SUFFICES ASSUME IInv, Observe PROVE IInv'
  OBVIOUS
<1> DEFINE m == Head(inbox)
           V == [reconciled : BOOLEAN, agreement : BOOLEAN, position : 0..Qty]
           S == [inflight : BOOLEAN, superseded : BOOLEAN, parts : SUBSET Parts,
                 row : RowType, position : 0..Qty]
<1>0. TypeOK /\ verified \in V /\ snapshot \in S
  BY DEF IInv, TypeOK
<1>1. ASSUME Take, UNCHANGED <<market, filled>> PROVE m \in Messages /\ Truth(m) /\ pc = "idle"
  BY <1>1, Taken
<1>2. CASE ObserveStatus
  <2>1. Take /\ m.kind = "status" /\ UNCHANGED <<market, filled, pc>>
    BY <1>2 DEF ObserveStatus, Observed, broker
  <2>2. m \in Messages /\ Truth(m) /\ pc = "idle"
    BY <1>1, <2>1
  <2> DEFINE event == Event(m.status, m.filled, 0, FALSE)
  <2>3. m.status \in {"Submitted", "Filled", "Cancelled"} /\ m.filled \in 0..Qty
    BY <2>1, <2>2, Carried
  <2>4. event \in Events /\ event.status = m.status /\ event.filled = m.filled
    BY <2>3, Words DEF Event, Events
  <2>5. event.status # "Inactive" /\ (event.status \in TERMINAL => market \in Over /\ event.filled = filled)
    BY <2>1, <2>2, <2>3, <2>4 DEF Truth, ReportsOrder
  <2>6. /\ doc' = Reduced(event).doc /\ outbox' = RowAfter(Reduced(event)) /\ Observed
        /\ verified' \in {verified, Invalidated(verified)} /\ view' = RowOf(Reduced(event), FALSE)
        /\ \E s \in {snapshot, Superseded(snapshot)} : snapshot' = Staged(s, RowOf(Reduced(event), FALSE))
    BY <1>2 DEF ObserveStatus, Settle
  <2> HIDE DEF event, m
  <2>7. snapshot.parts \in SUBSET Parts /\ pc' \in {"idle", "finish"}
    BY <1>0, <2>1, <2>2
  <2> QED BY <2>1, <2>4, <2>5, <2>6, <2>7, SettleKeeps
<1>3. CASE ObserveRejection
  <2>1. Take /\ m.kind = "reject" /\ UNCHANGED <<market, filled, pc>>
    BY <1>3 DEF ObserveRejection, Observed, broker
  <2>2. m \in Messages /\ Truth(m) /\ pc = "idle"
    BY <1>1, <2>1
  <2> DEFINE event == Event("Rejected", NoValue, 201, FALSE)
  <2>3. event \in Events /\ event.status = "Rejected" /\ event.filled = NoValue
    BY Words DEF Event, Events
  <2>4. market = "rejected"
    BY <2>1, <2>2 DEF Truth
  <2>5. /\ doc' = Reduced(event).doc /\ outbox' = RowAfter(Reduced(event)) /\ Observed
        /\ verified' = Invalidated(verified) /\ view' = RowOf(Reduced(event), FALSE)
        /\ snapshot' = Superseded(snapshot)
    BY <1>3 DEF ObserveRejection, Invalidate
  <2> HIDE DEF event, m
  <2>6. snapshot.parts \in SUBSET Parts /\ pc' \in {"idle", "finish"}
    BY <1>0, <2>1, <2>2
  <2>7. \E s \in {snapshot, Superseded(snapshot)} : event.filled = NoValue /\ snapshot' = s
    BY <2>3, <2>5
  <2>8. event.status # "Inactive" /\ market \in Over
    BY <2>3, <2>4 DEF Over
  <2> QED BY <2>1, <2>3, <2>4, <2>5, <2>6, <2>7, <2>8, SettleKeeps
<1>4. CASE ObserveError
  <2>1. intent' \in BOOLEAN
    BY <1>4 DEF ObserveError, Incident
  <2>2. /\ Take /\ verified' = Invalidated(verified) /\ snapshot' = Superseded(snapshot)
        /\ UNCHANGED <<outbox, doc, request, execs, reservation, pc, connected, epoch, view,
                       positions, link, broker, sent, crashes>>
    BY <1>4 DEF ObserveError, Invalidate
  <2>3. pc = "idle"
    BY <2>2 DEF Take
  <2>4. execs' \subseteq 1..Qty /\ crashes' \in Nat
    BY <1>0, <2>2 DEF TypeOK
  <2> QED BY <1>0, <2>1, <2>2, <2>3, <2>4, SupersededKeeps, InvalidatedType, OthersKeep
<1>5. CASE ObserveExecution
  <2>1. /\ Take /\ m.kind = "exec" /\ execs' = execs \cup {m.id} /\ verified' \in {verified, Unsettled(verified)}
        /\ snapshot' \in {snapshot, Superseded(snapshot)}
        /\ UNCHANGED <<outbox, doc, request, reservation, intent, pc, connected, epoch, view,
                       positions, link, broker, sent, crashes>>
    BY <1>5 DEF ObserveExecution, Execute
  <2>2. m.id \in 1..Qty /\ pc = "idle"
    BY <1>1, <2>1, Carried DEF broker
  <2>3. execs' \subseteq 1..Qty
    <3>1. execs \subseteq 1..Qty
      BY <1>0 DEF TypeOK
    <3> HIDE DEF m
    <3> QED BY <2>1, <2>2, <3>1
  <2>4. intent' \in BOOLEAN /\ crashes' \in Nat
    BY <1>0, <2>1 DEF TypeOK
  <2> QED BY <1>0, <2>1, <2>2, <2>3, <2>4, SupersededKeeps, InvalidatedType, OthersKeep
<1>6. ASSUME NEW q \in 0..Qty, Take, pc' \in {"idle", "finish"},
             NEW parts \in SUBSET Parts,
             \E v \in {verified, Unsettled(verified)} :
               verified' \in {v, [v EXCEPT !.position = q]},
             \E s \in {snapshot, Superseded(snapshot)} :
               snapshot' \in {s, [s EXCEPT !.position = q],
                              [[s EXCEPT !.parts = parts] EXCEPT !.position = q]},
             UNCHANGED <<outbox, doc, request, execs, reservation, intent, connected, epoch, view,
                         positions, link, broker, sent, crashes>>
      PROVE  IInv'
  <2>1. execs' \subseteq 1..Qty /\ intent' \in BOOLEAN /\ crashes' \in Nat
    BY <1>0, <1>6 DEF TypeOK
  <2>2. verified' \in V
    <3>1. PICK v \in {verified, Unsettled(verified)} : verified' \in {v, [v EXCEPT !.position = q]}
      BY <1>6
    <3>2. v \in V
      BY <1>0, <3>1, InvalidatedType
    <3> QED BY <3>1, <3>2
  <2>3. snapshot' \in S /\ snapshot'.row = snapshot.row /\ snapshot'.inflight = snapshot.inflight
    <3>1. PICK s \in {snapshot, Superseded(snapshot)} :
               snapshot' \in {s, [s EXCEPT !.position = q],
                              [[s EXCEPT !.parts = parts] EXCEPT !.position = q]}
      BY <1>6
    <3>2. s \in S /\ s.row = snapshot.row /\ s.inflight = snapshot.inflight
      BY <1>0, <3>1, SupersededKeeps
    <3> QED BY <3>1, <3>2
  <2> QED BY <1>6, <2>1, <2>2, <2>3, OthersKeep
<1>7. CASE ObservePosition
  <2>1. Take /\ m.kind = "position" /\ UNCHANGED <<market, filled, pc>>
    BY <1>7 DEF ObservePosition, broker
  <2>2. m.quantity \in 0..Qty /\ pc' \in {"idle", "finish"}
    BY <1>1, <2>1, Carried
  <2>3. /\ \E v \in {verified, Unsettled(verified)} :
               verified' \in {v, [v EXCEPT !.position = m.quantity]}
        /\ \E s \in {snapshot, Superseded(snapshot)} :
               snapshot' \in {s, [s EXCEPT !.position = m.quantity]}
        /\ UNCHANGED <<outbox, doc, request, execs, reservation, intent, connected, epoch, view,
                       positions, link, broker, sent, crashes>>
    BY <1>7 DEF ObservePosition, durable
  <2> HIDE DEF m
  <2> QED BY <1>6, <2>1, <2>2, <2>3
<1>8. ASSUME NEW part \in Parts, TakePart(part), UNCHANGED <<market, filled>>
      PROVE  /\ Take /\ m.kind = "answer" /\ m.part = part /\ m \in Messages /\ Truth(m)
             /\ pc' \in {"idle", "finish"} /\ snapshot.parts \cup {part} \in SUBSET Parts
             /\ snapshot.inflight
  <2>1. Take /\ m.kind = "answer" /\ m.part = part /\ snapshot.inflight /\ pc' = NextPc(part)
    BY <1>8 DEF TakePart
  <2>2. snapshot.parts \subseteq Parts
    BY <1>0
  <2> QED BY <1>1, <1>8, <2>1, <2>2 DEF NextPc
<1>9. CASE AnsweredPosition
  <2>1. TakePart("positions") /\ Observed /\ UNCHANGED <<outbox, doc, view>>
    BY <1>9 DEF AnsweredPosition
  <2>2. Take /\ m.kind = "answer" /\ m.part = "positions" /\ m \in Messages
        /\ pc' \in {"idle", "finish"} /\ snapshot.parts \cup {"positions"} \in SUBSET Parts
    BY <1>8, <2>1 DEF Parts, Observed, broker
  <2>3. m.quantity \in 0..Qty
    BY <2>2, Carried
  <2>4. verified' \in {verified, Unsettled(verified)}
    BY <1>9 DEF AnsweredPosition
  <2>5. \E s \in {snapshot, Superseded(snapshot)} :
           snapshot' = [[s EXCEPT !.parts = snapshot.parts \cup {"positions"}] EXCEPT !.position = m.quantity]
    <3>1. \E s \in {snapshot, Superseded(snapshot)} :
             snapshot' = [Marked(s, "positions") EXCEPT !.position = m.quantity]
      BY <1>9 DEF AnsweredPosition
    <3> QED BY <1>0, <3>1, SupersededKeeps DEF Marked
  <2> HIDE DEF m
  <2>6. \E v \in {verified, Unsettled(verified)} : verified' \in {v, [v EXCEPT !.position = m.quantity]}
    BY <2>4
  <2>7. \E s \in {snapshot, Superseded(snapshot)} :
           snapshot' \in {s, [s EXCEPT !.position = m.quantity],
                         [[s EXCEPT !.parts = snapshot.parts \cup {"positions"}]
                             EXCEPT !.position = m.quantity]}
    BY <2>5
  <2>8. UNCHANGED <<outbox, doc, request, execs, reservation, intent, connected, epoch, view,
                    positions, link, broker, sent, crashes>>
    BY <2>1 DEF Observed
  <2> QED BY <1>6, <2>2, <2>3, <2>6, <2>7, <2>8
<1>10. CASE AnsweredExecutions
  <2>1. /\ TakePart("executions") /\ execs' = execs \cup m.ids /\ verified' \in {verified, Unsettled(verified)}
        /\ \E s \in {snapshot, Superseded(snapshot)} : snapshot' = Marked(s, "executions")
        /\ UNCHANGED <<outbox, doc, request, reservation, intent, connected, epoch, view, positions,
                       link, broker, sent, crashes>>
    BY <1>10 DEF AnsweredExecutions, Execute
  <2>2. Take /\ m.kind = "answer" /\ m.part = "executions" /\ m \in Messages
        /\ pc' \in {"idle", "finish"} /\ snapshot.parts \cup {"executions"} \in SUBSET Parts
    BY <1>8, <2>1 DEF Parts, broker
  <2>3. execs' \subseteq 1..Qty /\ intent' \in BOOLEAN /\ crashes' \in Nat
    BY <1>0, <2>1, <2>2, Carried DEF TypeOK
  <2>4. snapshot' \in S /\ snapshot'.row = snapshot.row /\ snapshot'.inflight = snapshot.inflight
    <3>1. PICK s \in {snapshot, Superseded(snapshot)} : snapshot' = Marked(s, "executions")
      BY <2>1
    <3>2. s \in S /\ s.row = snapshot.row /\ s.inflight = snapshot.inflight /\ s.parts = snapshot.parts
      BY <1>0, <3>1, SupersededKeeps
    <3> QED BY <2>2, <3>1, <3>2 DEF Marked
  <2>5. verified' \in V
    BY <1>0, <2>1, InvalidatedType
  <2> QED BY <2>1, <2>2, <2>3, <2>4, <2>5, OthersKeep
<1>11. CASE AnsweredOrders
  <2>1. PICK part \in {"orders", "completed"} :
       /\ TakePart(part)
       /\ IF m.status = "none"
            THEN snapshot' = Marked(snapshot, part) /\ UNCHANGED <<outbox, doc, verified, view>>
            ELSE LET r == Reduced(Event(m.status, m.filled, 0, part = "completed"))
                     s == IF Disturbs(r) THEN Superseded(snapshot) ELSE snapshot
                 IN  /\ Settle(r) /\ view' = RowOf(r, TRUE)
                     /\ snapshot' = Marked(Staged(s, RowOf(r, TRUE)), part)
    BY <1>11 DEF AnsweredOrders
  <2>2. Observed /\ UNCHANGED <<market, filled>>
    BY <1>11 DEF AnsweredOrders, Observed, broker
  <2>3. /\ Take /\ m.kind = "answer" /\ m.part = part /\ m \in Messages /\ Truth(m)
        /\ pc' \in {"idle", "finish"} /\ snapshot.parts \cup {part} \in SUBSET Parts /\ snapshot.inflight
    BY <1>8, <2>1, <2>2 DEF Parts
  <2>4. m.status \in {"Submitted", "Filled", "Cancelled", "none"} /\ m.filled \in {NoValue} \cup 0..Qty
    BY <2>1, <2>3, Carried
  <2>5. CASE m.status = "none"
    <3>1. snapshot' \in S /\ snapshot'.row = snapshot.row /\ snapshot'.inflight = snapshot.inflight
      BY <1>0, <2>1, <2>3, <2>5 DEF Marked
    <3>2. UNCHANGED <<outbox, doc, verified, view>>
      BY <2>1, <2>5
    <3>3. execs' \subseteq 1..Qty /\ intent' \in BOOLEAN /\ crashes' \in Nat
      BY <1>0, <2>2 DEF TypeOK, Observed
    <3>4. verified' \in V
      BY <1>0, <3>2
    <3> QED BY <2>2, <2>3, <3>1, <3>2, <3>3, <3>4, OthersKeep DEF Observed
  <2>6. CASE m.status # "none"
    <3> DEFINE event == Event(m.status, m.filled, 0, part = "completed")
               r == Reduced(event)
    <3>1. event \in Events /\ event.status = m.status /\ event.filled = m.filled
      BY <2>4, <2>6, Words DEF Event, Events
    <3>2. event.status # "Inactive" /\ (event.status \in TERMINAL => market \in Over /\ event.filled = filled)
      BY <2>3, <2>4, <3>1 DEF Truth, ReportsOrder
    <3>3. /\ doc' = r.doc /\ outbox' = RowAfter(r)
          /\ verified' \in {verified, Invalidated(verified)} /\ view' = RowOf(r, TRUE)
          /\ \E s \in {snapshot, Superseded(snapshot)} : snapshot' = Marked(Staged(s, RowOf(r, TRUE)), part)
      BY <2>1, <2>6 DEF Settle
    <3> HIDE DEF event
    <3>4. PICK s \in {snapshot, Superseded(snapshot)} : snapshot' = Marked(Staged(s, RowOf(r, TRUE)), part)
      BY <3>3
    <3>5. snapshot' = [Staged(s, RowOf(r, TRUE)) EXCEPT !.parts = snapshot.parts \cup {part}]
      <4>1. s.parts = snapshot.parts /\ s \in S
        BY <1>0, <3>4, SupersededKeeps
      <4>2. Staged(s, RowOf(r, TRUE)).parts = snapshot.parts
        BY <4>1 DEF Staged
      <4> QED BY <3>4, <4>2 DEF Marked
    <3> QED BY <2>2, <2>3, <3>1, <3>2, <3>3, <3>5, SettleKeeps
  <2> QED BY <2>5, <2>6
<1> QED BY <1>2, <1>3, <1>4, <1>5, <1>7, <1>9, <1>10, <1>11 DEF Observe

LEMMA NothingStaged == /\ NoSnapshot \in [inflight : BOOLEAN, superseded : BOOLEAN,
                             parts : SUBSET Parts, row : RowType, position : 0..Qty]
                       /\ Begun \in [inflight : BOOLEAN, superseded : BOOLEAN,
                             parts : SUBSET Parts, row : RowType, position : 0..Qty]
                       /\ ~NoSnapshot.row.seen /\ ~Begun.row.seen /\ NotSeen \in RowType
<1>1. NotSeen \in RowType /\ ~NotSeen.seen /\ 0 \in 0..Qty
  BY EntryAssumption DEF NotSeen, RowType, EntryAssumption
<1>2. NoSnapshot \in [inflight : BOOLEAN, superseded : BOOLEAN, parts : SUBSET Parts,
                      row : RowType, position : 0..Qty] /\ NoSnapshot.row = NotSeen
  BY <1>1 DEF NoSnapshot
<1>3. Begun \in [inflight : BOOLEAN, superseded : BOOLEAN, parts : SUBSET Parts,
                 row : RowType, position : 0..Qty] /\ Begun.row = NotSeen
  BY <1>2 DEF Begun
<1> QED BY <1>1, <1>2, <1>3

LEMMA ReconcileKeeps == IInv /\ Reconcile => IInv'
<1> SUFFICES ASSUME IInv, Reconcile PROVE IInv'
  OBVIOUS
<1> DEFINE V == [reconciled : BOOLEAN, agreement : BOOLEAN, position : 0..Qty]
<1> USE DEF durable, engine, adapter, broker
<1>1. CASE BeginReconcile
  <2>1. /\ snapshot' = Begun /\ inbox' = inbox \o CachedPosition
        /\ verified' \in {verified, Unsettled(verified)}
        /\ UNCHANGED <<durable, pc, connected, epoch, view, positions, link, broker, sent, crashes>>
    BY <1>1 DEF BeginReconcile
  <2>2. Honest' = Honest
    BY <2>1 DEF Honest, Truth, Messages
  <2>3. CachedPosition \in Seq(Honest)
    <3>1. positions.cached \in 0..Qty
      BY DEF IInv, TypeOK
    <3> DEFINE m == [kind |-> "answer", part |-> "positions", quantity |-> positions.cached]
    <3>2. m \in Messages
      BY <3>1 DEF Messages
    <3>3. Truth(m)
      BY DEF Truth, ReportsOrder
    <3>4. m \in Honest
      BY <3>2, <3>3 DEF Honest
    <3> HIDE DEF m
    <3>5. <<m>> \in Seq(Honest) /\ <<>> \in Seq(Honest)
      BY <3>4, EmptySeq
    <3> QED BY <3>5 DEF CachedPosition, m
  <2>4. inbox' \in Seq(Honest')
    BY <2>1, <2>2, <2>3, ConcatProperties DEF IInv
  <2>5. verified' \in V
    BY <2>1, InvalidatedType DEF IInv, TypeOK
  <2>6. TypeOK'
    BY <2>1, <2>5, NothingStaged DEF IInv, TypeOK
  <2>7. Facts'
    BY <2>1, NothingStaged DEF IInv, Facts, Unsent, Unfilled, DocOver, RowOver, RowFresh
  <2> QED BY <2>4, <2>6, <2>7 DEF IInv
<1>2. CASE FinishSuperseded
  <2>1. /\ snapshot' = NoSnapshot /\ verified' = Unsettled(verified) /\ pc' = "idle"
        /\ UNCHANGED <<durable, connected, epoch, view, adapter, broker, sent, crashes>>
    BY <1>2 DEF FinishSuperseded
  <2>2. inbox' \in Seq(Honest')
    BY <2>1, InboxStays DEF IInv
  <2>3. TypeOK'
    BY <2>1, NothingStaged, InvalidatedType DEF IInv, TypeOK, Places
  <2>4. Facts'
    BY <2>1, NothingStaged DEF IInv, Facts, Unsent, Unfilled, DocOver, RowOver, RowFresh
  <2> QED BY <2>2, <2>3, <2>4 DEF IInv
<1>3. CASE Finish
  <2>1. /\ outbox' = IF Missing THEN AbsentRow ELSE outbox
        /\ reservation' = reservation \/ (reservation' = "released" /\ outbox' \in Finished)
        /\ request' = ReconciledRequest /\ view' = snapshot.row /\ snapshot' = NoSnapshot
        /\ pc' \in {"flush", "idle"} /\ pc = "finish"
        /\ UNCHANGED <<doc, execs, intent, connected, epoch, adapter, broker, sent, crashes>>
    BY <1>3 DEF Finish, Releases
  <2>2. verified' \in V
    <3>1. PICK clean \in BOOLEAN : verified' = [reconciled |-> clean,
            agreement |-> Owned = snapshot.position, position |-> snapshot.position]
      BY <1>3 DEF Finish
    <3>2. (Owned = snapshot.position) \in BOOLEAN /\ snapshot.position \in 0..Qty
      BY DEF IInv, TypeOK
    <3> QED BY <3>1, <3>2
  <2>3. request' \in [state : {"none", "queued", "pending", "confirmed"}, epoch : 0..MaxEpoch]
    BY <2>1 DEF ReconciledRequest, IInv, TypeOK
  <2>4. outbox' = outbox \/ (outbox \in {"working", "cancel_pending"} /\ outbox' = "unknown")
    BY <2>1 DEF Missing, AbsentRow
  <2>5. snapshot.row \in RowType
    BY DEF IInv, TypeOK
  <2>6. TypeOK'
    <3>1. outbox' \in Rows /\ pc' \in Places
          /\ reservation' \in {"none", "active", "released"}
      BY <2>1, <2>4 DEF IInv, TypeOK, Places, Rows
    <3>2. view' \in RowType
          /\ snapshot' \in [inflight : BOOLEAN, superseded : BOOLEAN, parts : SUBSET Parts,
                            row : RowType, position : 0..Qty]
      BY <2>1, <2>5, NothingStaged
    <3>3. UNCHANGED <<doc, execs, intent, connected, epoch, positions, link, market, filled, asked,
                      sent, crashes>>
      BY <2>1
    <3> QED BY <2>2, <2>3, <3>1, <3>2, <3>3 DEF IInv, TypeOK
  <2>7. Unsent' /\ RowOver'
    BY <2>1, <2>4 DEF IInv, Facts, Unsent, RowOver, Finished
  <2>8. Unfilled' /\ DocOver' /\ RowFresh'
    BY <2>1, NothingStaged DEF IInv, Facts, Unfilled, DocOver, RowFresh
  <2>9. inbox' \in Seq(Honest')
    BY <2>1, InboxStays DEF IInv
  <2> QED BY <2>6, <2>7, <2>8, <2>9 DEF IInv, Facts
<1> QED BY <1>1, <1>2, <1>3 DEF Reconcile

LEMMA ConnectionKeeps == IInv /\ (Connect \/ Drop \/ ConnectionLost) => IInv'
<1> SUFFICES ASSUME IInv, Connect \/ Drop \/ ConnectionLost PROVE IInv'
  OBVIOUS
<1> USE DEF durable, engine, adapter, broker
<1>1. CASE Connect
  <2>1. inbox' \in Seq(Honest')
    BY <1>1, EmptySeq DEF Connect
  <2>2. TypeOK'
    BY <1>1, NothingStaged, EntryAssumption DEF Connect, IInv, TypeOK, EntryAssumption
  <2>3. Facts'
    BY <1>1, NothingStaged DEF Connect, IInv, Facts, Unsent, Unfilled, DocOver, RowOver, RowFresh
  <2> QED BY <2>1, <2>2, <2>3 DEF IInv
<1>2. CASE Drop
  <2>1. /\ market' = market \/ (market = "wire" /\ market' = "lost")
        /\ asked' \in {asked, "no"} /\ link' = FALSE
        /\ UNCHANGED <<durable, engine, inbox, positions, filled, sent, crashes>>
    BY <1>2 DEF Drop
  <2>2. inbox' \in Seq(Honest')
    BY <2>1, InboxStays DEF IInv, Over
  <2>3. TypeOK'
    <3>1. link' \in BOOLEAN
      BY <2>1, Zenon
    <3>2. market' \in {"none", "wire", "lost", "live", "filled", "cancelled", "rejected"}
          /\ asked' \in {"no", "wire", "yes"}
      BY <2>1 DEF IInv, TypeOK
    <3> QED BY <2>1, <3>1, <3>2 DEF IInv, TypeOK
  <2>4. Facts'
    BY <2>1 DEF IInv, Facts, Unsent, Unfilled, DocOver, RowOver, RowFresh, Over
  <2> QED BY <2>2, <2>3, <2>4 DEF IInv
<1>3. CASE ConnectionLost
  <2>1. /\ connected' = FALSE /\ verified' = Unsettled(verified) /\ snapshot' = NoSnapshot
        /\ UNCHANGED <<durable, pc, epoch, view, adapter, broker, sent, crashes>>
    BY <1>3 DEF ConnectionLost
  <2>2. inbox' \in Seq(Honest')
    BY <2>1, InboxStays DEF IInv
  <2>3. TypeOK'
    <3>1. connected' \in BOOLEAN
      BY <2>1, Zenon
    <3>2. verified' \in [reconciled : BOOLEAN, agreement : BOOLEAN, position : 0..Qty]
      BY <2>1, InvalidatedType DEF IInv
    <3> QED BY <2>1, <3>1, <3>2, NothingStaged DEF IInv, TypeOK
  <2>4. Facts'
    BY <2>1, NothingStaged DEF IInv, Facts, Unsent, Unfilled, DocOver, RowOver, RowFresh
  <2> QED BY <2>2, <2>3, <2>4 DEF IInv
<1> QED BY <1>1, <1>2, <1>3

\* What a restart keeps, whatever document an interrupted observation left.
LEMMA RestartKeeps ==
  ASSUME IInv, Restart, NEW d,
         d \in [status : Statuses \cup {"absent"}, filled : {NoValue} \cup 0..Qty,
                code : {0, 201}, permanent : {0}, conflict : BOOLEAN],
         doc.status \in TERMINAL => d.status \in TERMINAL,
         d.status \in TERMINAL => market \in Over /\ (market = "rejected" \/ d.filled = filled),
         doc' = d
  PROVE  IInv'
<1>1. /\ market' = market \/ (market = "wire" /\ market' = "lost")
      /\ asked' \in {asked, "no"} /\ pc' = "idle" /\ snapshot' = NoSnapshot
      /\ outbox' = Restored(outbox) /\ crashes' = crashes + 1
      /\ UNCHANGED <<request, execs, reservation, intent, filled, sent>>
  BY DEF Restart
<1>2. inbox' \in Seq(Honest')
  BY EmptySeq DEF Restart
<1>3. outbox' = outbox \/ (outbox \in {"reserved", "dispatching"} /\ outbox' = "unknown")
  BY <1>1 DEF Restored
<1>4. TypeOK'
  <2>1. /\ connected' = FALSE /\ epoch' = 0 /\ link' = FALSE /\ view' = NotSeen
        /\ verified' = [reconciled |-> FALSE, agreement |-> FALSE, position |-> 0]
        /\ positions' = [complete |-> FALSE, cached |-> 0]
    BY DEF Restart
  <2>2. 0 \in 0..Qty /\ 0 \in 0..MaxEpoch
    BY EntryAssumption DEF EntryAssumption
  <2>3. connected' \in BOOLEAN /\ link' \in BOOLEAN
    BY <2>1, Zenon
  <2>4. /\ verified' \in [reconciled : BOOLEAN, agreement : BOOLEAN, position : 0..Qty]
        /\ positions' \in [complete : BOOLEAN, cached : 0..Qty]
    BY <2>1, <2>2
  <2>5. /\ market' \in {"none", "wire", "lost", "live", "filled", "cancelled", "rejected"}
        /\ asked' \in {"no", "wire", "yes"} /\ outbox' \in Rows /\ crashes' \in Nat
        /\ pc' \in Places
    BY <1>1, <1>3 DEF IInv, TypeOK, Rows, Places
  <2>6. view' \in RowType /\ epoch' \in 0..MaxEpoch
    BY <2>1, <2>2, NothingStaged
  <2> QED BY <1>1, <2>3, <2>4, <2>5, <2>6, NothingStaged DEF IInv, TypeOK
<1>5. Unsent' /\ RowOver'
  BY <1>1, <1>3 DEF IInv, Facts, Unsent, RowOver, Finished
<1>6. Unfilled' /\ DocOver' /\ RowFresh'
  BY <1>1, NothingStaged DEF IInv, Facts, Unfilled, DocOver, RowFresh, Over
<1> QED BY <1>2, <1>4, <1>5, <1>6 DEF IInv, Facts

LEMMA CrashKeeps == IInv /\ (Crash \/ CrashInObservation) => IInv'
<1> SUFFICES ASSUME IInv, Crash \/ CrashInObservation PROVE IInv'
  OBVIOUS
<1>1. CASE Crash
  <2>1. Restart /\ doc' = doc
    BY <1>1 DEF Crash
  <2> QED BY <2>1, RestartKeeps DEF IInv, TypeOK, Facts, DocOver
<1>2. CASE CrashInObservation
  <2> DEFINE m == Head(inbox)
             status == Event(m.status, m.filled, 0, FALSE)
             reject == Event("Rejected", NoValue, 201, FALSE)
  <2>1. m \in Messages /\ Truth(m) /\ m.kind \in {"status", "reject"} /\ Restart
    <3>1. inbox \in Seq(Honest) /\ inbox # <<>>
      BY <1>2 DEF CrashInObservation, IInv
    <3>2. m \in Honest
      BY <3>1, HeadTailProperties
    <3> QED BY <1>2, <3>2 DEF CrashInObservation, Honest
  <2>2. PICK event \in {status, reject} : /\ doc' = Reduced(event).doc
                                         /\ event = IF m.kind = "status" THEN status ELSE reject
    BY <1>2 DEF CrashInObservation
  <2>3. /\ event \in Events /\ event.status # "Inactive"
        /\ event.status \in TERMINAL => market \in Over /\ (market = "rejected" \/ event.filled = filled)
    <3>1. CASE m.kind = "status"
      <4>1. m.status \in {"Submitted", "Filled", "Cancelled"} /\ m.filled \in 0..Qty
        BY <2>1, <3>1, Carried
      <4>2. event \in Events /\ event.status = m.status /\ event.filled = m.filled
        BY <2>2, <3>1, <4>1, Words DEF Event, Events
      <4> QED BY <2>1, <3>1, <4>1, <4>2 DEF Truth, ReportsOrder
    <3>2. CASE m.kind = "reject"
      <4>1. event \in Events /\ event.status = "Rejected"
        BY <2>2, <3>2, Words DEF Event, Events
      <4>2. market = "rejected"
        BY <2>1, <3>2 DEF Truth
      <4> QED BY <4>1, <4>2 DEF Over
    <3> QED BY <2>1, <3>1, <3>2
  <2> HIDE DEF m, status, reject
  <2>4. Reduced(event).doc \in [status : Statuses \cup {"absent"}, filled : {NoValue} \cup 0..Qty,
                                code : {0, 201}, permanent : {0}, conflict : BOOLEAN]
    BY <2>3, ReducedType DEF IInv
  <2>5. Reduced(event).doc.status \in TERMINAL
          => market \in Over /\ (market = "rejected" \/ Reduced(event).doc.filled = filled)
    BY <2>3, ReducedOver DEF IInv
  <2>6. doc.status \in TERMINAL => Reduced(event).doc.status \in TERMINAL
    <3>1. Normalised(doc, event) = event /\ ~IdentityChanged(doc, event)
      BY <2>3, Normal DEF IdentityChanged, IInv, TypeOK, Events
    <3>2. Reduced(event).doc = project_status(doc, event)
      BY <3>1 DEF Reduced, _order_observation
    <3> QED BY <3>2, StaysTerminal
  <2> QED BY <2>1, <2>2, <2>4, <2>5, <2>6, RestartKeeps
<1> QED BY <1>1, <1>2

\* What every callback of the broker leaves alone.
LEMMA BrokerMoves ==
  ASSUME IInv, UNCHANGED <<durable, engine, link, sent, crashes>>,
         market' \in {"none", "wire", "lost", "live", "filled", "cancelled", "rejected"},
         filled' \in 0..Qty, asked' \in {"no", "wire", "yes"},
         positions' \in [complete : BOOLEAN, cached : 0..Qty],
         \/ UNCHANGED <<market, filled>>
         \/ market = "wire" /\ market' \in {"live", "rejected"} /\ filled' = filled
         \/ market = "live" /\ market' \in {"live", "filled", "cancelled"},
         NEW messages \in Seq(Honest'), inbox' \in {inbox, OnLink(messages)}
  PROVE  IInv'
<1> USE DEF durable, engine
<1>1. market \in Over => market' = market /\ filled' = filled
  BY DEF Over
<1>2. inbox' \in Seq(Honest')
  BY <1>1, InboxStays, Sends DEF IInv
<1>3. TypeOK'
  BY DEF IInv, TypeOK
<1>4. Facts'
  BY <1>1 DEF IInv, Facts, Unsent, Unfilled, DocOver, RowOver, RowFresh, Over
<1> QED BY <1>2, <1>3, <1>4 DEF IInv

\* One honest callback, and two and three of them.
LEMMA Bundles == ASSUME NEW a \in Honest', NEW b \in Honest', NEW c \in Honest'
                 PROVE  /\ <<a>> \in Seq(Honest') /\ <<a, b>> \in Seq(Honest')
                        /\ <<a, b, c>> \in Seq(Honest')
OBVIOUS

LEMMA BrokerKeeps == IInv /\ Broker => IInv'
<1> SUFFICES ASSUME IInv, Broker PROVE IInv'
  OBVIOUS
<1> USE DEF broker
<1>0. /\ market \in {"none", "wire", "lost", "live", "filled", "cancelled", "rejected"}
      /\ filled \in 0..Qty /\ asked \in {"no", "wire", "yes"} /\ Qty \in Nat
      /\ positions \in [complete : BOOLEAN, cached : 0..Qty] /\ positions.cached \in 0..Qty
  BY EntryAssumption DEF IInv, TypeOK, EntryAssumption
<1>1. \A m \in Messages : Truth(m)' => m \in Honest'
  BY DEF Honest, Messages
<1>2. ASSUME NEW status \in {"Submitted", "Filled", "Cancelled"}, filled' \in 0..Qty,
             status \in TERMINAL => market' \in Over
      PROVE  Status(status) \in Honest'
  <2>1. PICK n \in 0..Qty : n = filled'
    BY <1>2
  <2> DEFINE m == [kind |-> "status", status |-> status, filled |-> n]
  <2>2. m \in Messages
    BY DEF Messages
  <2>3. Truth(m)'
    BY <1>2, <2>1 DEF Truth, ReportsOrder
  <2>4. Status(status) = m
    BY <2>1 DEF Status
  <2> QED BY <1>1, <2>2, <2>3, <2>4
<1>3. ASSUME NEW q \in 0..Qty PROVE Position(q) \in Honest'
  <2>1. Position(q) \in Messages /\ Truth(Position(q))'
    BY DEF Position, Messages, Truth, ReportsOrder
  <2> QED BY <1>1, <2>1
<1>4. ASSUME NEW id \in 1..Qty PROVE Execution(id) \in Honest'
  <2>1. Execution(id) \in Messages /\ Truth(Execution(id))'
    BY DEF Execution, Messages, Truth, ReportsOrder
  <2> QED BY <1>1, <2>1
<1>5. CASE BrokerAccepts
  <2>1. Status("Submitted") \in Honest'
    BY <1>0, <1>2, <1>5 DEF BrokerAccepts, TERMINAL
  <2>2. <<Status("Submitted")>> \in Seq(Honest')
    BY <2>1, Bundles
  <2> QED BY <1>0, <1>5, <2>2, BrokerMoves DEF BrokerAccepts, Emit, QuietBroker
<1>6. CASE BrokerRejects
  <2>1. [kind |-> "reject"] \in Messages
    BY DEF Messages
  <2>2. Truth([kind |-> "reject"])'
    BY <1>6 DEF BrokerRejects, Truth, ReportsOrder
  <2>3. <<[kind |-> "reject"]>> \in Seq(Honest')
    BY <1>1, <2>1, <2>2, Bundles
  <2> QED BY <1>0, <1>6, <2>3, BrokerMoves DEF BrokerRejects, Emit, QuietBroker
<1>7. CASE BrokerFills
  <2> DEFINE word == IF filled' = Qty THEN "Filled" ELSE "Submitted"
  <2>1. /\ market = "live" /\ filled < Qty /\ filled' = filled + 1 /\ UNCHANGED asked
        /\ market' = (IF filled' = Qty THEN "filled" ELSE "live")
        /\ UNCHANGED <<durable, engine, link, sent, crashes>>
    BY <1>7 DEF BrokerFills
  <2>2. filled' \in 0..Qty /\ filled' \in 1..Qty
    BY <1>0, <2>1
  <2>3. Status(word) \in Honest' /\ Execution(filled') \in Honest' /\ Position(filled') \in Honest'
    BY <1>2, <1>3, <1>4, <2>1, <2>2 DEF TERMINAL, Over
  <2>4. PICK messages \in {<<Status(word), Execution(filled')>>, <<Execution(filled'), Status(word)>>,
                           <<Position(filled'), Execution(filled'), Status(word)>>} :
          inbox' = OnLink(messages)
    BY <1>7 DEF BrokerFills, Emit
  <2>5. positions' \in [complete : BOOLEAN, cached : 0..Qty]
    <3>1. positions' = positions \/ positions' = [positions EXCEPT !.cached = filled']
      BY <1>7 DEF BrokerFills
    <3> QED BY <1>0, <2>2, <3>1
  <2> HIDE DEF word
  <2>6. messages \in Seq(Honest')
    BY <2>3, <2>4, Bundles
  <2>7. market' \in {"live", "filled"} /\ asked' \in {"no", "wire", "yes"}
    BY <1>0, <2>1
  <2> QED BY <2>1, <2>2, <2>4, <2>5, <2>6, <2>7, BrokerMoves
<1>8. CASE BrokerCancels
  <2>1. Status("Cancelled") \in Honest'
    BY <1>0, <1>2, <1>8 DEF BrokerCancels, Over
  <2>2. <<Status("Cancelled")>> \in Seq(Honest')
    BY <2>1, Bundles
  <2> QED BY <1>0, <1>8, <2>2, BrokerMoves DEF BrokerCancels, Emit, QuietBroker
<1>9. CASE CancelArrives
  <2>1. [kind |-> "error"] \in Messages /\ Truth([kind |-> "error"])'
    BY DEF Messages, Truth, ReportsOrder
  <2>2. <<[kind |-> "error"]>> \in Seq(Honest')
    BY <1>1, <2>1, Bundles
  <2> QED BY <1>0, <1>9, <2>2, BrokerMoves DEF CancelArrives, Emit, QuietBroker
<1>10. CASE BrokerUpdatesPosition
  <2>1. <<Position(filled)>> \in Seq(Honest')
    BY <1>0, <1>3, Bundles
  <2>2. positions' \in [complete : BOOLEAN, cached : 0..Qty]
    BY <1>0, <1>10 DEF BrokerUpdatesPosition
  <2> QED BY <1>0, <1>10, <2>1, <2>2, BrokerMoves DEF BrokerUpdatesPosition, Emit
<1>11. ASSUME NEW m \in Messages, ReportsOrder(m) /\ m.status \in TERMINAL
                                    => market \in Over /\ m.filled = filled,
              m.kind = "answer", Answer(m), UNCHANGED <<durable, engine, link, sent, crashes>>,
              positions' \in [complete : BOOLEAN, cached : 0..Qty]
       PROVE  IInv'
  <2>1. inbox' = OnLink(<<m>>) /\ UNCHANGED <<market, filled, asked>>
    BY <1>11 DEF Answer, Emit
  <2>2. Truth(m)'
    BY <1>11, <2>1 DEF Truth, ReportsOrder
  <2>3. <<m>> \in Seq(Honest')
    BY <1>1, <2>2, Bundles
  <2> QED BY <1>0, <1>11, <2>1, <2>3, BrokerMoves
<1>12. CASE BrokerAnswersPositions
  <2> DEFINE m == [kind |-> "answer", part |-> "positions", quantity |-> filled]
  <2>1. m \in Messages /\ m.kind = "answer" /\ ~ReportsOrder(m)
    BY <1>0 DEF Messages, ReportsOrder
  <2>2. Answer(m) /\ positions' = [complete |-> TRUE, cached |-> filled]
        /\ UNCHANGED <<durable, engine, link, sent, crashes>>
    BY <1>12 DEF BrokerAnswersPositions
  <2>3. positions' \in [complete : BOOLEAN, cached : 0..Qty]
    BY <1>0, <2>2
  <2> HIDE DEF m
  <2> QED BY <1>11, <2>1, <2>2, <2>3
<1>13. CASE BrokerAnswersOpenOrders
  <2> DEFINE m == [kind |-> "answer", part |-> "orders", filled |-> NoValue,
                   status |-> IF market = "live" THEN "Submitted" ELSE "none"]
  <2>1. m \in Messages /\ m.kind = "answer" /\ m.status \notin TERMINAL
    BY DEF Messages, TERMINAL
  <2>2. Answer(m) /\ QuietBroker
    BY <1>13 DEF BrokerAnswersOpenOrders
  <2> HIDE DEF m
  <2> QED BY <1>0, <1>11, <2>1, <2>2 DEF QuietBroker
<1>14. CASE BrokerAnswersCompletedOrders
  <2> DEFINE m(today) == [kind |-> "answer", part |-> "completed", filled |-> filled,
               status |-> IF today /\ market = "filled" THEN "Filled"
                          ELSE IF today /\ market = "cancelled" THEN "Cancelled"
                          ELSE "none"]
  <2>1. PICK today \in BOOLEAN : Answer(m(today))
    BY <1>14 DEF BrokerAnswersCompletedOrders
  <2>2. m(today) \in Messages /\ m(today).kind = "answer" /\ m(today).filled = filled
        /\ (m(today).status \in TERMINAL => market \in Over)
    BY <1>0 DEF Messages, TERMINAL, Over
  <2>3. QuietBroker
    BY <1>14 DEF BrokerAnswersCompletedOrders
  <2> HIDE DEF m
  <2> QED BY <1>0, <1>11, <2>1, <2>2, <2>3 DEF QuietBroker
<1>15. CASE BrokerAnswersExecutions
  <2> DEFINE m == [kind |-> "answer", part |-> "executions", ids |-> 1..filled]
  <2>1. m \in Messages /\ m.kind = "answer" /\ ~ReportsOrder(m)
    <3>1. 1..filled \subseteq 1..Qty
      BY <1>0
    <3> QED BY <3>1 DEF Messages, ReportsOrder
  <2>2. Answer(m) /\ QuietBroker
    BY <1>15 DEF BrokerAnswersExecutions
  <2> HIDE DEF m
  <2> QED BY <1>0, <1>11, <2>1, <2>2 DEF QuietBroker
<1> QED BY <1>5, <1>6, <1>7, <1>8, <1>9, <1>10, <1>12, <1>13, <1>14, <1>15 DEF Broker

LEMMA StepKeeps == IInv /\ [Next]_vars => IInv'
<1> SUFFICES ASSUME IInv, [Next]_vars PROVE IInv'
  OBVIOUS
<1>1. CASE UNCHANGED vars
  <2> USE DEF vars, durable, engine, adapter, broker
  <2>1. UNCHANGED <<market, filled, inbox>>
    BY <1>1
  <2>2. inbox' \in Seq(Honest')
    BY <2>1, InboxStays DEF IInv
  <2>3. TypeOK'
    BY <1>1 DEF IInv, TypeOK
  <2>4. Facts'
    BY <1>1 DEF IInv, Facts, Unsent, Unfilled, DocOver, RowOver, RowFresh
  <2> QED BY <2>2, <2>3, <2>4 DEF IInv
<1> QED BY <1>1, DispatchKeeps, CancelKeeps, ObserveKeeps, ReconcileKeeps, ConnectionKeeps,
           CrashKeeps, BrokerKeeps DEF Next

LEMMA Invariance == Spec => []IInv
BY InitHolds, StepKeeps, PTL DEF Spec

(* The rows, documents, callbacks and cached positions keep to the values   *)
(* the code can store, for every quantity and every bound.                  *)
THEOREM TypeCorrect == Spec => []TypeOK
<1>1. IInv => TypeOK
  BY DEF IInv
<1> QED BY <1>1, Invariance, PTL

(* No crash, reconnect or late callback closes the local row of an order    *)
(* that can still fill at the broker.                                       *)
THEOREM FinishedIsDead == Spec => []FinishedRowIsDead
<1>1. IInv => FinishedRowIsDead
  BY DEF IInv, Facts, RowOver, DocOver, Over, FinishedRowIsDead, Exposed
<1> QED BY <1>1, Invariance, PTL

-----------------------------------------------------------------------------
(* The refinement.                                                         *)

LEMMA Stutters == UNCHANGED <<reservation, market, filled>> => UNCHANGED Promise!vars
BY DEF Promise!vars, Exposed

\* An order that goes out of reach buys nothing any more.
LEMMA Closes ==
  ASSUME UNCHANGED <<reservation, filled>>,
         \/ market' = market
         \/ market = "wire" /\ market' \in {"live", "lost", "rejected"}
         \/ market = "live" /\ market' = "cancelled"
  PROVE  [Promise!Next]_(Promise!vars)
<1>1. CASE Exposed /\ ~Exposed'
  <2>1. Promise!Close
    BY <1>1 DEF Promise!Close, Exposed
  <2> QED BY <2>1 DEF Promise!Next
<1>2. CASE ~(Exposed /\ ~Exposed')
  BY <1>2 DEF Promise!vars, Exposed
<1> QED BY <1>1, <1>2

\* Capacity comes back from an order that cannot buy and has bought nothing.
LEMMA Returns ==
  ASSUME reservation = "active", reservation' = "released", ~Exposed, filled = 0,
         UNCHANGED <<market, filled>>
  PROVE  Promise!Return
BY DEF Promise!Return, Exposed

LEMMA DispatchRefines == IInv /\ Dispatch => [Promise!Next]_(Promise!vars)
<1> SUFFICES ASSUME IInv, Dispatch PROVE [Promise!Next]_(Promise!vars)
  OBVIOUS
<1> USE DEF durable, engine, adapter, broker
<1>1. CASE Reserve
  <2>1. reservation = "none" /\ reservation' = "active" /\ UNCHANGED <<market, filled>>
    BY <1>1 DEF Reserve, IInv, Facts, Unsent
  <2>2. Promise!Hold
    BY <2>1 DEF Promise!Hold, Exposed
  <2> QED BY <2>2 DEF Promise!Next
<1>2. CASE GuardBlocks
  <2>1. /\ reservation = "active" /\ reservation' = "released" /\ market = "none" /\ filled = 0
        /\ UNCHANGED <<market, filled>>
    BY <1>2 DEF GuardBlocks, IInv, Facts, Unsent, Unfilled
  <2>2. Promise!Return
    BY <2>1, Returns DEF Exposed
  <2> QED BY <2>2 DEF Promise!Next
<1>3. CASE MarkDispatch \/ MarkRefused
  BY <1>3, Stutters DEF MarkDispatch, MarkRefused
<1>4. CASE Submit \/ SubmitRaises
  <2>1. /\ reservation = "active" /\ market = "none" /\ UNCHANGED <<reservation, filled>>
        /\ market' \in {"none", "wire", "lost"}
    BY <1>4 DEF Submit, SubmitRaises, IInv, Facts, Unsent
  <2>2. CASE market' = market
    BY <2>1, <2>2, Stutters
  <2>3. CASE market' # market
    <3>1. Promise!Send
      BY <2>1, <2>3 DEF Promise!Send, Exposed
    <3> QED BY <3>1 DEF Promise!Next
  <2> QED BY <2>2, <2>3
<1> QED BY <1>1, <1>2, <1>3, <1>4 DEF Dispatch

LEMMA CancelRefines == IInv /\ Cancel => [Promise!Next]_(Promise!vars)
<1> SUFFICES ASSUME IInv, Cancel PROVE [Promise!Next]_(Promise!vars)
  OBVIOUS
<1> USE DEF durable, engine, adapter, broker
<1>1. CASE RetireReserved
  <2>1. /\ reservation = "active" /\ reservation' = "released" /\ market = "none" /\ filled = 0
        /\ UNCHANGED <<market, filled>>
    BY <1>1 DEF RetireReserved, IInv, Facts, Unsent, Unfilled
  <2>2. Promise!Return
    BY <2>1, Returns DEF Exposed
  <2> QED BY <2>2 DEF Promise!Next
<1>2. CASE ~RetireReserved
  BY <1>2, Stutters DEF Cancel, CancelEntry, OtherIncident, CancelForIncident, QueueCancel,
                        FlushCancellation, SendCancel, SendCancelRaises
<1> QED BY <1>1, <1>2

LEMMA ObserveRefines == Observe => UNCHANGED Promise!vars
<1> SUFFICES ASSUME Observe PROVE UNCHANGED <<reservation, market, filled>>
  BY Stutters
<1> QED BY DEF Observe, ObserveStatus, ObserveRejection, ObserveError, ObserveExecution,
               ObservePosition, AnsweredPosition, AnsweredOrders, AnsweredExecutions, Observed,
               durable, broker

\* The reconciliation releases what the executions and the reported quantity agree on.
LEMMA ReleasedUnfilled ==
  ASSUME IInv, NEW protected \in BOOLEAN, NEW row,
         row = IF Missing THEN AbsentRow ELSE outbox, Releases(row, ~Issues(row, protected))
  PROVE  ~Exposed /\ filled = 0
<1>1. row \in Finished /\ Owned = 0 /\ ~FillIssue
  BY DEF Releases, Issues
<1>2. outbox \in Finished
  BY <1>1 DEF Finished, AbsentRow
<1>3. CASE market = "none" \/ market = "rejected"
  BY <1>3 DEF Exposed, IInv, Facts, Unfilled
<1>4. CASE ~(market = "none" \/ market = "rejected")
  <2>1. market \in Over /\ doc.filled = filled
    BY <1>2, <1>4 DEF IInv, Facts, RowOver, DocOver
  <2>2. filled \in Nat
    BY EntryAssumption DEF IInv, TypeOK, EntryAssumption
  <2>3. ReportedFill = filled
    BY <2>1, <2>2 DEF ReportedFill, IInv, Facts, RowFresh
  <2>4. filled = 0
    BY <1>1, <2>2, <2>3 DEF FillIssue, Owned
  <2> QED BY <2>1, <2>4 DEF Exposed, Over
<1> QED BY <1>3, <1>4

LEMMA ReconcileRefines == IInv /\ Reconcile => [Promise!Next]_(Promise!vars)
<1> SUFFICES ASSUME IInv, Reconcile PROVE [Promise!Next]_(Promise!vars)
  OBVIOUS
<1> USE DEF durable, adapter, broker
<1>1. CASE BeginReconcile \/ FinishSuperseded
  BY <1>1, Stutters DEF BeginReconcile, FinishSuperseded
<1>2. CASE Finish
  <2>1. UNCHANGED <<market, filled>>
    BY <1>2 DEF Finish
  <2>2. PICK protected \in BOOLEAN :
          LET row == IF Missing THEN AbsentRow ELSE outbox
          IN  reservation' = IF reservation = "active" /\ Releases(row, ~Issues(row, protected))
                               THEN "released" ELSE reservation
    BY <1>2 DEF Finish
  <2> DEFINE row == IF Missing THEN AbsentRow ELSE outbox
  <2>3. CASE reservation = "active" /\ Releases(row, ~Issues(row, protected))
    <3>1. ~Exposed /\ filled = 0
      BY <2>3, ReleasedUnfilled
    <3>2. Promise!Return
      BY <2>1, <2>2, <2>3, <3>1, Returns
    <3> QED BY <3>2 DEF Promise!Next
  <2>4. CASE ~(reservation = "active" /\ Releases(row, ~Issues(row, protected)))
    BY <2>1, <2>2, <2>4, Stutters
  <2> QED BY <2>3, <2>4
<1> QED BY <1>1, <1>2 DEF Reconcile

LEMMA FailureRefines ==
  ASSUME Connect \/ Drop \/ ConnectionLost \/ Crash \/ CrashInObservation
  PROVE  [Promise!Next]_(Promise!vars)
<1> USE DEF durable, engine, adapter, broker
<1>1. /\ UNCHANGED <<reservation, filled>>
      /\ market' = market \/ (market = "wire" /\ market' = "lost")
  BY DEF Connect, Drop, ConnectionLost, Crash, CrashInObservation, Restart
<1> QED BY <1>1, Closes

LEMMA BrokerRefines == IInv /\ Broker => [Promise!Next]_(Promise!vars)
<1> SUFFICES ASSUME IInv, Broker PROVE [Promise!Next]_(Promise!vars)
  OBVIOUS
<1> USE DEF durable, broker
<1>1. CASE BrokerFills
  <2>1. /\ market = "live" /\ filled < Qty /\ filled' = filled + 1
        /\ market' \in {"filled", "live"} /\ UNCHANGED reservation
    BY <1>1 DEF BrokerFills
  <2>2. Promise!Buy
    BY <2>1 DEF Promise!Buy, Exposed
  <2> QED BY <2>2 DEF Promise!Next
<1>2. CASE ~BrokerFills
  <2>1. /\ UNCHANGED <<reservation, filled>>
        /\ \/ market' = market
           \/ market = "wire" /\ market' \in {"live", "rejected"}
           \/ market = "live" /\ market' = "cancelled"
    BY <1>2 DEF Broker, BrokerAccepts, BrokerRejects, BrokerCancels, CancelArrives,
                BrokerUpdatesPosition, BrokerAnswersPositions, BrokerAnswersOpenOrders,
                BrokerAnswersCompletedOrders, BrokerAnswersExecutions, Answer, QuietBroker
  <2> QED BY <2>1, Closes
<1> QED BY <1>1, <1>2

(* Capacity is held before the order can reach the market, one order is    *)
(* sent for it, and capacity is returned only when that order can buy      *)
(* nothing any more and has bought nothing: the ledger, the cancellation   *)
(* protocol and the reconciliation implement EntryCapacity.                *)
THEOREM ImplementsCapacity == Spec => CapacityPromise
<1>1. Init => Promise!Init
  BY DEF Init, Promise!Init
<1>2. IInv /\ [Next]_vars => [Promise!Next]_(Promise!vars)
  <2> SUFFICES ASSUME IInv, [Next]_vars PROVE [Promise!Next]_(Promise!vars)
    OBVIOUS
  <2>1. CASE UNCHANGED vars
    BY <2>1, Stutters DEF vars, durable, broker
  <2> QED BY <2>1, DispatchRefines, CancelRefines, ObserveRefines, ReconcileRefines,
             FailureRefines, BrokerRefines DEF Next
<1> QED BY <1>1, <1>2, Invariance, PTL DEF Spec, CapacityPromise, Promise!Spec

-----------------------------------------------------------------------------
(* What the submission and the cancellation promise.                        *)

(* What the submission rests on: nothing was sent while the thread is still *)
(* on its way to submit_bracket, and the row never returns to "none".       *)
SubmitInv ==
  /\ sent \in {0, 1}
  /\ outbox = "none" => sent = 0
  /\ pc \in {"guard", "submit"} => sent = 0 /\ outbox # "none"

LEMMA StatesNeverNone == ASSUME NEW status PROVE STATES(status) # "none"
BY DEF STATES

LEMMA RowNeverNone ==
  ASSUME NEW event, outbox # "none"
  PROVE  Reduced(event).state # "none"
<1> DEFINE obs == Normalised(doc, event)
           new == project_status(doc, obs)
<1>1. ObservedState(outbox, request.state, new.status) # "none"
  BY StatesNeverNone DEF ObservedState
<1>2. Reduced(event).state \in {outbox, ObservedState(outbox, request.state, new.status)}
  BY DEF Reduced, _order_observation
<1> QED BY <1>1, <1>2

THEOREM SubmitInductive == SubmitInv /\ [Next]_vars => SubmitInv'
<1> SUFFICES ASSUME SubmitInv, [Next]_vars PROVE SubmitInv'
  OBVIOUS
<1> USE DEF SubmitInv
<1>1. CASE Dispatch
  BY <1>1 DEF Dispatch, Reserve, GuardBlocks, MarkDispatch, MarkRefused, Submit, SubmitRaises,
              durable, engine, adapter, broker
<1>2. CASE Cancel
  BY <1>2 DEF Cancel, CancelEntry, OtherIncident, RetireReserved, CancelForIncident, QueueCancel,
              FlushCancellation, SendCancel, SendCancelRaises, durable, engine, adapter, broker
<1>3. CASE Observe
  <2>1. CASE ObserveStatus
    BY <2>1, RowNeverNone DEF ObserveStatus, Settle, RowAfter, Observed, Take
  <2>2. CASE ObserveRejection
    BY <2>2, RowNeverNone DEF ObserveRejection, RowAfter, Observed, Take
  <2>3. CASE ObserveError \/ ObserveExecution \/ ObservePosition \/ AnsweredPosition
             \/ AnsweredExecutions
    BY <2>3 DEF ObserveError, ObserveExecution, ObservePosition, AnsweredPosition,
                AnsweredExecutions, Observed, Take, TakePart, NextPc, durable
  <2>4. CASE AnsweredOrders
    BY <2>4, RowNeverNone DEF AnsweredOrders, Settle, RowAfter, Observed, Take, TakePart, NextPc
  <2> QED BY <1>3, <2>1, <2>2, <2>3, <2>4 DEF Observe
<1>4. CASE Reconcile
  BY <1>4 DEF Reconcile, BeginReconcile, FinishSuperseded, Finish, AbsentRow, Missing,
              durable, adapter, broker
<1>5. CASE Connect \/ Drop \/ ConnectionLost
  BY <1>5 DEF Connect, Drop, ConnectionLost, durable, engine, adapter, broker
<1>6. CASE Crash \/ CrashInObservation
  BY <1>6 DEF Crash, CrashInObservation, Restart, Restored
<1>7. CASE Broker
  BY <1>7 DEF Broker, BrokerAccepts, BrokerRejects, BrokerFills, BrokerCancels, CancelArrives,
              BrokerUpdatesPosition, BrokerAnswersPositions, BrokerAnswersOpenOrders,
              BrokerAnswersCompletedOrders, BrokerAnswersExecutions, Answer, QuietBroker,
              durable, engine, adapter, broker
<1>8. CASE UNCHANGED vars
  BY <1>8 DEF vars, durable, engine
<1> QED BY <1>1, <1>2, <1>3, <1>4, <1>5, <1>6, <1>7, <1>8 DEF Next
(* placeOrder is called at most once for the intent, for every quantity and *)
(* any number of connections, crashes and waiting callbacks.                *)
THEOREM AtMostOneSubmission == Spec => []SubmittedOnce
<1>1. Init => SubmitInv
  BY DEF Init, SubmitInv
<1>2. SubmitInv => SubmittedOnce
  BY DEF SubmitInv, SubmittedOnce
<1> QED BY <1>1, <1>2, SubmitInductive, PTL DEF Spec

-----------------------------------------------------------------------------
(* The latch: needs that no request exists before the intent, and that      *)
(* _queue_cancel only runs on a row that was just set to cancel_pending.    *)
Unlatched == {"reserved", "dispatching", "working"}

LatchInv ==
  /\ request \in [state : {"none", "queued", "pending", "confirmed"}, epoch : Nat]
  /\ epoch \in Nat
  /\ request.state \in CancelLatched => outbox \notin Unlatched
  /\ outbox = "none" => request.state = "none"
  /\ pc = "queue" => outbox = "cancel_pending"

LEMMA StatesRange == ASSUME NEW status PROVE STATES(status) \in ProjectedStates
BY DEF STATES, ProjectedStates

LEMMA RowStaysLatched ==
  ASSUME NEW event, request.state \in CancelLatched, outbox \notin Unlatched
  PROVE  Reduced(event).state \notin Unlatched
<1> DEFINE obs == Normalised(doc, event)
           new == project_status(doc, obs)
<1>1. ObservedState(outbox, request.state, new.status) \notin Unlatched
  BY StatesRange DEF ObservedState, Unlatched, ProjectedStates
<1>2. Reduced(event).state \in {outbox, ObservedState(outbox, request.state, new.status)}
  BY DEF Reduced, _order_observation
<1> QED BY <1>1, <1>2

\* An observation of any kind leaves the request alone and latches the row.
LEMMA RowAfterKeeps ==
  ASSUME NEW event, LatchInv
  PROVE  /\ request.state \in CancelLatched => RowAfter(Reduced(event)) \notin Unlatched
         /\ RowAfter(Reduced(event)) = "none" => request.state = "none"
<1>1. CASE outbox = "none"
  BY <1>1 DEF RowAfter, LatchInv, CancelLatched
<1>2. CASE outbox # "none"
  BY <1>2, RowNeverNone, RowStaysLatched DEF RowAfter, LatchInv
<1> QED BY <1>1, <1>2

THEOREM LatchInductive == LatchInv /\ [Next]_vars => LatchInv'
<1> SUFFICES ASSUME LatchInv, [Next]_vars PROVE LatchInv'
  OBVIOUS
<1> USE DEF LatchInv, Unlatched, CancelLatched
<1>1. CASE Dispatch
  BY <1>1 DEF Dispatch, Reserve, GuardBlocks, MarkDispatch, MarkRefused, Submit, SubmitRaises,
              durable, engine, adapter, broker
<1>2. CASE Cancel
  <2>1. CASE CancelEntry \/ OtherIncident \/ RetireReserved \/ CancelForIncident
    BY <2>1 DEF CancelEntry, OtherIncident, RetireReserved, CancelForIncident, engine
  <2>2. CASE QueueCancel
    <3>1. request' = IF request.state = "none" THEN [state |-> "queued", epoch |-> 0] ELSE request
      BY <2>2 DEF QueueCancel, NoRequest
    <3> QED BY <2>2, <3>1 DEF QueueCancel
  <2>3. CASE FlushCancellation
    BY <2>3 DEF FlushCancellation
  <2>4. CASE SendCancel \/ SendCancelRaises
    BY <2>4 DEF SendCancel, SendCancelRaises, durable
  <2> QED BY <1>2, <2>1, <2>2, <2>3, <2>4 DEF Cancel
<1>3. CASE Observe
  <2>1. CASE ObserveStatus
    BY <2>1, RowAfterKeeps DEF ObserveStatus, Settle, Observed, Take
  <2>2. CASE ObserveRejection
    BY <2>2, RowAfterKeeps DEF ObserveRejection, Observed, Take
  <2>3. CASE ObserveError \/ ObserveExecution \/ ObservePosition \/ AnsweredPosition
             \/ AnsweredExecutions
    BY <2>3 DEF ObserveError, ObserveExecution, ObservePosition, AnsweredPosition,
                AnsweredExecutions, Observed, Take, TakePart, NextPc, durable
  <2>4. CASE AnsweredOrders
    BY <2>4, RowAfterKeeps DEF AnsweredOrders, Settle, Observed, Take, TakePart, NextPc
  <2> QED BY <1>3, <2>1, <2>2, <2>3, <2>4 DEF Observe
<1>4. CASE Reconcile
  <2>1. CASE BeginReconcile \/ FinishSuperseded
    BY <2>1 DEF BeginReconcile, FinishSuperseded, durable
  <2>2. CASE Finish
    <3>1. /\ ReconciledRequest \in [state : {"none", "queued", "pending", "confirmed"},
                                    epoch : Nat]
          /\ ReconciledRequest.state \in {"queued", "pending"}
               => request.state \in {"queued", "pending"}
          /\ request.state = "none" => ReconciledRequest.state = "none"
      <4>1. Confirms => request.state # "none"
        BY DEF Confirms
      <4>2. Retries => request.state = "pending"
        BY DEF Retries
      <4> QED BY <4>1, <4>2 DEF ReconciledRequest
    <3>2. outbox' \in {outbox, "unknown"} /\ (outbox = "none" => outbox' = "none")
      BY <2>2 DEF Finish, Missing, AbsentRow
    <3>3. pc' \in {"flush", "idle"} /\ epoch' = epoch
      BY <2>2 DEF Finish
    <3> QED BY <2>2, <3>1, <3>2, <3>3 DEF Finish
  <2> QED BY <1>4, <2>1, <2>2 DEF Reconcile
<1>5. CASE Connect \/ Drop \/ ConnectionLost
  BY <1>5 DEF Connect, Drop, ConnectionLost, durable, engine, adapter, broker
<1>6. CASE Crash \/ CrashInObservation
  <2>1. /\ request' = request /\ epoch' = 0 /\ pc' = "idle"
        /\ outbox' = Restored(outbox)
    BY <1>6 DEF Crash, CrashInObservation, Restart
  <2>2. Restored(outbox) \in {outbox, "unknown"} /\ (Restored(outbox) = "none" => outbox = "none")
    BY DEF Restored
  <2> QED BY <2>1, <2>2
<1>7. CASE Broker
  BY <1>7 DEF Broker, BrokerAccepts, BrokerRejects, BrokerFills, BrokerCancels, CancelArrives,
              BrokerUpdatesPosition, BrokerAnswersPositions, BrokerAnswersOpenOrders,
              BrokerAnswersCompletedOrders, BrokerAnswersExecutions, Answer, QuietBroker,
              durable, engine, adapter, broker
<1>8. CASE UNCHANGED vars
  BY <1>8 DEF vars, durable, engine
<1> QED BY <1>1, <1>2, <1>3, <1>4, <1>5, <1>6, <1>7, <1>8 DEF Next

(* While a cancellation request is unconfirmed the row is never again one   *)
(* that may work or be dispatched, across every callback and restart.       *)
THEOREM CancellationStaysLatched == Spec => []CancelRequestIsLatched
<1>1. Init => LatchInv
  BY DEF Init, LatchInv, NoRequest, CancelLatched, Unlatched
<1>2. LatchInv => CancelRequestIsLatched
  BY DEF LatchInv, CancelRequestIsLatched, CancelLatched, Unlatched
<1> QED BY <1>1, <1>2, LatchInductive, PTL DEF Spec
-----------------------------------------------------------------------------
(* What reconciled means.  A reconciliation ends with the broker's answers  *)
(* of this connection folded in, and from then on whatever the ledger does  *)
(* not know yet waits in the queue: every fill it has not recorded is       *)
(* reported there, and the end of an order that it takes to be working.     *)

Waits(queue) == {queue[i] : i \in DOMAIN queue}

Answers(m, part) == m.kind = "answer" /\ m.part = part

\* A callback that shows the order at the broker, at work, or at its end.
Shows(m) == m.kind = "status" \/ (ReportsOrder(m) /\ m.status # "none")
Works(m) == Shows(m) /\ m.status = "Submitted"
Ends(m)  == m.kind = "reject" \/ (m.kind = "status" /\ m.status \in TERMINAL)

Reports(m, id) == \/ m.kind = "exec" /\ m.id = id
                  \/ Answers(m, "executions") /\ id \in m.ids

\* Nothing is reported before it happened.
Timely(m) == /\ \A id \in 1..Qty : Reports(m, id) => id <= filled
             /\ Shows(m) => market \in {"live"} \cup Over
AllTimely == execs \subseteq 1..filled /\ \A m \in Waits(inbox) : Timely(m)

\* A report that the order works is followed by one that it has ended.
Followed(queue) == \A i \in DOMAIN queue : Works(queue[i]) =>
                     \E j \in DOMAIN queue : j > i /\ Ends(queue[j])
Told == link => market = "live" \/ Followed(inbox)

\* The broker still works the order, or the callback that ended it waits.
EndComes == market = "live" \/ \E m \in Waits(inbox) : Ends(m)

\* The executions were asked for on this connection and answered.
Counted == \/ verified.reconciled \/ "executions" \in snapshot.parts
           \/ \E m \in Waits(inbox) : Answers(m, "executions")
Complete == link /\ Counted => \A id \in 1..filled :
              id \in execs \/ \E m \in Waits(inbox) : Reports(m, id)

RowTrue == snapshot.row.seen =>
  /\ outbox = "working" => doc.status \in WORKING
  /\ link /\ doc.status \notin TERMINAL => EndComes

Verified == verified.reconciled =>
  /\ connected /\ outbox \notin {"unknown", "cancel_pending"}
  /\ outbox = "dispatching" => pc = "submit"
  /\ outbox = "working" => doc.status \in WORKING /\ (link => EndComes)

AtFinish == pc = "finish" => connected /\ snapshot.parts = Parts

Known == AllTimely /\ Told /\ Complete /\ RowTrue /\ Verified /\ AtFinish
KInv  == IInv /\ LatchInv /\ Known

-----------------------------------------------------------------------------
(* Queues.                                                                 *)

LEMMA WaitsOf ==
  ASSUME NEW S
  PROVE  /\ Waits(<<>>) = {}
         /\ \A q \in Seq(S) : q # <<>> => Waits(q) = {Head(q)} \cup Waits(Tail(q))
         /\ \A q, r \in Seq(S) : Waits(q \o r) = Waits(q) \cup Waits(r)
<1>1. Waits(<<>>) = {}
  BY DEF Waits
<1>2. ASSUME NEW q \in Seq(S), q # <<>> PROVE Waits(q) = {Head(q)} \cup Waits(Tail(q))
  <2>1. /\ Len(q) \in Nat \ {0} /\ DOMAIN q = 1..Len(q) /\ Head(q) = q[1]
        /\ DOMAIN Tail(q) = 1..(Len(q) - 1)
        /\ \A i \in 1..(Len(q) - 1) : Tail(q)[i] = q[i + 1]
    BY <1>2
  <2>2. \A i \in 1..Len(q) : i = 1 \/ (i - 1 \in 1..(Len(q) - 1) /\ q[i] = Tail(q)[i - 1])
    BY <2>1
  <2>3. \A i \in 1..(Len(q) - 1) : i + 1 \in 1..Len(q) /\ 1 \in 1..Len(q)
    BY <2>1
  <2>4. 1 \in 1..Len(q)
    BY <2>1
  <2>5. \A m \in Waits(q) : m = Head(q) \/ m \in Waits(Tail(q))
    <3> SUFFICES ASSUME NEW i \in 1..Len(q) PROVE q[i] = Head(q) \/ q[i] \in Waits(Tail(q))
      BY <2>1 DEF Waits
    <3> QED BY <2>1, <2>2 DEF Waits
  <2>6. \A m \in Waits(Tail(q)) : m \in Waits(q)
    <3> SUFFICES ASSUME NEW i \in 1..(Len(q) - 1) PROVE Tail(q)[i] \in Waits(q)
      BY <2>1 DEF Waits
    <3> QED BY <2>1, <2>3 DEF Waits
  <2>7. Head(q) \in Waits(q)
    BY <2>1, <2>4 DEF Waits
  <2> QED BY <2>5, <2>6, <2>7
<1>3. ASSUME NEW q \in Seq(S), NEW r \in Seq(S) PROVE Waits(q \o r) = Waits(q) \cup Waits(r)
  <2>1. /\ Len(q) \in Nat /\ Len(r) \in Nat /\ DOMAIN q = 1..Len(q) /\ DOMAIN r = 1..Len(r)
        /\ DOMAIN (q \o r) = 1..(Len(q) + Len(r))
        /\ \A i \in 1..Len(q) : (q \o r)[i] = q[i]
        /\ \A i \in 1..Len(r) : (q \o r)[Len(q) + i] = r[i]
    OBVIOUS
  <2>2. \A i \in 1..(Len(q) + Len(r)) : i \in 1..Len(q) \/ (i - Len(q) \in 1..Len(r) /\ i = Len(q) + (i - Len(q)))
    BY <2>1
  <2>3. \A i \in 1..Len(q) : i \in 1..(Len(q) + Len(r))
    BY <2>1
  <2>4. \A i \in 1..Len(r) : Len(q) + i \in 1..(Len(q) + Len(r))
    BY <2>1
  <2>5. Waits(q \o r) \subseteq Waits(q) \cup Waits(r)
    <3> SUFFICES ASSUME NEW i \in 1..(Len(q) + Len(r)) PROVE (q \o r)[i] \in Waits(q) \cup Waits(r)
      BY <2>1 DEF Waits
    <3>1. CASE i \in 1..Len(q)
      BY <2>1, <3>1 DEF Waits
    <3>2. CASE i - Len(q) \in 1..Len(r)
      <4>1. (q \o r)[i] = r[i - Len(q)]
        BY <2>1, <2>2, <3>2
      <4> QED BY <2>1, <3>2, <4>1 DEF Waits
    <3> QED BY <2>2, <3>1, <3>2
  <2>6. Waits(q) \cup Waits(r) \subseteq Waits(q \o r)
    BY <2>1, <2>3, <2>4, Zenon DEF Waits
  <2> QED BY <2>5, <2>6
<1> QED BY <1>1, <1>2, <1>3

\* Taking the oldest callback.
LEMMA FollowedTail ==
  ASSUME NEW S, NEW q \in Seq(S), q # <<>>, Followed(q)
  PROVE  /\ Followed(Tail(q))
         /\ Works(Head(q)) => \E m \in Waits(Tail(q)) : Ends(m)
<1>1. /\ Len(q) \in Nat \ {0} /\ DOMAIN q = 1..Len(q) /\ Head(q) = q[1]
      /\ DOMAIN Tail(q) = 1..(Len(q) - 1)
      /\ \A i \in 1..(Len(q) - 1) : Tail(q)[i] = q[i + 1]
  OBVIOUS
<1>2. \A i \in 1..Len(q) : Works(q[i]) => \E j \in 1..(Len(q) - 1) : j >= i /\ Ends(Tail(q)[j])
  <2> SUFFICES ASSUME NEW i \in 1..Len(q), Works(q[i])
               PROVE  \E j \in 1..(Len(q) - 1) : j >= i /\ Ends(Tail(q)[j])
    OBVIOUS
  <2>1. PICK j \in 1..Len(q) : j > i /\ Ends(q[j])
    BY <1>1 DEF Followed
  <2>2. j - 1 \in 1..(Len(q) - 1) /\ j - 1 >= i /\ q[j] = Tail(q)[j - 1]
    BY <1>1, <2>1
  <2> QED BY <2>1, <2>2
<1>3. Followed(Tail(q))
  <2> SUFFICES ASSUME NEW i \in 1..(Len(q) - 1), Works(Tail(q)[i])
               PROVE  \E j \in 1..(Len(q) - 1) : j > i /\ Ends(Tail(q)[j])
    BY <1>1 DEF Followed
  <2>1. i + 1 \in 1..Len(q) /\ Works(q[i + 1])
    BY <1>1
  <2>2. PICK j \in 1..(Len(q) - 1) : j >= i + 1 /\ Ends(Tail(q)[j])
    BY <1>2, <2>1
  <2> QED BY <2>2
<1>4. Works(Head(q)) => \E m \in Waits(Tail(q)) : Ends(m)
  <2> SUFFICES ASSUME Works(q[1]) PROVE \E m \in Waits(Tail(q)) : Ends(m)
    BY <1>1
  <2>1. 1 \in 1..Len(q)
    BY <1>1
  <2>2. PICK j \in 1..(Len(q) - 1) : Ends(Tail(q)[j])
    BY <1>2, <2>1
  <2>3. Tail(q)[j] \in Waits(Tail(q))
    BY <1>1, <2>2 DEF Waits
  <2> QED BY <2>2, <2>3
<1> QED BY <1>3, <1>4

\* Adding callbacks, none of which shows the order at work.
LEMMA FollowedAppend ==
  ASSUME NEW S, NEW q \in Seq(S), NEW r \in Seq(S),
         \A m \in Waits(r) : ~Works(m), Followed(q) \/ \E m \in Waits(r) : Ends(m)
  PROVE  Followed(q \o r)
<1>1. /\ Len(q) \in Nat /\ Len(r) \in Nat /\ DOMAIN q = 1..Len(q) /\ DOMAIN r = 1..Len(r)
      /\ DOMAIN (q \o r) = 1..(Len(q) + Len(r))
      /\ \A i \in 1..Len(q) : (q \o r)[i] = q[i]
      /\ \A i \in 1..Len(r) : (q \o r)[Len(q) + i] = r[i]
  OBVIOUS
<1> SUFFICES ASSUME NEW i \in 1..(Len(q) + Len(r)), Works((q \o r)[i])
             PROVE  \E j \in 1..(Len(q) + Len(r)) : j > i /\ Ends((q \o r)[j])
  BY <1>1 DEF Followed
<1>2. i \in 1..Len(q)
  <2>1. CASE i \notin 1..Len(q)
    <3>1. i - Len(q) \in 1..Len(r) /\ i = Len(q) + (i - Len(q))
      BY <1>1, <2>1
    <3>2. (q \o r)[i] = r[i - Len(q)]
      BY <1>1, <3>1, Zenon
    <3>3. r[i - Len(q)] \in Waits(r)
      BY <1>1, <3>1 DEF Waits
    <3> QED BY <3>2, <3>3
  <2> QED BY <2>1
<1>3. CASE Followed(q)
  <2>1. PICK j \in 1..Len(q) : j > i /\ Ends(q[j])
    BY <1>1, <1>2, <1>3 DEF Followed
  <2>2. j \in 1..(Len(q) + Len(r)) /\ (q \o r)[j] = q[j]
    BY <1>1, <2>1
  <2> QED BY <2>1, <2>2
<1>4. CASE \E m \in Waits(r) : Ends(m)
  <2>1. PICK j \in 1..Len(r) : Ends(r[j])
    BY <1>1, <1>4 DEF Waits
  <2>2. Len(q) + j \in 1..(Len(q) + Len(r)) /\ Len(q) + j > i /\ (q \o r)[Len(q) + j] = r[j]
    BY <1>1, <1>2, <2>1
  <2> QED BY <2>1, <2>2
<1> QED BY <1>3, <1>4
-----------------------------------------------------------------------------
(* Observations.                                                           *)

\* What is left to know after the oldest callback was taken.
LEMMA TakenTells ==
  ASSUME KInv, Take, UNCHANGED <<market, filled, link>>,
         execs \subseteq execs', execs' \subseteq 1..Qty,
         \A id \in 1..Qty : Reports(Head(inbox), id) => id \in execs',
         \A id \in execs' : id \in execs \/ Reports(Head(inbox), id),
         verified'.reconciled => verified.reconciled,
         "executions" \in snapshot'.parts =>
           "executions" \in snapshot.parts \/ Answers(Head(inbox), "executions")
  PROVE  /\ AllTimely' /\ Told' /\ Complete'
         /\ pc = "idle" /\ connected /\ Head(inbox) \in Messages /\ Timely(Head(inbox))
         /\ link /\ Works(Head(inbox)) => EndComes'
         /\ EndComes /\ ~Ends(Head(inbox)) => EndComes'
<1>1. inbox \in Seq(Honest) /\ inbox # <<>> /\ inbox' = Tail(inbox) /\ pc = "idle" /\ connected
  BY DEF KInv, IInv, Take
<1>2. Waits(inbox) = {Head(inbox)} \cup Waits(inbox')
  BY <1>1, WaitsOf
<1>3. Head(inbox) \in Messages
  BY Taken DEF KInv
<1>4. filled \in 0..Qty /\ Qty \in Nat
  BY EntryAssumption DEF KInv, IInv, TypeOK, EntryAssumption
<1>5. \A m \in Waits(inbox) : Timely(m) /\ Timely(m)'
  BY DEF KInv, Known, AllTimely, Timely
<1>6. AllTimely'
  <2>1. \A id \in execs' : id \in 1..filled
    <3> SUFFICES ASSUME NEW id \in execs' PROVE id \in 1..filled
      OBVIOUS
    <3>1. CASE id \in execs
      BY <3>1 DEF KInv, Known, AllTimely
    <3>2. CASE Reports(Head(inbox), id)
      <4>1. id \in 1..Qty /\ Timely(Head(inbox))
        BY <1>2, <1>5
      <4> QED BY <1>4, <3>2, <4>1 DEF Timely
    <3> QED BY <3>1, <3>2
  <2>2. \A m \in Waits(inbox') : Timely(m)'
    BY <1>2, <1>5
  <2> QED BY <2>1, <2>2 DEF AllTimely
<1>7. link /\ market # "live" => /\ Followed(inbox')
                                 /\ Works(Head(inbox)) => \E m \in Waits(inbox') : Ends(m)
  BY <1>1, FollowedTail DEF KInv, Known, Told
<1>8. Complete'
  <2> SUFFICES ASSUME link, Counted', NEW id \in 1..filled
               PROVE  id \in execs' \/ \E m \in Waits(inbox') : Reports(m, id)
    BY DEF Complete
  <2>1. Counted
    BY <1>2 DEF Counted
  <2>2. id \in execs \/ \E m \in Waits(inbox) : Reports(m, id)
    BY <2>1 DEF KInv, Known, Complete
  <2>3. id \in 1..Qty
    BY <1>4
  <2> QED BY <1>2, <2>2, <2>3
<1>9. Told' /\ (link /\ Works(Head(inbox)) => EndComes')
  BY <1>7 DEF Told, EndComes
<1>10. EndComes /\ ~Ends(Head(inbox)) => EndComes'
  BY <1>2 DEF EndComes
<1>11. Timely(Head(inbox))
  BY <1>2, <1>5
<1> QED BY <1>1, <1>3, <1>6, <1>8, <1>9, <1>10, <1>11

\* The report of an end ends the document.
LEMMA EndsApply ==
  ASSUME NEW old, NEW obs, obs.status \in TERMINAL
  PROVE  project_status(old, obs).status \in TERMINAL
BY DEF project_status, Disposition, TERMINAL, LateTerminal, LateRejection, LatePending,
       Reopens, AfterFill, Unexplained, KnownStatuses, PENDING, WORKING

\* A row that works has a document that does, and no news leaves a verified row as it is.
LEMMA SettleTells ==
  ASSUME KInv, NEW event \in Events, event.status \in {"Submitted", "Filled", "Cancelled", "Rejected"},
         market \in {"live"} \cup Over, pc = "idle"
  PROVE  LET r == Reduced(event)
         IN  /\ RowAfter(r) = "working" => r.doc.status \in WORKING
             /\ r.doc.status \notin TERMINAL => event.status = "Submitted"
             /\ verified.reconciled /\ ~Disturbs(r) =>
                  RowAfter(r) \notin {"unknown", "cancel_pending", "dispatching"}
<1> DEFINE r == Reduced(event)
           new == project_status(doc, event)
<1>1. Normalised(doc, event) = event
  BY Normal
<1>2. ~IdentityChanged(doc, event)
  BY DEF IdentityChanged, KInv, IInv, TypeOK, Events
<1>3. /\ r.doc = new /\ r.state = ObservedState(outbox, request.state, new.status)
      /\ r.changed <=> doc.status # new.status \/ doc.filled # new.filled
  BY <1>1, <1>2 DEF Reduced, _order_observation
<1>4. new.status \notin TERMINAL => event.status = "Submitted"
  BY EndsApply DEF TERMINAL
<1>5. \A s : ObservedState(outbox, request.state, s) = "working" => s \in WORKING
  BY DEF ObservedState, STATES, WORKING
<1> HIDE DEF new, r
<1>6. RowAfter(r) = "working" => r.doc.status \in WORKING
  BY <1>3, <1>5 DEF RowAfter
<1>7. ASSUME verified.reconciled, ~Disturbs(r)
      PROVE  RowAfter(r) \notin {"unknown", "cancel_pending", "dispatching"}
  <2>1. new.status = doc.status
    BY <1>3, <1>7 DEF Disturbs
  <2>2. r.state = ObservedState(outbox, request.state, doc.status)
    BY <1>3, <2>1
  <2>3. /\ outbox \notin {"unknown", "cancel_pending", "dispatching", "reserved"}
        /\ outbox = "working" => doc.status \in WORKING /\ request.state \notin CancelLatched
        /\ outbox \in Finished => doc.status \in TERMINAL
    BY <1>7 DEF KInv, Known, Verified, IInv, Facts, Unsent, RowOver, LatchInv, Unlatched, Over
  <2>4. CASE outbox = "none"
    BY <2>4 DEF RowAfter
  <2>5. CASE outbox = "working"
    BY <2>2, <2>3, <2>5 DEF RowAfter, ObservedState, STATES, WORKING, PENDING
  <2>6. CASE outbox \in Finished
    BY <2>2, <2>3, <2>6 DEF RowAfter, ObservedState, STATES, WORKING, PENDING, TERMINAL, Finished
  <2> QED BY <2>3, <2>4, <2>5, <2>6 DEF KInv, IInv, TypeOK, Rows, ProjectedStates, Finished
<1> QED BY <1>3, <1>4, <1>6, <1>7 DEF r

LEMMA SettleKnown ==
  ASSUME KInv, Take, NEW event \in Events,
         event.status \in {"Submitted", "Filled", "Cancelled", "Rejected"},
         market \in {"live"} \cup Over,
         event.status = "Submitted" => Works(Head(inbox)),
         ~(\E id \in 1..Qty : Reports(Head(inbox), id)),
         doc' = Reduced(event).doc, outbox' = RowAfter(Reduced(event)),
         verified'.reconciled => verified.reconciled /\ ~Disturbs(Reduced(event)),
         "executions" \in snapshot'.parts => "executions" \in snapshot.parts,
         pc' = "finish" => snapshot'.parts = Parts,
         Observed
  PROVE  Known'
<1> USE DEF Observed, broker
<1>1. execs \subseteq 1..Qty
  BY DEF KInv, IInv, TypeOK
<1>2. /\ AllTimely' /\ Told' /\ Complete' /\ pc = "idle" /\ connected
      /\ link /\ Works(Head(inbox)) => EndComes'
  BY <1>1, TakenTells
<1>3. /\ outbox' = "working" => doc'.status \in WORKING
      /\ doc'.status \notin TERMINAL => event.status = "Submitted"
      /\ verified'.reconciled => outbox' \notin {"unknown", "cancel_pending", "dispatching"}
  BY <1>2, SettleTells
<1>4. link' /\ doc'.status \notin TERMINAL => EndComes'
  BY <1>2, <1>3
<1>5. doc'.status \in WORKING => doc'.status \notin TERMINAL
  BY DEF WORKING, TERMINAL
<1> QED BY <1>2, <1>3, <1>4, <1>5 DEF Known, RowTrue, Verified, AtFinish

LEMMA OthersKnown ==
  ASSUME KInv, Take, UNCHANGED <<outbox, doc, connected, market, filled, link>>,
         ~Ends(Head(inbox)), execs \subseteq execs', execs' \subseteq 1..Qty,
         \A id \in 1..Qty : Reports(Head(inbox), id) => id \in execs',
         \A id \in execs' : id \in execs \/ Reports(Head(inbox), id),
         verified'.reconciled => verified.reconciled,
         snapshot'.row = snapshot.row,
         "executions" \in snapshot'.parts =>
           "executions" \in snapshot.parts \/ Answers(Head(inbox), "executions"),
         pc' = "finish" => snapshot'.parts = Parts
  PROVE  Known'
<1>1. /\ AllTimely' /\ Told' /\ Complete' /\ pc = "idle" /\ connected
      /\ EndComes => EndComes'
  BY TakenTells
<1>2. RowTrue'
  BY <1>1 DEF KInv, Known, RowTrue
<1>3. Verified'
  BY <1>1 DEF KInv, Known, Verified
<1>4. AtFinish'
  BY <1>1 DEF AtFinish
<1> QED BY <1>1, <1>2, <1>3, <1>4 DEF Known

LEMMA ObserveKnown == KInv /\ Observe => Known'
<1> SUFFICES ASSUME KInv, Observe PROVE Known'
  OBVIOUS
<1> DEFINE m == Head(inbox)
<1> USE DEF durable, broker
<1>0. /\ TypeOK /\ execs \subseteq 1..Qty /\ snapshot.parts \subseteq Parts
      /\ verified \in [reconciled : BOOLEAN, agreement : BOOLEAN, position : 0..Qty]
      /\ Superseded(snapshot).parts = snapshot.parts /\ Superseded(snapshot).row = snapshot.row
      /\ ~Invalidated(verified).reconciled /\ ~Unsettled(verified).reconciled
  <2>1. TypeOK
    BY DEF KInv, IInv
  <2> QED BY <2>1, SupersededKeeps DEF TypeOK, Invalidated, Unsettled
<1>1. ASSUME Take, UNCHANGED <<market, filled>>
      PROVE  /\ m \in Messages /\ Truth(m) /\ pc = "idle"
             /\ Shows(m) => market \in {"live"} \cup Over
  <2>1. m \in Messages /\ Truth(m) /\ pc = "idle"
    BY <1>1, Taken DEF KInv
  <2>2. m \in Waits(inbox)
    BY <1>1, WaitsOf DEF KInv, IInv, Take
  <2> QED BY <2>1, <2>2 DEF KInv, Known, AllTimely, Timely
<1>2. CASE ObserveStatus
  <2> DEFINE event == Event(m.status, m.filled, 0, FALSE)
  <2>1. /\ Take /\ m.kind = "status" /\ Observed /\ UNCHANGED pc
        /\ doc' = Reduced(event).doc /\ outbox' = RowAfter(Reduced(event))
        /\ verified' = IF Disturbs(Reduced(event)) THEN Invalidated(verified) ELSE verified
        /\ \E s \in {snapshot, Superseded(snapshot)} :
             snapshot' = Staged(s, RowOf(Reduced(event), FALSE))
    BY <1>2 DEF ObserveStatus, Settle
  <2>2. m \in Messages /\ Truth(m) /\ pc = "idle" /\ market \in {"live"} \cup Over
    BY <1>1, <2>1 DEF Observed, Shows
  <2>3. m.status \in {"Submitted", "Filled", "Cancelled"} /\ m.filled \in 0..Qty
    BY <2>1, <2>2, Carried
  <2>4. event \in Events /\ event.status = m.status
    BY <2>3, Words DEF Event, Events
  <2>5. snapshot'.parts = snapshot.parts
    BY <1>0, <2>1 DEF Staged, TypeOK
  <2>6. verified'.reconciled => verified.reconciled /\ ~Disturbs(Reduced(event))
    BY <1>0, <2>1
  <2>7. ~(\E id \in 1..Qty : Reports(m, id)) /\ (event.status = "Submitted" => Works(m))
    BY <2>1, <2>4 DEF Reports, Answers, Works, Shows
  <2> HIDE DEF event, m
  <2> QED BY <2>1, <2>2, <2>3, <2>4, <2>5, <2>6, <2>7, SettleKnown DEF m
<1>3. CASE ObserveRejection
  <2> DEFINE event == Event("Rejected", NoValue, 201, FALSE)
  <2>1. /\ Take /\ m.kind = "reject" /\ Observed /\ UNCHANGED pc
        /\ doc' = Reduced(event).doc /\ outbox' = RowAfter(Reduced(event))
        /\ verified' = Invalidated(verified) /\ snapshot' = Superseded(snapshot)
    BY <1>3 DEF ObserveRejection, Invalidate
  <2>2. m \in Messages /\ Truth(m) /\ pc = "idle" /\ market \in {"live"} \cup Over
    BY <1>1, <2>1 DEF Observed, Truth, Over
  <2>3. event \in Events /\ event.status = "Rejected"
    BY Words DEF Event, Events
  <2>4. ~(\E id \in 1..Qty : Reports(m, id))
    BY <2>1 DEF Reports, Answers
  <2> HIDE DEF event, m
  <2> QED BY <1>0, <2>1, <2>2, <2>3, <2>4, SettleKnown DEF m
<1>4. CASE ObserveError
  <2>1. /\ Take /\ m.kind = "error" /\ verified' = Invalidated(verified)
        /\ snapshot' = Superseded(snapshot)
        /\ UNCHANGED <<outbox, doc, execs, pc, connected, link, market, filled>>
    BY <1>4 DEF ObserveError, Invalidate
  <2>2. ~Ends(m) /\ \A id \in 1..Qty : ~Reports(m, id)
    BY <2>1 DEF Ends, Reports, Answers
  <2>3. pc = "idle"
    BY <1>1, <2>1
  <2> QED BY <1>0, <2>1, <2>2, <2>3, OthersKnown
<1>5. CASE ObserveExecution
  <2>1. /\ Take /\ m.kind = "exec" /\ execs' = execs \cup {m.id}
        /\ verified' \in {verified, Unsettled(verified)}
        /\ snapshot' \in {snapshot, Superseded(snapshot)}
        /\ UNCHANGED <<outbox, doc, pc, connected, link, market, filled>>
    BY <1>5 DEF ObserveExecution, Execute
  <2>2. pc = "idle" /\ m.id \in 1..Qty
    BY <1>1, <2>1, Carried
  <2>3. ~Ends(m) /\ \A id \in 1..Qty : Reports(m, id) <=> m.id = id
    BY <2>1 DEF Ends, Reports, Answers
  <2> QED BY <1>0, <2>1, <2>2, <2>3, OthersKnown
<1>6. CASE ObservePosition
  <2>1. /\ Take /\ m.kind = "position"
        /\ UNCHANGED <<outbox, doc, execs, pc, connected, link, market, filled>>
    BY <1>6 DEF ObservePosition
  <2>2. verified'.reconciled => verified.reconciled
    <3>1. \E v \in {verified, Unsettled(verified)} : \E q : verified' \in {v, [v EXCEPT !.position = q]}
      BY <1>6 DEF ObservePosition
    <3>2. Unsettled(verified) \in [reconciled : BOOLEAN, agreement : BOOLEAN, position : 0..Qty]
      BY <1>0, InvalidatedType
    <3> QED BY <1>0, <3>1, <3>2
  <2>3. snapshot'.parts = snapshot.parts /\ snapshot'.row = snapshot.row
    <3>1. \E s \in {snapshot, Superseded(snapshot)} : \E q : snapshot' \in {s, [s EXCEPT !.position = q]}
      BY <1>6 DEF ObservePosition
    <3> QED BY <1>0, <3>1, SupersededKeeps DEF TypeOK
  <2>4. ~Ends(m) /\ \A id \in 1..Qty : ~Reports(m, id)
    BY <2>1 DEF Ends, Reports, Answers
  <2>5. pc = "idle"
    BY <1>1, <2>1
  <2> QED BY <1>0, <2>1, <2>2, <2>3, <2>4, <2>5, OthersKnown
<1>7. ASSUME NEW part, TakePart(part), UNCHANGED <<market, filled>>,
             snapshot'.parts = snapshot.parts \cup {part}
      PROVE  /\ Take /\ Answers(m, part) /\ m.kind = "answer"
             /\ pc' = "finish" => snapshot'.parts = Parts
             /\ "executions" \in snapshot'.parts =>
                  "executions" \in snapshot.parts \/ Answers(m, "executions")
  BY <1>7 DEF TakePart, NextPc, Answers
<1>8. CASE AnsweredPosition
  <2>1. /\ TakePart("positions") /\ UNCHANGED <<outbox, doc, execs, connected, link, market, filled>>
        /\ verified' \in {verified, Unsettled(verified)}
        /\ \E s \in {snapshot, Superseded(snapshot)} :
             snapshot' = [Marked(s, "positions") EXCEPT !.position = m.quantity]
    BY <1>8 DEF AnsweredPosition, Observed
  <2>2. snapshot'.parts = snapshot.parts \cup {"positions"} /\ snapshot'.row = snapshot.row
    BY <1>0, <2>1, SupersededKeeps DEF Marked, TypeOK
  <2>3. /\ Take /\ Answers(m, "positions")
        /\ pc' = "finish" => snapshot'.parts = Parts
        /\ "executions" \in snapshot'.parts => "executions" \in snapshot.parts
    BY <1>7, <2>1, <2>2
  <2>4. ~Ends(m) /\ \A id \in 1..Qty : ~Reports(m, id)
    BY <2>3 DEF Ends, Reports, Answers
  <2> QED BY <1>0, <2>1, <2>2, <2>3, <2>4, OthersKnown
<1>9. CASE AnsweredExecutions
  <2>1. /\ TakePart("executions") /\ execs' = execs \cup m.ids
        /\ verified' \in {verified, Unsettled(verified)}
        /\ \E s \in {snapshot, Superseded(snapshot)} : snapshot' = Marked(s, "executions")
        /\ UNCHANGED <<outbox, doc, connected, link, market, filled>>
    BY <1>9 DEF AnsweredExecutions, Execute
  <2>2. snapshot'.parts = snapshot.parts \cup {"executions"} /\ snapshot'.row = snapshot.row
    BY <1>0, <2>1, SupersededKeeps DEF Marked, TypeOK
  <2>3. /\ Take /\ Answers(m, "executions")
        /\ pc' = "finish" => snapshot'.parts = Parts
        /\ "executions" \in snapshot'.parts =>
             "executions" \in snapshot.parts \/ Answers(m, "executions")
    BY <1>7, <2>1, <2>2
  <2>4. m.ids \subseteq 1..Qty
    BY <1>1, <2>1, <2>3, Carried DEF Answers
  <2>5. ~Ends(m) /\ \A id \in 1..Qty : Reports(m, id) <=> id \in m.ids
    BY <2>3 DEF Ends, Reports, Answers
  <2>6. verified'.reconciled => verified.reconciled
    BY <1>0, <2>1
  <2>7. execs \subseteq execs' /\ execs' \subseteq 1..Qty
    BY <1>0, <2>1, <2>4
  <2>8. \A id \in execs' : id \in execs \/ Reports(m, id)
    BY <1>0, <2>1, <2>4, <2>5
  <2>9. \A id \in 1..Qty : Reports(m, id) => id \in execs'
    BY <2>1, <2>5
  <2> HIDE DEF m
  <2> QED BY <2>1, <2>2, <2>3, <2>5, <2>6, <2>7, <2>8, <2>9, OthersKnown DEF m
<1>10. CASE AnsweredOrders
  <2>1. PICK part \in {"orders", "completed"} :
       /\ TakePart(part)
       /\ IF m.status = "none"
            THEN snapshot' = Marked(snapshot, part) /\ UNCHANGED <<outbox, doc, verified, view>>
            ELSE LET r == Reduced(Event(m.status, m.filled, 0, part = "completed"))
                     s == IF Disturbs(r) THEN Superseded(snapshot) ELSE snapshot
                 IN  /\ Settle(r) /\ view' = RowOf(r, TRUE)
                     /\ snapshot' = Marked(Staged(s, RowOf(r, TRUE)), part)
    BY <1>10 DEF AnsweredOrders
  <2>2. Observed /\ UNCHANGED <<market, filled, execs, link, connected>>
    BY <1>10 DEF AnsweredOrders, Observed
  <2>3. Take /\ Answers(m, part) /\ m \in Messages /\ Truth(m) /\ pc = "idle"
    <3>1. Take /\ Answers(m, part)
      BY <2>1 DEF TakePart, Answers
    <3> QED BY <1>1, <2>2, <3>1
  <2>4. ~Ends(m) /\ \A id \in 1..Qty : ~Reports(m, id)
    BY <2>3 DEF Ends, Reports, Answers
  <2>5. CASE m.status = "none"
    <3>1. snapshot' = Marked(snapshot, part) /\ UNCHANGED <<outbox, doc, verified>>
      BY <2>1, <2>5
    <3>2. snapshot'.parts = snapshot.parts \cup {part} /\ snapshot'.row = snapshot.row
      BY <1>0, <3>1 DEF Marked, TypeOK
    <3>3. /\ pc' = "finish" => snapshot'.parts = Parts
          /\ "executions" \in snapshot'.parts => "executions" \in snapshot.parts
      BY <1>7, <2>1, <2>2, <3>2
    <3> QED BY <1>0, <2>2, <2>3, <2>4, <3>1, <3>2, <3>3, OthersKnown
  <2>6. CASE m.status # "none"
    <3> DEFINE event == Event(m.status, m.filled, 0, part = "completed")
               r == Reduced(event)
    <3>1. m.status \in {"Submitted", "Filled", "Cancelled"} /\ m.filled \in {NoValue} \cup 0..Qty
      BY <2>1, <2>3, <2>6, Carried DEF Answers
    <3>2. event \in Events /\ event.status = m.status
      BY <3>1, Words DEF Event, Events
    <3>3. Shows(m) /\ (event.status = "Submitted" => Works(m))
      BY <2>1, <2>3, <2>6, <3>2 DEF Shows, Works, ReportsOrder, Answers
    <3>4. market \in {"live"} \cup Over
      BY <1>1, <2>2, <2>3, <3>3
    <3>5. /\ doc' = r.doc /\ outbox' = RowAfter(r)
          /\ verified' = IF Disturbs(r) THEN Invalidated(verified) ELSE verified
          /\ \E s \in {snapshot, Superseded(snapshot)} : snapshot' = Marked(Staged(s, RowOf(r, TRUE)), part)
      BY <2>1, <2>6 DEF Settle
    <3> HIDE DEF event
    <3>6. snapshot'.parts = snapshot.parts \cup {part}
      <4>1. PICK s \in {snapshot, Superseded(snapshot)} : snapshot' = Marked(Staged(s, RowOf(r, TRUE)), part)
        BY <3>5
      <4>2. s.parts = snapshot.parts /\ s \in [inflight : BOOLEAN, superseded : BOOLEAN,
              parts : SUBSET Parts, row : RowType, position : 0..Qty]
        BY <1>0, <4>1, SupersededKeeps DEF TypeOK
      <4> QED BY <4>1, <4>2 DEF Marked, Staged
    <3>7. /\ pc' = "finish" => snapshot'.parts = Parts
          /\ "executions" \in snapshot'.parts => "executions" \in snapshot.parts
      BY <1>7, <2>1, <2>2, <3>6
    <3>8. verified'.reconciled => verified.reconciled /\ ~Disturbs(r)
      BY <1>0, <3>5
    <3> QED BY <2>2, <2>3, <2>4, <3>1, <3>2, <3>3, <3>4, <3>5, <3>7, <3>8, SettleKnown
  <2> QED BY <2>5, <2>6
<1> QED BY <1>2, <1>3, <1>4, <1>5, <1>6, <1>8, <1>9, <1>10 DEF Observe
-----------------------------------------------------------------------------
(* Everything else.                                                        *)

\* Steps that leave the queue, the document and the executions alone.
LEMMA QuietKnown ==
  ASSUME KInv, UNCHANGED <<inbox, doc, execs, filled, connected, link>>,
         market' = market \/ (market = "none" /\ market' \in {"wire", "lost"}),
         snapshot'.row = snapshot.row \/ ~snapshot'.row.seen,
         snapshot'.parts \subseteq snapshot.parts,
         outbox' = "working" => outbox = "working",
         verified'.reconciled => verified.reconciled,
         verified'.reconciled => /\ outbox' \notin {"unknown", "cancel_pending"}
                                 /\ outbox' = "dispatching" => pc' = "submit",
         pc' # "finish" \/ (pc = "finish" /\ snapshot'.parts = snapshot.parts)
  PROVE  Known'
<1>1. market' = "live" <=> market = "live"
  OBVIOUS
<1>2. AllTimely'
  BY DEF KInv, Known, AllTimely, Timely, Over
<1>3. EndComes' <=> EndComes
  BY <1>1 DEF EndComes
<1>4. Told' /\ Complete'
  BY <1>1 DEF KInv, Known, Told, Complete, Counted
<1>5. RowTrue' /\ Verified' /\ AtFinish'
  BY <1>3 DEF KInv, Known, RowTrue, Verified, AtFinish
<1> QED BY <1>2, <1>4, <1>5 DEF Known

LEMMA EngineKnown == KInv /\ (Dispatch \/ Cancel) => Known'
<1> SUFFICES ASSUME KInv, Dispatch \/ Cancel PROVE Known'
  OBVIOUS
<1> USE DEF durable, engine, adapter, broker
<1>0. /\ Superseded(snapshot).parts = snapshot.parts /\ Superseded(snapshot).row = snapshot.row
      /\ ~Invalidated(verified).reconciled
  <2>1. TypeOK
    BY DEF KInv, IInv
  <2> QED BY <2>1, SupersededKeeps DEF TypeOK, Invalidated
<1>1. /\ UNCHANGED <<inbox, doc, execs, filled, connected, link>>
      /\ pc' # "finish" \/ (pc = "finish" /\ UNCHANGED snapshot)
      /\ snapshot' \in {snapshot, Superseded(snapshot)}
      /\ outbox' = "working" => outbox = "working"
  BY DEF Dispatch, Reserve, GuardBlocks, MarkDispatch, MarkRefused, Submit, SubmitRaises, Cancel,
         CancelEntry, OtherIncident, RetireReserved, CancelForIncident, QueueCancel,
         FlushCancellation, SendCancel, SendCancelRaises, Invalidate
<1>2. market' = market \/ (market = "none" /\ market' \in {"wire", "lost"})
  BY DEF Dispatch, Reserve, GuardBlocks, MarkDispatch, MarkRefused, Submit, SubmitRaises, Cancel,
         CancelEntry, OtherIncident, RetireReserved, CancelForIncident, QueueCancel,
         FlushCancellation, SendCancel, SendCancelRaises, KInv, IInv, Facts, Unsent
<1>3. verified'.reconciled => /\ verified.reconciled /\ outbox' \notin {"unknown", "cancel_pending"}
                              /\ outbox' = "dispatching" => pc' = "submit"
  <2>1. CASE Dispatch
    BY <1>0, <2>1 DEF Dispatch, Reserve, GuardBlocks, MarkDispatch, MarkRefused, Submit, SubmitRaises,
       Invalidate, KInv, Known, Verified, IInv, Facts, Unsent
  <2>2. CASE Cancel
    BY <1>0, <2>2 DEF Cancel, CancelEntry, OtherIncident, RetireReserved, CancelForIncident,
       QueueCancel, FlushCancellation, SendCancel, SendCancelRaises, Invalidate, KInv, Known, Verified
  <2> QED BY <2>1, <2>2
<1>4. verified'.reconciled => verified.reconciled
  BY <1>3
<1>5. verified'.reconciled => /\ outbox' \notin {"unknown", "cancel_pending"}
                              /\ outbox' = "dispatching" => pc' = "submit"
  BY <1>3
<1>6. snapshot'.row = snapshot.row /\ snapshot'.parts = snapshot.parts
  BY <1>0, <1>1
<1> QED BY <1>1, <1>2, <1>4, <1>5, <1>6, QuietKnown

\* The broker: what it sends tells what it did.
LEMMA TellsKnown ==
  ASSUME KInv, IInv', UNCHANGED <<durable, engine, link>>, NEW messages \in Seq(Messages),
         inbox' = OnLink(messages), filled' \in {filled, filled + 1},
         market \in {"live"} \cup Over => market' \in {"live"} \cup Over,
         \A m \in Waits(messages) : Timely(m)',
         filled' # filled => \E m \in Waits(messages) : Reports(m, filled'),
         market' # "live" => \A m \in Waits(messages) : ~Works(m),
         market = "live" /\ market' # "live" => \E m \in Waits(messages) : Ends(m),
         \A m \in Waits(messages) : Answers(m, "executions") => m.ids = 1..filled'
  PROVE  Known'
<1> USE DEF durable, engine
<1>1. inbox \in Seq(Messages) /\ filled \in Nat /\ Qty \in Nat /\ filled' \in 0..Qty
  <2>1. inbox \in Seq(Honest) /\ Honest \subseteq Messages
    BY DEF KInv, IInv, Honest
  <2>2. inbox \in Seq(Messages)
    BY <2>1, SeqMonotonic
  <2>3. Qty \in Nat /\ filled \in 0..Qty
    BY EntryAssumption DEF EntryAssumption, KInv, IInv, TypeOK
  <2>4. filled' \in 0..Qty
    BY DEF IInv, TypeOK
  <2> QED BY <2>2, <2>3, <2>4
<1>2. Waits(inbox) \subseteq Waits(inbox') /\ Waits(inbox') \subseteq Waits(inbox) \cup Waits(messages)
  BY <1>1, WaitsOf DEF OnLink
<1>3. link => Waits(inbox') = Waits(inbox) \cup Waits(messages)
  BY <1>1, WaitsOf DEF OnLink
<1>4. AllTimely'
  <2>1. \A m \in Waits(inbox) : Timely(m)'
    BY <1>1 DEF KInv, Known, AllTimely, Timely
  <2>2. 1..filled \subseteq 1..filled'
    BY <1>1
  <2> QED BY <1>2, <2>1, <2>2 DEF KInv, Known, AllTimely
<1>5. Told'
  <2> SUFFICES ASSUME link, market' # "live" PROVE Followed(inbox \o messages)
    BY DEF Told, OnLink
  <2>1. Followed(inbox) \/ \E m \in Waits(messages) : Ends(m)
    BY DEF KInv, Known, Told
  <2> QED BY <1>1, <2>1, FollowedAppend
<1>6. link /\ EndComes => EndComes'
  BY <1>3 DEF EndComes
<1>7. Complete'
  <2> SUFFICES ASSUME link, Counted', NEW id \in 1..filled'
               PROVE  id \in execs \/ \E m \in Waits(inbox') : Reports(m, id)
    BY DEF Complete
  <2>1. CASE \E m \in Waits(messages) : Answers(m, "executions")
    <3>1. PICK m \in Waits(messages) : Answers(m, "executions")
      BY <2>1
    <3>2. Reports(m, id) /\ m \in Waits(inbox')
      BY <1>3, <3>1 DEF Reports
    <3> QED BY <3>2
  <2>2. CASE ~(\E m \in Waits(messages) : Answers(m, "executions"))
    <3>1. Counted
      BY <1>3, <2>2 DEF Counted
    <3>2. CASE id = filled' /\ filled' # filled
      BY <1>3, <3>2
    <3>3. CASE id \in 1..filled
      BY <1>2, <3>1, <3>3 DEF KInv, Known, Complete
    <3> QED BY <1>1, <3>2, <3>3
  <2> QED BY <2>1, <2>2
<1>8. RowTrue' /\ Verified' /\ AtFinish'
  BY <1>6 DEF KInv, Known, RowTrue, Verified, AtFinish
<1> QED BY <1>4, <1>5, <1>7, <1>8 DEF Known

\* Queues of one, two and three callbacks.
LEMMA WaitsFew == /\ \A a : Waits(<<a>>) = {a}
                  /\ \A a, b : Waits(<<a, b>>) = {a, b}
                  /\ \A a, b, c : Waits(<<a, b, c>>) = {a, b, c}
<1>1. ASSUME NEW a PROVE Waits(<<a>>) = {a}
  <2>1. DOMAIN <<a>> = {1} /\ <<a>>[1] = a
    OBVIOUS
  <2> QED BY <2>1 DEF Waits
<1>2. ASSUME NEW a, NEW b PROVE Waits(<<a, b>>) = {a, b}
  <2>1. DOMAIN <<a, b>> = {1, 2} /\ <<a, b>>[1] = a /\ <<a, b>>[2] = b
    OBVIOUS
  <2> QED BY <2>1 DEF Waits
<1>3. ASSUME NEW a, NEW b, NEW c PROVE Waits(<<a, b, c>>) = {a, b, c}
  <2>1. DOMAIN <<a, b, c>> = {1, 2, 3} /\ <<a, b, c>>[1] = a /\ <<a, b, c>>[2] = b /\ <<a, b, c>>[3] = c
    OBVIOUS
  <2> QED BY <2>1 DEF Waits
<1> QED BY <1>1, <1>2, <1>3

LEMMA BrokerKnown == KInv /\ IInv' /\ Broker => Known'
<1> SUFFICES ASSUME KInv, IInv', Broker PROVE Known'
  OBVIOUS
<1> USE DEF QuietBroker
<1>0. /\ market \in {"none", "wire", "lost", "live", "filled", "cancelled", "rejected"}
      /\ filled \in 0..Qty /\ filled' \in 0..Qty /\ Qty \in Nat
      /\ positions.cached \in 0..Qty
  BY EntryAssumption DEF KInv, IInv, TypeOK, EntryAssumption
\* One callback that is no report of an execution, and no end unless the order just ended.
<1>1. ASSUME NEW m \in Messages, inbox' = OnLink(<<m>>),
             UNCHANGED <<durable, engine, link, filled>>, Timely(m)',
             market \in {"live"} \cup Over => market' \in {"live"} \cup Over,
             market' # "live" => ~Works(m), market = "live" /\ market' # "live" => Ends(m),
             Answers(m, "executions") => m.ids = 1..filled'
      PROVE  Known'
  <2>1. Waits(<<m>>) = {m} /\ <<m>> \in Seq(Messages)
    BY WaitsFew
  <2> QED BY <1>1, <2>1, TellsKnown
\* A status, a position and an execution callback.
<1>2. ASSUME NEW status \in {"Submitted", "Filled", "Cancelled"}, market' \in {"live"} \cup Over
      PROVE  \E m \in Messages :
               /\ m = Status(status) /\ Timely(m)' /\ ~Answers(m, "executions")
               /\ Works(m) <=> status = "Submitted"
               /\ Ends(m) <=> status \in TERMINAL
  <2>1. PICK n \in 0..Qty : n = filled'
    BY <1>0
  <2>2. [kind |-> "status", status |-> status, filled |-> n] \in Messages
    BY DEF Messages
  <2>3. PICK m \in Messages : m = [kind |-> "status", status |-> status, filled |-> n]
    BY <2>2
  <2>4. m.kind = "status" /\ m.status = status
    BY <2>3
  <2>5. Timely(m)'
    BY <1>2, <2>4 DEF Timely, Reports, Answers
  <2>6. m = Status(status)
    BY <2>1, <2>3 DEF Status
  <2> QED BY <2>4, <2>5, <2>6 DEF Works, Shows, Ends, Answers
<1>3. ASSUME NEW q \in 0..Qty
      PROVE  \E m \in Messages : /\ m = Position(q) /\ Timely(m)' /\ ~Works(m)
                                 /\ ~Answers(m, "executions")
  <2>1. Position(q) \in Messages
    BY DEF Position, Messages
  <2>2. PICK m \in Messages : m = Position(q)
    BY <2>1
  <2>3. m.kind = "position"
    BY <2>2 DEF Position
  <2>4. Timely(m)' /\ ~Works(m) /\ ~Answers(m, "executions")
    BY <2>3 DEF Timely, Reports, Answers, Shows, Works, ReportsOrder
  <2> QED BY <2>2, <2>4
<1>4. ASSUME NEW id \in 1..Qty, id = filled'
      PROVE  \E m \in Messages : /\ m = Execution(id) /\ Timely(m)' /\ ~Works(m)
                                 /\ Reports(m, id) /\ ~Answers(m, "executions")
  <2>1. Execution(id) \in Messages
    BY DEF Execution, Messages
  <2>2. PICK m \in Messages : m = Execution(id)
    BY <2>1
  <2>3. m.kind = "exec" /\ m.id = id
    BY <2>2 DEF Execution
  <2>4. Timely(m)' /\ ~Works(m) /\ Reports(m, id) /\ ~Answers(m, "executions")
    BY <1>0, <1>4, <2>3 DEF Timely, Reports, Answers, Shows, Works, ReportsOrder
  <2> QED BY <2>2, <2>4
<1>5. CASE BrokerAccepts
  <2>1. /\ market' = "live" /\ inbox' = OnLink(<<Status("Submitted")>>)
        /\ UNCHANGED <<durable, engine, link, filled>>
    BY <1>5 DEF BrokerAccepts, Emit
  <2>2. PICK m \in Messages : m = Status("Submitted") /\ Timely(m)' /\ ~Answers(m, "executions")
    BY <1>2, <2>1
  <2> QED BY <1>1, <2>1, <2>2
<1>6. CASE BrokerRejects
  <2>1. PICK m \in Messages : m = [kind |-> "reject"]
    BY DEF Messages
  <2>2. /\ market = "wire" /\ market' = "rejected" /\ inbox' = OnLink(<<m>>)
        /\ UNCHANGED <<durable, engine, link, filled>>
    BY <1>6, <2>1 DEF BrokerRejects, Emit
  <2>3. m.kind = "reject"
    BY <2>1
  <2>4. Timely(m)' /\ ~Works(m) /\ ~Answers(m, "executions")
    BY <2>3 DEF Timely, Reports, Answers, Shows, Works, ReportsOrder
  <2> QED BY <1>1, <2>2, <2>4 DEF Over
<1>7. CASE BrokerFills
  <2>1. PICK word \in {"Submitted", "Filled", "Cancelled"} :
          word = IF filled' = Qty THEN "Filled" ELSE "Submitted"
    OBVIOUS
  <2>2. /\ market = "live" /\ filled' = filled + 1
        /\ market' = (IF filled' = Qty THEN "filled" ELSE "live")
        /\ UNCHANGED <<durable, engine, link>>
    BY <1>7 DEF BrokerFills
  <2>3. PICK n \in 1..Qty : n = filled'
    BY <1>0, <2>2
  <2>4. PICK s \in Messages : /\ s = Status(word) /\ Timely(s)' /\ ~Answers(s, "executions")
                              /\ Works(s) <=> word = "Submitted"
                              /\ Ends(s) <=> word \in TERMINAL
    BY <1>2, <2>2 DEF Over
  <2>5. PICK e \in Messages : /\ e = Execution(n) /\ Timely(e)' /\ ~Works(e) /\ Reports(e, n)
                              /\ ~Answers(e, "executions")
    BY <1>4, <2>3
  <2>6. n \in 0..Qty
    OBVIOUS
  <2>7. PICK p \in Messages : /\ p = Position(n) /\ Timely(p)' /\ ~Works(p)
                              /\ ~Answers(p, "executions")
    BY <1>3, <2>6
  <2>8. PICK messages \in {<<s, e>>, <<e, s>>, <<p, e, s>>} : inbox' = OnLink(messages)
    <3>1. \/ inbox' = OnLink(<<Status(word), Execution(n)>>)
          \/ inbox' = OnLink(<<Execution(n), Status(word)>>)
          \/ inbox' = OnLink(<<Position(n), Execution(n), Status(word)>>)
      BY <1>7, <2>1, <2>3 DEF BrokerFills, Emit
    <3> QED BY <2>4, <2>5, <2>7, <3>1
  <2>9. messages \in Seq(Messages) /\ Waits(messages) \in {{s, e}, {s, e, p}}
    <3>1. <<s, e>> \in Seq(Messages) /\ <<e, s>> \in Seq(Messages) /\ <<p, e, s>> \in Seq(Messages)
      OBVIOUS
    <3>2. Waits(<<s, e>>) = {s, e} /\ Waits(<<e, s>>) = {s, e} /\ Waits(<<p, e, s>>) = {s, e, p}
      BY WaitsFew
    <3> QED BY <2>8, <3>1, <3>2
  <2>10. market' # "live" => ~Works(s) /\ Ends(s)
    BY <2>1, <2>2, <2>4 DEF TERMINAL
  <2>11. market' \in {"live"} \cup Over /\ filled' \in {filled, filled + 1}
    BY <2>2 DEF Over
  <2> QED BY <2>2, <2>3, <2>4, <2>5, <2>7, <2>8, <2>9, <2>10, <2>11, TellsKnown
<1>8. CASE BrokerCancels
  <2>1. /\ market = "live" /\ market' = "cancelled" /\ inbox' = OnLink(<<Status("Cancelled")>>)
        /\ UNCHANGED <<durable, engine, link, filled>>
    BY <1>8 DEF BrokerCancels, Emit
  <2>2. PICK m \in Messages : /\ m = Status("Cancelled") /\ Timely(m)' /\ ~Answers(m, "executions")
                              /\ ~Works(m) /\ Ends(m)
    BY <1>2, <2>1 DEF Over, TERMINAL
  <2> QED BY <1>1, <2>1, <2>2 DEF Over
<1>9. CASE CancelArrives
  <2>1. UNCHANGED <<durable, engine, link, market, filled>>
    BY <1>9 DEF CancelArrives
  <2>2. CASE inbox' = inbox
    BY <2>1, <2>2, QuietKnown DEF durable, engine, KInv, Known, Verified
  <2>3. CASE inbox' = OnLink(<<[kind |-> "error"]>>)
    <3>1. PICK m \in Messages : m = [kind |-> "error"]
      BY DEF Messages
    <3>2. m.kind = "error"
      BY <3>1
    <3>3. Timely(m)' /\ ~Works(m) /\ ~Answers(m, "executions")
      BY <3>2 DEF Timely, Reports, Answers, Shows, Works, ReportsOrder
    <3> QED BY <1>1, <2>1, <2>3, <3>1, <3>3
  <2> QED BY <1>9, <2>2, <2>3 DEF CancelArrives, Emit
<1>10. CASE BrokerUpdatesPosition
  <2>1. /\ inbox' = OnLink(<<Position(filled)>>)
        /\ UNCHANGED <<durable, engine, link, market, filled>>
    BY <1>10 DEF BrokerUpdatesPosition, Emit
  <2>2. PICK q \in 0..Qty : q = filled
    BY <1>0
  <2>3. PICK m \in Messages : /\ m = Position(q) /\ Timely(m)' /\ ~Works(m)
                              /\ ~Answers(m, "executions")
    BY <1>3
  <2> QED BY <1>1, <2>1, <2>2, <2>3
<1>11. ASSUME NEW m, Answer(m), UNCHANGED <<durable, engine, link>>
       PROVE  inbox' = OnLink(<<m>>) /\ UNCHANGED <<durable, engine, link, market, filled>>
  BY <1>11 DEF Answer, Emit, broker
<1>12. CASE BrokerAnswersPositions
  <2>1. PICK m \in Messages : m = [kind |-> "answer", part |-> "positions", quantity |-> filled]
    <3>1. [kind |-> "answer", part |-> "positions", quantity |-> filled] \in Messages
      BY <1>0 DEF Messages
    <3> QED BY <3>1
  <2>2. inbox' = OnLink(<<m>>) /\ UNCHANGED <<durable, engine, link, market, filled>>
    BY <1>11, <1>12, <2>1 DEF BrokerAnswersPositions
  <2>3. m.kind = "answer" /\ m.part = "positions"
    BY <2>1
  <2>4. Timely(m)' /\ ~Works(m) /\ ~Answers(m, "executions")
    BY <2>3 DEF Timely, Reports, Answers, Shows, Works, ReportsOrder
  <2> QED BY <1>1, <2>2, <2>4
<1>13. CASE BrokerAnswersOpenOrders
  <2>1. PICK m \in Messages :
          m = [kind |-> "answer", part |-> "orders", filled |-> NoValue,
               status |-> IF market = "live" THEN "Submitted" ELSE "none"]
    <3>1. [kind |-> "answer", part |-> "orders", filled |-> NoValue,
           status |-> IF market = "live" THEN "Submitted" ELSE "none"] \in Messages
      BY DEF Messages
    <3> QED BY <3>1
  <2>2. inbox' = OnLink(<<m>>) /\ UNCHANGED <<durable, engine, link, market, filled>>
    BY <1>11, <1>13, <2>1 DEF BrokerAnswersOpenOrders
  <2>3. /\ m.kind = "answer" /\ m.part = "orders"
        /\ m.status # "none" => market = "live"
    BY <2>1
  <2>4. Timely(m)' /\ ~Answers(m, "executions") /\ (market # "live" => ~Works(m))
    BY <2>2, <2>3 DEF Timely, Reports, Answers, Shows, Works, ReportsOrder
  <2> QED BY <1>1, <2>2, <2>4
<1>14. CASE BrokerAnswersCompletedOrders
  <2> DEFINE row(today) == [kind |-> "answer", part |-> "completed", filled |-> filled,
               status |-> IF today /\ market = "filled" THEN "Filled"
                          ELSE IF today /\ market = "cancelled" THEN "Cancelled"
                          ELSE "none"]
  <2>1. PICK today \in BOOLEAN : Answer(row(today))
    BY <1>14 DEF BrokerAnswersCompletedOrders
  <2>2. PICK m \in Messages : m = row(today)
    <3>1. row(today) \in Messages
      BY <1>0 DEF Messages
    <3> QED BY <3>1
  <2>3. /\ m.kind = "answer" /\ m.part = "completed" /\ m.status # "Submitted"
        /\ m.status # "none" => market \in Over
    BY <2>2 DEF Over
  <2> HIDE DEF row
  <2>4. inbox' = OnLink(<<m>>) /\ UNCHANGED <<durable, engine, link, market, filled>>
    BY <1>11, <1>14, <2>1, <2>2 DEF BrokerAnswersCompletedOrders
  <2>5. Timely(m)' /\ ~Answers(m, "executions") /\ ~Works(m)
    BY <2>3, <2>4 DEF Timely, Reports, Answers, Shows, Works, ReportsOrder
  <2> QED BY <1>1, <2>4, <2>5
<1>15. CASE BrokerAnswersExecutions
  <2>1. 1..filled \subseteq 1..Qty
    BY <1>0
  <2>2. PICK m \in Messages : m = [kind |-> "answer", part |-> "executions", ids |-> 1..filled]
    <3>1. [kind |-> "answer", part |-> "executions", ids |-> 1..filled] \in Messages
      BY <2>1 DEF Messages
    <3> QED BY <3>1
  <2>3. inbox' = OnLink(<<m>>) /\ UNCHANGED <<durable, engine, link, market, filled>>
    BY <1>11, <1>15, <2>2 DEF BrokerAnswersExecutions
  <2>4. m.kind = "answer" /\ m.part = "executions" /\ m.ids = 1..filled
    BY <2>2
  <2>5. Timely(m)' /\ ~Works(m)
    BY <1>0, <2>3, <2>4 DEF Timely, Reports, Answers, Shows, Works, ReportsOrder
  <2> QED BY <1>1, <2>3, <2>4, <2>5
<1> QED BY <1>5, <1>6, <1>7, <1>8, <1>9, <1>10, <1>12, <1>13, <1>14, <1>15 DEF Broker

LEMMA ReconcileKnown == KInv /\ Reconcile => Known'
<1> SUFFICES ASSUME KInv, Reconcile PROVE Known'
  OBVIOUS
<1> USE DEF durable, adapter, broker
<1>0. ~Unsettled(verified).reconciled /\ TypeOK
  BY DEF KInv, IInv, TypeOK, Unsettled
<1>1. CASE BeginReconcile
  <2>1. /\ snapshot' = Begun /\ inbox' = inbox \o CachedPosition /\ pc = "idle"
        /\ verified' \in {verified, Unsettled(verified)}
        /\ UNCHANGED <<durable, pc, connected, link, market, filled>>
    BY <1>1 DEF BeginReconcile
  <2>2. inbox \in Seq(Messages)
    <3>1. Honest \subseteq Messages
      BY DEF Honest
    <3> QED BY <3>1, SeqMonotonic DEF KInv, IInv
  <2>3. CachedPosition \in Seq(Messages)
        /\ \A m \in Waits(CachedPosition) :
             /\ Timely(m) /\ ~Works(m) /\ ~Answers(m, "executions")
    <3>1. PICK m \in Messages :
            m = [kind |-> "answer", part |-> "positions", quantity |-> positions.cached]
      <4>1. [kind |-> "answer", part |-> "positions", quantity |-> positions.cached] \in Messages
        BY <1>0 DEF Messages, TypeOK
      <4> QED BY <4>1
    <3>2. Timely(m) /\ ~Works(m) /\ ~Answers(m, "executions")
      BY <3>1 DEF Timely, Reports, Answers, Shows, Works, ReportsOrder
    <3>3. <<m>> \in Seq(Messages) /\ <<>> \in Seq(Messages)
      BY EmptySeq
    <3>4. Waits(<<m>>) = {m} /\ Waits(<<>>) = {}
      BY WaitsOf, WaitsFew
    <3>5. CachedPosition \in {<<m>>, <<>>}
      BY <3>1 DEF CachedPosition
    <3> QED BY <3>2, <3>3, <3>4, <3>5
  <2>4. Waits(inbox') = Waits(inbox) \cup Waits(CachedPosition)
    BY <2>1, <2>2, <2>3, WaitsOf
  <2>5. AllTimely'
    <3>1. \A m : Timely(m)' <=> Timely(m)
      BY <2>1 DEF Timely
    <3> QED BY <2>1, <2>3, <2>4, <3>1 DEF KInv, Known, AllTimely
  <2>6. Told'
    BY <2>1, <2>2, <2>3, FollowedAppend DEF KInv, Known, Told
  <2>7. ~Begun.row.seen /\ Begun.parts = {}
    BY NothingStaged DEF Begun, NoSnapshot
  <2>8. Complete'
    <3>1. Counted' => Counted
      BY <1>0, <2>1, <2>3, <2>4, <2>7 DEF Counted
    <3> QED BY <2>1, <2>4, <3>1 DEF KInv, Known, Complete
  <2>9. RowTrue' /\ Verified' /\ AtFinish'
    <3>1. EndComes => EndComes'
      BY <2>1, <2>4 DEF EndComes
    <3> QED BY <1>0, <2>1, <2>7, <3>1 DEF KInv, Known, RowTrue, Verified, AtFinish
  <2> QED BY <2>5, <2>6, <2>8, <2>9 DEF Known
<1>2. CASE FinishSuperseded
  <2>1. ~NoSnapshot.row.seen /\ NoSnapshot.parts = {}
    BY NothingStaged DEF NoSnapshot
  <2> QED BY <1>0, <1>2, <2>1, QuietKnown DEF FinishSuperseded
<1>3. CASE Finish
  <2> DEFINE row == IF Missing THEN AbsentRow ELSE outbox
  <2>1. /\ pc = "finish" /\ snapshot' = NoSnapshot /\ outbox' = row /\ pc' # "finish"
        /\ UNCHANGED <<doc, execs, connected, inbox, link, market, filled>>
    BY <1>3 DEF Finish
  <2>2. PICK protected \in BOOLEAN : verified' = [reconciled |-> ~Issues(row, protected),
            agreement |-> Owned = snapshot.position, position |-> snapshot.position]
    BY <1>3 DEF Finish
  <2>3. verified'.reconciled => row \notin {"unknown", "dispatching", "cancel_pending"} /\ ~Missing
    BY <2>2 DEF Issues, IdentityIssue
  <2>4. ~NoSnapshot.row.seen /\ NoSnapshot.parts = {}
    BY NothingStaged DEF NoSnapshot
  <2>5. connected /\ snapshot.parts = Parts
    BY <2>1 DEF KInv, Known, AtFinish
  <2>6. Counted
    BY <2>5 DEF Counted, Parts
  <2>7. AllTimely' /\ Told' /\ (EndComes' <=> EndComes)
    BY <2>1 DEF KInv, Known, AllTimely, Timely, Told, EndComes
  <2>8. Complete'
    BY <2>1, <2>6 DEF KInv, Known, Complete
  <2>9. verified'.reconciled /\ outbox' = "working"
           => doc.status \in WORKING /\ (link => EndComes)
    <3> SUFFICES ASSUME verified'.reconciled, outbox' = "working"
                 PROVE  doc.status \in WORKING /\ (link => EndComes)
      OBVIOUS
    <3>1. outbox = "working" /\ snapshot.row.seen
      BY <2>1, <2>3 DEF Missing
    <3>2. doc.status \in WORKING /\ (link /\ doc.status \notin TERMINAL => EndComes)
      BY <3>1 DEF KInv, Known, RowTrue
    <3> QED BY <3>2 DEF WORKING, TERMINAL
  <2>10. Verified'
    BY <2>1, <2>3, <2>5, <2>7, <2>9 DEF Verified
  <2>11. RowTrue' /\ AtFinish'
    BY <2>1, <2>4 DEF RowTrue, AtFinish
  <2> QED BY <2>7, <2>8, <2>10, <2>11 DEF Known
<1> QED BY <1>1, <1>2, <1>3 DEF Reconcile

LEMMA FailureKnown == KInv /\ (Connect \/ Drop \/ ConnectionLost \/ Crash \/ CrashInObservation) => Known'
<1> SUFFICES ASSUME KInv, Connect \/ Drop \/ ConnectionLost \/ Crash \/ CrashInObservation
             PROVE  Known'
  OBVIOUS
<1> USE DEF durable, engine, adapter, broker
<1>0. /\ ~Unsettled(verified).reconciled /\ ~NoSnapshot.row.seen /\ NoSnapshot.parts = {}
      /\ ~Begun.row.seen /\ Begun.parts = {} /\ Waits(<<>>) = {}
  BY NothingStaged, WaitsOf DEF KInv, IInv, TypeOK, Unsettled, NoSnapshot, Begun
<1>1. CASE Connect
  <2>1. /\ inbox' = <<>> /\ snapshot' = Begun /\ pc' = "idle" /\ ~verified'.reconciled
        /\ UNCHANGED <<execs, filled>>
    BY <1>1 DEF Connect, KInv, Known, Verified
  <2>2. Followed(<<>>)
    BY DEF Followed
  <2>3. AllTimely' /\ Told' /\ Complete'
    BY <1>0, <2>1, <2>2 DEF KInv, Known, AllTimely, Told, Complete, Counted
  <2> QED BY <1>0, <2>1, <2>3 DEF Known, RowTrue, Verified, AtFinish
<1>2. CASE Drop
  <2>1. /\ (market' = market) \/ (market = "wire" /\ market' = "lost")
        /\ link' = FALSE
        /\ UNCHANGED <<durable, engine, inbox, filled>>
    BY <1>2 DEF Drop
  <2>2. ~link'
    BY <2>1, Zenon
  <2>3. AllTimely'
    BY <2>1 DEF KInv, Known, AllTimely, Timely, Over
  <2> QED BY <2>1, <2>2, <2>3 DEF KInv, Known, Told, Complete, RowTrue, Verified, AtFinish
<1>3. CASE ConnectionLost
  <2>1. /\ verified' = Unsettled(verified) /\ snapshot' = NoSnapshot /\ pc' = "idle"
        /\ ~link /\ UNCHANGED <<link, market, filled, inbox, execs>>
    BY <1>3 DEF ConnectionLost
  <2> QED BY <1>0, <2>1 DEF KInv, Known, AllTimely, Timely, Told, Complete, RowTrue, Verified, AtFinish
<1>4. CASE Crash \/ CrashInObservation
  <2>1. /\ inbox' = <<>> /\ link' = FALSE /\ snapshot' = NoSnapshot /\ pc' = "idle"
        /\ verified' = [reconciled |-> FALSE, agreement |-> FALSE, position |-> 0]
        /\ UNCHANGED <<execs, filled>>
    BY <1>4 DEF Crash, CrashInObservation, Restart
  <2>2. ~link' /\ ~verified'.reconciled
    BY <2>1, Zenon
  <2> QED BY <1>0, <2>1, <2>2
         DEF KInv, Known, AllTimely, Told, Complete, RowTrue, Verified, AtFinish
<1> QED BY <1>1, <1>2, <1>3, <1>4

THEOREM KnownInductive == KInv /\ [Next]_vars => KInv'
<1> SUFFICES ASSUME KInv, [Next]_vars PROVE KInv'
  OBVIOUS
<1>1. IInv' /\ LatchInv'
  BY StepKeeps, LatchInductive DEF KInv
<1>2. Known'
  <2>1. CASE UNCHANGED vars
    BY <2>1, QuietKnown DEF vars, durable, engine, adapter, broker, KInv, Known, Verified
  <2> QED BY <1>1, <2>1, EngineKnown, ObserveKnown, ReconcileKnown, FailureKnown, BrokerKnown DEF Next
<1> QED BY <1>1, <1>2 DEF KInv

(* When the account is reconciled and no callback waits, the ledger holds   *)
(* exactly the broker's fills, and the row works if and only if the order   *)
(* does: for every quantity, any number of connections, crashes and waiting *)
(* callbacks, and every order of the callbacks of a fill.                   *)
THEOREM ReconciledMeansTrue == Spec => []ReconciledIsTrue
<1>1. Init => KInv
  <2> SUFFICES ASSUME Init PROVE KInv
    OBVIOUS
  <2>1. IInv
    BY InitHolds
  <2>2. LatchInv
    BY DEF Init, LatchInv, NoRequest, CancelLatched, Unlatched
  <2>3. Known
    BY WaitsOf, NothingStaged DEF Init, Known, AllTimely, Told, Complete, RowTrue, Verified, AtFinish
  <2> QED BY <2>1, <2>2, <2>3 DEF KInv
<1>2. KInv => ReconciledIsTrue
  <2> SUFFICES ASSUME KInv, verified.reconciled, link, inbox = <<>>
               PROVE  /\ execs = 1..filled /\ (outbox = "working" <=> market = "live")
                      /\ market # "wire"
    BY DEF ReconciledIsTrue
  <2>1. Waits(inbox) = {}
    BY WaitsOf
  <2>2. execs = 1..filled
    BY <2>1 DEF KInv, Known, AllTimely, Complete, Counted
  <2>3. outbox = "working" => market = "live"
    BY <2>1 DEF KInv, Known, Verified, EndComes
  <2>4. Exposed => outbox = "working"
    BY DEF Exposed, KInv, IInv, TypeOK, Rows, ProjectedStates, Facts, Unsent, RowOver, DocOver,
           Known, Verified, Finished, Over
  <2> QED BY <2>2, <2>3, <2>4 DEF Exposed
<1> QED BY <1>1, <1>2, KnownInductive, PTL DEF Spec
=============================================================================
