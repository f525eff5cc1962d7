---------------------------- MODULE OrderStatus ----------------------------
(***************************************************************************)
(* workspace/order_status.py: how one asynchronous broker observation is   *)
(* folded into the durable broker_order document of an order.  The module  *)
(* is pure: OrderStatusReducer runs it as a state machine, OrderLedger     *)
(* uses it inside the whole order life cycle.                              *)
(*                                                                         *)
(* A document or an observation is a record                                *)
(*    status    one of the broker's status words, "absent" before the      *)
(*              first observation, "other" for a word the table does not   *)
(*              know;                                                      *)
(*    filled    the reported filled quantity, NoValue when not reported    *)
(*              (remaining and average always travel with it);             *)
(*    code      rejection_code, 0 when there is none;                      *)
(*    permanent the broker's permanent id, 0 when unknown;                 *)
(* an observation also says whether it is completed-order evidence, and a  *)
(* document whether its status is in conflict.                             *)
(***************************************************************************)
EXTENDS Integers

NoValue == -1

PENDING  == {"ApiPending", "PendingSubmit"}
WORKING  == {"PreSubmitted", "Submitted"}
TERMINAL == {"Cancelled", "ApiCancelled", "Filled", "Rejected"}

\* The keys of STATES, and the words no entry of STATES knows.
KnownStatuses == PENDING \cup WORKING \cup TERMINAL \cup {"PendingCancel", "Inactive"}
Statuses == KnownStatuses \cup {"other"}

\* The states of an outbox row that the table can name.
ProjectedStates ==
  {"dispatching", "working", "cancel_pending", "cancelled", "filled", "unknown", "rejected"}

\* Mutant of STATES: a word outside the table is stored as it came.
STATES_Raw(status) ==
  IF status = "Inactive" THEN "unknown"
  ELSE IF status = "other" THEN status ELSE "working"

\* STATES.get(status, "unknown")
STATES(status) ==
  CASE status \in PENDING                       -> "dispatching"
    [] status \in WORKING                       -> "working"
    [] status = "PendingCancel"                 -> "cancel_pending"
    [] status \in {"Cancelled", "ApiCancelled"} -> "cancelled"
    [] status = "Filled"                        -> "filled"
    [] status = "Rejected"                      -> "rejected"
    [] OTHER                                    -> "unknown"

EmptyDoc == [status |-> "absent", filled |-> NoValue, code |-> 0,
             permanent |-> 0, conflict |-> FALSE]

-----------------------------------------------------------------------------
(* project_status: the first matching rule decides.                        *)

LateTerminal(old, obs) ==
  /\ old.status = "Rejected" /\ old.code = 10318
  /\ obs.status \in {"Cancelled", "ApiCancelled"}

LateRejection(old, obs) ==
  /\ old.status \in {"Cancelled", "ApiCancelled"}
  /\ obs.status = "Rejected" /\ old.code \in {201, 10318}

\* Mutant of LatePending: a late pending callback is only dropped on a working order.
LatePending_WorkingOnly(old, obs) ==
  \/ obs.status \in PENDING /\ old.status \in WORKING \cup {"PendingCancel"}
  \/ old.status = "Submitted" /\ obs.status = "PreSubmitted"

LatePending(old, obs) ==
  \/ obs.status \in PENDING /\ old.status \in WORKING \cup TERMINAL \cup {"PendingCancel"}
  \/ obs.status = "PendingCancel" /\ old.status \in TERMINAL
  \/ old.status = "Submitted" /\ obs.status = "PreSubmitted"

Reopens(old, obs) == old.status \in TERMINAL /\ obs.status \in WORKING

AfterFill(old, obs) == old.status = "Filled" /\ obs.status \in TERMINAL \ {"Filled"}

Unexplained(old, obs) ==
  old.status \in TERMINAL /\ obs.status \notin KnownStatuses \ {"Inactive"}

Disposition(old, obs) ==
  CASE LateTerminal(old, obs)  -> "late_terminal"
    [] LateRejection(old, obs) -> "late_rejection"
    [] LatePending(old, obs)   -> "late_pending"
    [] Reopens(old, obs)       -> "conflict"
    [] AfterFill(old, obs)     -> "late_terminal"
    [] Unexplained(old, obs)   -> "conflict"
    [] OTHER                   -> "applied"

\* Mutants of project_status: any terminal callback settles a conflict, ...
project_status_SettledByAny(old, obs) ==
  LET applied == Disposition(old, obs) = "applied"
  IN  [old EXCEPT !.status = IF applied THEN obs.status ELSE @,
                  !.conflict = IF applied /\ obs.status \in TERMINAL THEN FALSE
                               ELSE @ \/ Disposition(old, obs) = "conflict"]

\* ... a callback without a rejection code clears the recorded one, ...
project_status_CodeCleared(old, obs) ==
  [old EXCEPT !.status = IF Disposition(old, obs) = "applied" THEN obs.status ELSE @,
              !.code = obs.code]

\* ... a reported quantity is added to what was reported before.
project_status_FilledAdds(old, obs) ==
  [old EXCEPT !.status = IF Disposition(old, obs) = "applied" THEN obs.status ELSE @,
              !.filled = IF obs.filled > 0 /\ @ < 2 THEN @ + obs.filled ELSE @]

(* The document that results.  A field the observation does not carry keeps *)
(* its old value; an observation that is not applied changes neither the    *)
(* status nor the reported quantities.                                      *)
project_status(old, obs) ==
  LET d == Disposition(old, obs)
  IN  [status    |-> IF d = "applied" THEN obs.status ELSE old.status,
       filled    |-> IF d = "applied" /\ obs.filled # NoValue THEN obs.filled ELSE old.filled,
       code      |-> IF obs.code # 0 THEN obs.code ELSE old.code,
       permanent |-> IF obs.permanent # 0 THEN obs.permanent ELSE old.permanent,
       conflict  |-> CASE d = "conflict" -> TRUE
                       [] d = "applied" /\ obs.completed /\ obs.status \in TERMINAL -> FALSE
                       [] OTHER -> old.conflict]

-----------------------------------------------------------------------------
(* oms.py, OrderLedger._order_observation: what the observation does to the *)
(* outbox row, the failure record and the reconciliation of a base leg.     *)

RejectionCodes == {201, 10318}
CancelLatched == {"queued", "pending"}

NoFailure == [kind |-> "none", code |-> 0, progress |-> FALSE]

\* observe() rewrites Inactive once the broker has explained a rejection.
Normalised(doc, obs) ==
  IF obs.status = "Inactive" /\ doc.code \in RejectionCodes
    THEN [obs EXCEPT !.status = "Rejected"] ELSE obs

\* Mutant of IdentityChanged: a new permanent id is taken over.
IdentityChanged_Never(doc, obs) == FALSE

IdentityChanged(doc, obs) ==
  doc.permanent # 0 /\ obs.permanent # 0 /\ doc.permanent # obs.permanent

\* Mutant of ObservedState: only the row latches a cancellation, not the stored request.
ObservedState_RowOnly(state, request, status) ==
  IF state = "filled" THEN "filled"
  ELSE IF STATES(status) \in {"working", "dispatching"} /\ state = "cancel_pending"
         THEN "cancel_pending" ELSE STATES(status)

(* The cancellation intent stays latched under a working status, and a fill *)
(* is never taken back.                                                     *)
ObservedState(state, request, status) ==
  IF state = "filled" THEN "filled"
  ELSE IF /\ STATES(status) \in {"working", "dispatching"}
          /\ state = "cancel_pending" \/ request \in CancelLatched
         THEN "cancel_pending" ELSE STATES(status)

Failed(state, doc, obs) ==
  /\ state = "filled" => doc.status = "Filled"
  /\ state \in {"rejected", "unknown"} \/ obs.code \in RejectionCodes

(* _order_failure: the same failure with no progress since is no news. *)
NextFailure(failure, state, doc) ==
  LET kind == IF doc.code \in RejectionCodes THEN "rejected" ELSE state
      new  == [kind |-> kind, code |-> doc.code, progress |-> FALSE]
  IN  IF failure = new THEN failure ELSE new

\* _order_failure_progress: the order was seen working after its failure.
Progressed(failure) ==
  IF failure.kind = "none" THEN failure ELSE [failure EXCEPT !.progress = TRUE]

(* The whole reducer: the new document, row state and failure record;       *)
(* whether it changed what a reconciliation had verified; and whether it    *)
(* raises an incident, which invalidates reconciliation in any case.        *)
_order_observation(doc, state, request, failure, event) ==
  LET obs  == Normalised(doc, event)
      disp == Disposition(doc, obs)
      new  == project_status(doc, obs)
      next == ObservedState(state, request, new.status)
      seen == IF /\ new.status \in WORKING /\ ~new.conflict
                 /\ new.code = 0 /\ disp = "applied"
                THEN Progressed(failure) ELSE failure
      fail == IF Failed(next, new, obs) THEN NextFailure(seen, next, new) ELSE seen
  IN  IF IdentityChanged(doc, obs)
        THEN [doc |-> [doc EXCEPT !.conflict = TRUE], state |-> state,
              failure |-> failure, changed |-> TRUE, incident |-> TRUE]
        ELSE [doc |-> new, state |-> next, failure |-> fail,
              changed  |-> doc.status # new.status \/ doc.filled # new.filled,
              incident |-> disp = "conflict" \/ fail # seen]

(* _initial_quantity_rejection: a 10318 is believed only for an order that  *)
(* shows no sign of ever having been accepted.                              *)
_initial_quantity_rejection(doc, state, executed) ==
  /\ state \in {"dispatching", "unknown", "cancel_pending", "rejected"}
  /\ doc.permanent = 0
  /\ doc.status \notin WORKING \cup {"Filled"}
  /\ ~doc.conflict
  /\ ~executed
=============================================================================
