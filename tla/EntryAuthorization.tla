------------------------- MODULE EntryAuthorization -------------------------
(***************************************************************************)
(* Who may send an entry: the authorization of the runs, the emergency     *)
(* stop, the incident restrictions and the shared entry capacity, written  *)
(* by three actors.  The engine thread evaluates strategies and enters     *)
(* (engine.py), the HTTP thread presses the emergency stop in the store    *)
(* before it asks the engine (api.py), and the watchdog process stops and  *)
(* disarms everything by itself (watchdog.py).  Each store transaction is  *)
(* one step; the engine reads run documents, works on them and writes them *)
(* back whole, so that `read' may be older than the store.                 *)
(*                                                                         *)
(* What the broker does with an order is EntryOrder's subject; here the    *)
(* broker's part is Answered.                                              *)
(***************************************************************************)
EXTENDS Naturals, FiniteSets

CONSTANTS Runs,
          NoRun,        \* the engine works on no run
          Contracts,    \* the contract of a run is ContractOf[run]
          ContractOf,
          Capacity,     \* active reservations of the workspace, five in store.py
          MaxEntries,   \* settings.max_entries of the strategies
          MaxReviews,   \* bound: operator authorizations
          MaxAlarms,    \* bound: emergency stops, watchdog alarms and incidents
          MaxRestarts   \* bound: process restarts

ASSUME AuthorizationAssumption ==
  /\ NoRun \notin Runs
  /\ ContractOf \in [Runs -> Contracts] /\ Capacity \in Nat /\ MaxEntries \in Nat
  /\ MaxReviews \in Nat /\ MaxAlarms \in Nat /\ MaxRestarts \in Nat

VARIABLES
  emergency,    \* durable: the emergency flag
  run,          \* durable: the run documents [status, entries]
  holds,        \* durable: runs under an unreleased incident restriction
  order,        \* durable: the row of the latest entry of each run
  reserved,     \* durable: runs whose reservation is active
  intents,      \* durable: runs with an incident_cancel document
  created,      \* durable: runs with an entry row since their authorization
  batch,        \* engine: _batch_runs is set
  listed,       \* engine: the run documents of _batch_runs
  read,         \* engine: the run documents the thread works on
  place,        \* engine: [at, run], where the thread is
  ready,        \* engine: reconciled
  begun,        \* engine: a snapshot is under way that nothing has superseded
  asked,        \* HTTP: the emergency call waits for the engine
  alerted,      \* watchdog: it has raised its alarm
  stopped,      \* the engine has answered the emergency call
  doubted,      \* orders whose outcome was unknown when the engine answered that call
  reviewed,     \* runs authorized since their last revocation
  bounds        \* [reviews, alarms, restarts] so far

durable == <<emergency, run, holds, order, reserved, intents, created>>
engine  == <<batch, listed, read, place, ready, begun>>
others  == <<asked, alerted>>
history == <<stopped, doubted, reviewed>>
vars    == <<durable, engine, others, history, bounds>>

Statuses == {"authorized", "suspended", "revoked"}
Run      == [status : Statuses, entries : Nat]

\* "sent" is an order that is being dispatched or works, "found" one that works and was sent by an
\* earlier process or unknown before.  The row of an "unsent" order is unknown too, but it never
\* left.  "cancel_pending" stays when the row becomes unknown: the cancellation remains asked.
Orders  == {"none", "reserved", "sent", "unknown", "unsent", "found", "cancel_pending", "closed"}
Pending == Orders \ {"none", "closed"}
\* The broker may have it, and nobody has asked to cancel it.
Exposed(r) == order[r] \in {"sent", "unknown", "found"}

\* The places of the engine thread between two transactions.
Places == {"idle", "enter", "reserve", "guard", "mark", "submit", "count", "put", "publish"}

\* What the engine has read, when it has read nothing.
Nothing == [r \in Runs |-> [status |-> "revoked", entries |-> 0]]

At(p, r)   == place.at = p /\ place.run = r
Idle       == place.at = "idle"
GoTo(p, r) == place' = [at |-> p, run |-> r]
Rest       == GoTo("idle", NoRun) /\ read' = Nothing

Armed(r) == run[r].status = "authorized"

Init ==
  /\ emergency = FALSE /\ run = Nothing
  /\ holds = {} /\ order = [r \in Runs |-> "none"] /\ reserved = {} /\ intents = {}
  /\ batch = FALSE /\ listed = Nothing /\ read = Nothing
  /\ place = [at |-> "idle", run |-> NoRun]
  /\ asked = FALSE /\ alerted = FALSE
  /\ ready = FALSE /\ begun = FALSE /\ created = {}
  /\ stopped = FALSE /\ doubted = {} /\ reviewed = {}
  /\ bounds = [reviews |-> 0, alarms |-> 0, restarts |-> 0]

-----------------------------------------------------------------------------
(* Authorization and its revocation.                                       *)

Revoked(doc) == [doc EXCEPT !.status = "revoked"]
\* Mutant of Cancelled: what was found after it had been unknown is left alone.
Cancelled_NotFound(S) == [r \in Runs |-> IF r \in S /\ order[r] = "sent"
                                         THEN "cancel_pending" ELSE order[r]]
\* disarm cancels the entries that work or are being dispatched, and leaves the unknown ones.
Cancelled(S) == [r \in Runs |-> IF r \in S /\ order[r] \in {"sent", "found"}
                                THEN "cancel_pending" ELSE order[r]]

\* invalidate_reconciliation: what was seen so far is no evidence any more.
Invalidated == ready' = FALSE /\ begun' = FALSE
Cancels(S)  == /\ order' = Cancelled(S)
               /\ IF order' = order THEN UNCHANGED <<ready, begun>> ELSE Invalidated

\* Commands and maintenance run between two batches of observations.
Between == Idle /\ ~batch

\* arm, after the operator has reviewed the run and the restrictions on it; the entry
\* counter starts again unless the session is the same.
Arm(r) ==
  /\ Between /\ ready /\ ~emergency /\ ~Armed(r) /\ bounds.reviews < MaxReviews
  /\ \E kept \in {0, run[r].entries} :
       run' = [run EXCEPT ![r] = [status |-> "authorized", entries |-> kept]]
  /\ holds' = holds \ {r} /\ created' = created \ {r}
  /\ reviewed' = reviewed \cup {r}
  /\ bounds' = [bounds EXCEPT !.reviews = @ + 1]
  /\ UNCHANGED <<emergency, order, reserved, intents, engine, others, stopped, doubted>>

\* disarm by the operator, at expiry, or by a guard.
Disarmed(S) ==
  /\ run' = [r \in Runs |-> IF r \in S THEN Revoked(run[r]) ELSE run[r]]
  /\ reviewed' = reviewed \ S

Disarm(r) ==
  /\ Between /\ run[r].status # "revoked" /\ Disarmed({r}) /\ Cancels({r})
  /\ UNCHANGED <<emergency, holds, reserved, intents, created, batch, listed, read,
                 place, others, stopped, doubted, bounds>>

\* resume_authorizations reads the run again inside its transaction.
Resume(r) ==
  /\ Between /\ ready /\ ~emergency /\ run[r].status = "suspended"
  /\ r \notin holds /\ r \notin created
  /\ run' = [run EXCEPT ![r].status = "authorized"]
  /\ UNCHANGED <<emergency, holds, order, reserved, intents, created, engine, others,
                 history, bounds>>

\* Mutant of RaisedIn: only an armed run is contained.
RaisedIn_ArmedOnly(S, resumable) ==
  LET affected == {r \in S : run[r].status # "revoked"}
      suspended == IF resumable THEN affected ELSE {}
  IN  /\ holds' = holds \cup S
      /\ run' = [r \in Runs |-> IF r \in affected
                   THEN [run[r] EXCEPT !.status = IF r \in suspended THEN "suspended" ELSE "revoked"]
                   ELSE run[r]]
      /\ intents' = intents \cup {r \in affected : r \notin suspended \/ order[r] \in Pending}
      /\ reviewed' = reviewed \ (affected \ suspended)

\* raise_in: one transaction restricts, disarms and asks for cancellation.
RaisedIn(S, resumable) ==
  LET affected == {r \in S : run[r].status # "revoked" \/ order[r] \in Pending}
      suspended == IF resumable THEN affected ELSE {}
  IN  /\ holds' = holds \cup S
      /\ run' = [r \in Runs |-> IF r \in affected
                   THEN [run[r] EXCEPT !.status = IF r \in suspended THEN "suspended" ELSE "revoked"]
                   ELSE run[r]]
      /\ intents' = intents \cup {r \in affected : r \notin suspended \/ order[r] \in Pending}
      /\ reviewed' = reviewed \ (affected \ suspended)

\* An incident the engine thread meets, in a batch or between two.
Incident(S, resumable) ==
  /\ Idle /\ bounds.alarms < MaxAlarms /\ RaisedIn(S, resumable)
  /\ bounds' = [bounds EXCEPT !.alarms = @ + 1]
  /\ UNCHANGED <<emergency, order, reserved, created, engine, others, stopped, doubted>>

\* The evidence of recovery releases a restriction and authorizes nothing.
Release(r) ==
  /\ Between /\ r \in holds /\ holds' = holds \ {r}
  /\ UNCHANGED <<emergency, run, order, reserved, intents, created, engine, others,
                 history, bounds>>

\* _flush_incident_cancellations: a row that was never sent is retired.
FlushIncident(r) ==
  /\ Between /\ r \in intents /\ intents' = intents \ {r}
  /\ order' = [order EXCEPT ![r] = IF @ = "reserved" THEN "closed"
                                   ELSE IF @ \in Pending THEN "cancel_pending" ELSE @]
  /\ IF order[r] \in Pending \ {"reserved", "cancel_pending"} THEN Invalidated
     ELSE UNCHANGED <<ready, begun>>
  /\ reserved' = IF order[r] = "reserved" THEN reserved \ {r} ELSE reserved
  /\ UNCHANGED <<emergency, run, holds, created, batch, listed, read, place, others,
                 history, bounds>>

-----------------------------------------------------------------------------
(* The emergency stop.                                                     *)

\* set_emergency(True): the flag and every run in one transaction.
Stopped ==
  /\ emergency' = TRUE /\ Disarmed(Runs)

\* HTTP: the store first, then the engine's queue, which may be full.
PressEmergency ==
  /\ ~asked /\ bounds.alarms < MaxAlarms /\ Stopped
  /\ asked' \in BOOLEAN
  /\ bounds' = [bounds EXCEPT !.alarms = @ + 1]
  /\ UNCHANGED <<holds, order, reserved, intents, created, engine, alerted, stopped, doubted>>

\* engine.emergency(True): again the store, then every run is disarmed.
CommandEmergency ==
  /\ Between /\ asked /\ asked' = FALSE /\ Stopped /\ stopped' = TRUE
  /\ Cancels(Runs) /\ doubted' = {r \in Runs : order[r] = "unknown"}
  /\ UNCHANGED <<holds, reserved, intents, created, batch, listed, read, place, alerted,
                 bounds>>

\* call gives up after fifteen seconds and withdraws the command.
CallExpires ==
  /\ asked /\ asked' = FALSE
  /\ UNCHANGED <<durable, engine, alerted, history, bounds>>

ClearEmergency ==
  /\ Between /\ emergency /\ emergency' = FALSE /\ stopped' = FALSE /\ doubted' = {}
  /\ UNCHANGED <<run, holds, order, reserved, intents, created, engine, others, reviewed, bounds>>

\* Watchdog.tick without a heartbeat: flag and restriction in one transaction; an episode
\* that is still open is not raised again.
WatchdogAlarm ==
  /\ ~alerted /\ bounds.alarms < MaxAlarms /\ alerted' = TRUE
  /\ emergency' = TRUE
  /\ \/ RaisedIn(Runs, FALSE)
     \/ Runs \subseteq holds /\ UNCHANGED <<run, holds, intents, reviewed>>
  /\ bounds' = [bounds EXCEPT !.alarms = @ + 1]
  /\ UNCHANGED <<order, reserved, created, engine, asked, stopped, doubted>>

WatchdogRecovers ==
  /\ alerted /\ alerted' = FALSE
  /\ UNCHANGED <<durable, engine, asked, history, bounds>>

-----------------------------------------------------------------------------
(* A batch of observations and _enter.                                     *)

\* _loop lists the runs once for all the ticks of a batch.
BeginBatch ==
  /\ Between /\ batch' = TRUE /\ listed' = run
  /\ UNCHANGED <<durable, read, place, ready, begun, others, history, bounds>>

EndBatch ==
  /\ Idle /\ batch /\ batch' = FALSE /\ listed' = Nothing
  /\ UNCHANGED <<durable, read, place, ready, begun, others, history, bounds>>

\* _evaluate_context: the document of the batch, with last_signal, is written back.
Signal(r) ==
  /\ Idle /\ batch /\ listed[r].status = "authorized"
  /\ run' = [run EXCEPT ![r] = listed[r]]
  /\ read' = [read EXCEPT ![r] = listed[r]] /\ GoTo("enter", r)
  /\ UNCHANGED <<emergency, holds, order, reserved, intents, created, batch, listed,
                 ready, begun, others, history, bounds>>

\* A check of _enter or of a transaction raises; the same document is written back.
Refuse(r) ==
  /\ \/ At("enter", r) \/ At("reserve", r)
     \/ At("mark", r) /\ ~(Armed(r) /\ ~emergency)
  /\ run' = [run EXCEPT ![r] = read[r]] /\ Rest
  /\ UNCHANGED <<emergency, holds, order, reserved, intents, created, batch, listed,
                 ready, begun, others, history, bounds>>

Shares(r) == \E s \in reserved : ContractOf[s] = ContractOf[r]

\* The readiness of _enter: reconciliation, restrictions, emergency stop and the entry limit.
Check(r) ==
  /\ At("enter", r) /\ ready /\ r \notin holds /\ ~emergency /\ read[r].entries < MaxEntries
  /\ GoTo("reserve", r)
  /\ UNCHANGED <<durable, batch, listed, read, ready, begun, others, history, bounds>>

\* Mutant of Reserve: the capacity is counted after the reservation is written.
Reserve_OffByOne(r) ==
  /\ At("reserve", r)
  /\ ~emergency /\ Armed(r) /\ ~Shares(r) /\ Cardinality(reserved) <= Capacity
  /\ order' = [order EXCEPT ![r] = "reserved"] /\ reserved' = reserved \cup {r}
  /\ created' = created \cup {r} /\ GoTo("guard", r)
  /\ UNCHANGED <<emergency, run, holds, intents, batch, listed, read, ready, begun,
                 others, history, bounds>>

\* reserve_order in one transaction.
Reserve(r) ==
  /\ At("reserve", r)
  /\ ~emergency /\ Armed(r) /\ ~Shares(r) /\ Cardinality(reserved) < Capacity
  /\ order' = [order EXCEPT ![r] = "reserved"] /\ reserved' = reserved \cup {r}
  /\ created' = created \cup {r} /\ GoTo("guard", r)
  /\ UNCHANGED <<emergency, run, holds, intents, batch, listed, read, ready, begun,
                 others, history, bounds>>

\* guard_entry_dispatch looks at the store again before the order leaves.
GuardPasses(r) ==
  /\ At("guard", r) /\ ready /\ r \notin holds /\ Armed(r) /\ ~emergency /\ GoTo("mark", r)
  /\ UNCHANGED <<durable, batch, listed, read, ready, begun, others, history, bounds>>

\* Mutant of GuardBlocks: a state of its own for what was never sent.
GuardBlocks_Blocked(r) ==
  /\ At("guard", r) /\ Rest
  /\ order' = [order EXCEPT ![r] = "blocked"] /\ reserved' = reserved \ {r}
  /\ Disarmed({r})
  /\ UNCHANGED <<emergency, holds, intents, created, batch, listed, ready, begun,
                 others, stopped, doubted, bounds>>

\* ... and retires it otherwise; only a quiet market leaves the authorization alone.
GuardBlocks(r) ==
  /\ At("guard", r) /\ Rest
  /\ order' = [order EXCEPT ![r] = "closed"] /\ reserved' = reserved \ {r}
  /\ \/ Disarmed({r})
     \/ r \notin holds /\ Armed(r) /\ ~emergency /\ UNCHANGED <<run, reviewed>>
  /\ UNCHANGED <<emergency, holds, intents, created, batch, listed, ready, begun,
                 others, stopped, doubted, bounds>>

\* Mutant of MarkDispatch: the transaction trusts what the guard saw.
MarkDispatch_Unchecked(r) ==
  /\ At("mark", r) /\ order[r] = "reserved" /\ r \in reserved
  /\ order' = [order EXCEPT ![r] = "sent"]
  /\ GoTo("submit", r)
  /\ UNCHANGED <<emergency, run, holds, reserved, intents, created, batch, listed, read,
                 ready, begun, others, history, bounds>>

MarkDispatch(r) ==
  /\ At("mark", r) /\ ~emergency /\ Armed(r) /\ order[r] = "reserved" /\ r \in reserved
  /\ order' = [order EXCEPT ![r] = "sent"]
  /\ GoTo("submit", r)
  /\ UNCHANGED <<emergency, run, holds, reserved, intents, created, batch, listed, read,
                 ready, begun, others, history, bounds>>

Submit(r) ==
  /\ At("submit", r) /\ GoTo("count", r)
  /\ UNCHANGED <<durable, batch, listed, read, ready, begun, others, history, bounds>>

\* submit_bracket raises: the outcome is unknown, and dispatch_uncertain holds the run.
SubmitRaises(r) ==
  /\ At("submit", r) /\ GoTo("count", r)
  /\ order' = [order EXCEPT ![r] = "unknown"] /\ RaisedIn(Runs, FALSE)
  /\ UNCHANGED <<emergency, reserved, created, batch, listed, read, ready, begun,
                 others, stopped, doubted, bounds>>

\* The entry is counted on a document read after the submission, in two transactions.
ReadRun(r) ==
  /\ At("count", r) /\ read' = [read EXCEPT ![r] = run[r]] /\ GoTo("put", r)
  /\ UNCHANGED <<durable, batch, listed, ready, begun, others, history, bounds>>

PutRun(r) ==
  /\ At("put", r) /\ run' = [run EXCEPT ![r] = [read[r] EXCEPT !.entries = @ + 1]]
  /\ Invalidated /\ Rest
  /\ UNCHANGED <<emergency, holds, order, reserved, intents, created, batch, listed,
                 others, history, bounds>>

-----------------------------------------------------------------------------
(* Orders after dispatch, reconciliation and restart.                      *)

\* A callback or the deadline: filled, cancelled or rejected, found, or cancel requested.
Answered(r) ==
  /\ Idle /\ Invalidated
  /\ \/ order[r] \in Pending \ {"reserved", "unsent"} /\ order' = [order EXCEPT ![r] = "closed"]
     \/ order[r] = "unknown" /\ order' = [order EXCEPT ![r] = "found"]
     \/ order[r] \in {"sent", "found"} /\ order' = [order EXCEPT ![r] = "cancel_pending"]
  /\ UNCHANGED <<emergency, run, holds, reserved, intents, created, batch, listed, read,
                 place, others, history, bounds>>

\* A callback says Inactive: the row is unknown, and a failure that is new is an incident.
Uncertain(r) ==
  /\ Idle /\ order[r] \in {"sent", "found"} /\ order' = [order EXCEPT ![r] = "unknown"]
  /\ RaisedIn({r}, FALSE) \/ UNCHANGED <<run, holds, intents, reviewed>>
  /\ Invalidated
  /\ UNCHANGED <<emergency, reserved, created, batch, listed, read, place, others, stopped,
                 doubted, bounds>>

\* cancel_entry, asked by the operator; also of an order that is unknown.
CancelEntry(r) ==
  /\ Between /\ order[r] \in Pending \ {"cancel_pending"}
  /\ order' = [order EXCEPT ![r] = "cancel_pending"] /\ Invalidated
  /\ UNCHANGED <<emergency, run, holds, reserved, intents, created, batch, listed, read,
                 place, others, history, bounds>>

\* begin_reconcile stages a snapshot; an old one stops counting after thirty seconds.
BeginReconcile ==
  /\ Between /\ begun' = TRUE /\ ready' \in {ready, FALSE}
  /\ UNCHANGED <<durable, batch, listed, read, place, others, history, bounds>>

\* No order has an outcome or a cancellation that is open.
Settled == \A r \in Runs : order[r] \notin {"unknown", "unsent", "cancel_pending"}

\* _finish_reconcile: capacity of a finished, flat entry; then the runs, read as a list.
\* Other issues (positions, account facts) may leave the account unreconciled.
Reconcile ==
  /\ Idle /\ begun /\ begun' = FALSE /\ ready' \in {FALSE, Settled}
  /\ \E flat \in SUBSET Runs :
       reserved' = IF ready' THEN {r \in reserved : order[r] \in Pending \/ r \notin flat}
                   ELSE reserved
  /\ read' = run /\ GoTo("publish", NoRun)
  /\ UNCHANGED <<emergency, run, holds, order, intents, created, batch, listed, others,
                 history, bounds>>

\* ... and written back with a new state: the armed ones of a reconciled account and those
\* whose position opened or closed.
Publish ==
  /\ At("publish", NoRun) /\ Rest
  /\ \E changed \in SUBSET Runs :
       run' = [r \in Runs |-> IF r \in changed \/ (ready /\ read[r].status = "authorized")
                              THEN read[r] ELSE run[r]]
  /\ UNCHANGED <<emergency, holds, order, reserved, intents, created, batch, listed,
                 ready, begun, others, history, bounds>>

\* What a process that stopped leaves of an order: whether it left, and whether it was seen to
\* work, shows only later.  What the thread has just sent was not seen yet.
Left(r) ==
  CASE order[r] = "reserved" \/ At("submit", r) -> {"unsent"}
    [] order[r] = "sent" /\ ~At("submit", r)    -> {"unknown"} \cup (IF place.run = r THEN {} ELSE {"found"})
    [] OTHER                                    -> {order[r]}

\* The process stops anywhere; _restore revokes everything.
Restart ==
  /\ bounds.restarts < MaxRestarts /\ bounds' = [bounds EXCEPT !.restarts = @ + 1]
  /\ Disarmed(Runs)
  /\ order' \in [Runs -> Orders] /\ \A r \in Runs : order'[r] \in Left(r)
  /\ batch' = FALSE /\ listed' = Nothing /\ Rest /\ Invalidated
  /\ asked' = FALSE /\ alerted' = FALSE
  /\ UNCHANGED <<emergency, holds, reserved, intents, created, stopped, doubted>>

-----------------------------------------------------------------------------
Enter(r) == \/ Signal(r) \/ Refuse(r) \/ Check(r) \/ Reserve(r) \/ GuardPasses(r) \/ GuardBlocks(r)
            \/ MarkDispatch(r) \/ Submit(r) \/ SubmitRaises(r) \/ ReadRun(r) \/ PutRun(r)

Operate(r) == \/ Arm(r) \/ Disarm(r) \/ Resume(r) \/ Release(r) \/ FlushIncident(r)
              \/ Answered(r) \/ Uncertain(r) \/ CancelEntry(r)
              \/ \E resumable \in BOOLEAN : Incident({r}, resumable) \/ Incident(Runs, resumable)

Emergency == PressEmergency \/ CommandEmergency \/ CallExpires \/ ClearEmergency

Watchdog == WatchdogAlarm \/ WatchdogRecovers

Next == \/ \E r \in Runs : Enter(r) \/ Operate(r)
        \/ Emergency \/ Watchdog
        \/ BeginBatch \/ EndBatch \/ BeginReconcile \/ Reconcile \/ Publish \/ Restart

Spec == Init /\ [][Next]_vars

-----------------------------------------------------------------------------
(* Properties.                                                             *)

\* The variables keep to the values the code can store.
TypeOK ==
  /\ emergency \in BOOLEAN /\ run \in [Runs -> Run] /\ holds \subseteq Runs
  /\ order \in [Runs -> Orders] /\ reserved \subseteq Runs /\ intents \subseteq Runs
  /\ created \subseteq Runs
  /\ batch \in BOOLEAN /\ ready \in BOOLEAN /\ begun \in BOOLEAN
  /\ listed \in [Runs -> Run] /\ read \in [Runs -> Run]
  /\ place \in [at : Places, run : Runs \cup {NoRun}]
  /\ asked \in BOOLEAN /\ alerted \in BOOLEAN /\ stopped \in BOOLEAN
  /\ reviewed \subseteq Runs /\ doubted \subseteq Runs

(* A restriction is never only a label: an entry that may still be sent or  *)
(* filled while its run is held has a durable request to cancel it,         *)
(* whichever actor raised the incident and whatever the engine was doing.   *)
HeldEntryIsCancelled ==
  \A r \in holds : order[r] \in Pending \ {"cancel_pending"} => r \in intents

(* Once the engine has answered the emergency call nothing is on its way    *)
(* out, and every order the broker may have has been asked to be cancelled  *)
(* (README.md: "working entries"), until the stop is cleared.  One          *)
(* exception: an order whose outcome was unknown at that moment, which the  *)
(* call does not touch and which may turn out to work; a further call then  *)
(* cancels it.  A restart in between changes none of this.                  *)
EmergencyStopsEntries ==
  stopped => /\ emergency /\ place.at # "submit"
             /\ \A r \in Runs : Exposed(r) => r \in doubted /\ order[r] # "sent"

(* Every entry that can still fill holds capacity, within the limit and     *)
(* alone on its contract, through guards, incidents, releases and restarts. *)
ExposureIsReserved ==
  /\ \A r \in Runs : order[r] \in Pending => r \in reserved
  /\ Cardinality(reserved) <= Capacity
  /\ \A r, s \in reserved : ContractOf[r] = ContractOf[s] => r = s

(* An order leaves only for a run that the store still authorizes at that   *)
(* moment, with no emergency stop and no restriction, whatever the engine   *)
(* read before.                                                             *)
DispatchIsAuthorized ==
  [][\A r \in Runs : order[r] = "reserved" /\ order'[r] = "sent" =>
       Armed(r) /\ ~emergency /\ r \notin holds]_vars

(* What an incident, a disarm or an emergency stop revoked is armed again   *)
(* only by a review (docs/MINIMAL_PAPER_WORKFLOW.md, README.md).            *)
AuthorizationIsReviewed == \A r \in Runs : Armed(r) => r \in reviewed
=============================================================================
