----------------------------- MODULE WorkflowRun -----------------------------
(* A simulation run of a saved workflow: it is started, decided by hand and   *)
(* executed, and each of the three operations reserves a row of the database, *)
(* appends its events to the journal in one write session and then finalises  *)
(* the row. An operation may raise between any two of these steps and the     *)
(* process may stop; the row then stays pending. The service objects are      *)
(* built on first use without a lock, so two requests may work with two       *)
(* runners, which share the journal and the database but not their lock.      *)
EXTENDS Integers, Sequences, FiniteSets

CONSTANTS Runs, Actors,
          Budgets    \* scenarios: the runs and the request bodies the operators send, and how often what fails

VARIABLES rows, journal, torn, stopped, op, holder, bounds
vars == <<rows, journal, torn, stopped, op, holder, bounds>>

NoRow == [state |-> "none"]
Idle == [kind |-> "idle"]
Nobody == "nobody"
Requested == 1    \* the times of a run; a decision or an execution may carry any time
Evaluated == 2
Expires == 4

\* Event types by operation, in the order they are appended.
Started == <<"simulation_run", "intent", "risk", "CREATED", "PENDING_APPROVAL", "ticket", "node">>
Decided(d) == <<d.verdict, "node">>
Executed == <<"APPROVED", "SUBMITTED", "acknowledged", "ACKNOWLEDGED", "filled", "FILLED",
              "position", "alert", "execution_completed", "node">>
ExecutionTypes == {"acknowledged", "filled", "position", "alert", "execution_completed"}
OrderStates == {"CREATED", "PENDING_APPROVAL", "APPROVED", "SUBMITTED", "ACKNOWLEDGED", "FILLED"}

Transition == [None |-> {"CREATED"}, CREATED |-> {"PENDING_APPROVAL"}, PENDING_APPROVAL |-> {"APPROVED"},
               APPROVED |-> {"SUBMITTED"}, SUBMITTED |-> {"ACKNOWLEDGED"}, ACKNOWLEDGED |-> {"FILLED"}]

\* The records of a manifest, and the order's history among them.
Records(manifest) == [i \in 1..Len(manifest) |-> journal[manifest[i]]]
Kinds(manifest) == {journal[manifest[i]].type : i \in 1..Len(manifest)}
IsOrder(e) == e.type \in OrderStates
History(manifest) == LET h == SelectSeq(Records(manifest), IsOrder) IN [i \in 1..Len(h) |-> h[i].type]
Once(manifest, r, t) == Cardinality({i \in 1..Len(manifest) : journal[manifest[i]] = [run |-> r, type |-> t]}) = 1

\* The ticket, proposal and risk decision the later operations rely on.
Attributed(r, row) == \A t \in {"intent", "risk", "ticket", "PENDING_APPROVAL"} : Once(row.manifest, r, t)
Approval(r, row) ==
  /\ row.status # "waiting_for_approval" /\ row.decision.verdict = "approved"
  /\ Attributed(r, row)
  /\ SubSeq(History(row.manifest), 1, 2) = <<"CREATED", "PENDING_APPROVAL">>

ManifestHolds(r, row) ==
  /\ row.manifest # <<>>
  /\ \A i \in 1..(Len(row.manifest) - 1) : row.manifest[i] < row.manifest[i + 1]
  /\ \A i \in 1..Len(row.manifest) : row.manifest[i] <= Len(journal)
  /\ {"simulation_run", "risk", "node", "ticket"} \subseteq Kinds(row.manifest)
StatesAgree(row) ==
  /\ row.state = "committed" /\ row.decided # "pending" /\ row.executed # "pending"
  /\ row.executed = "committed" => row.decided = "committed"
  /\ (row.status = "waiting_for_approval") = (row.decided = "none")
ExecutionHolds(r, row) ==
  IF row.executed = "none" THEN Kinds(row.manifest) \cap ExecutionTypes = {}
  ELSE /\ Approval(r, row) /\ row.execution.own
       /\ History(row.manifest) = <<"CREATED", "PENDING_APPROVAL", "APPROVED", "SUBMITTED", "ACKNOWLEDGED", "FILLED">>
       /\ \A t \in ExecutionTypes : Once(row.manifest, r, t)
\* What may be read back: the stored record agrees with the stored requests and with the journal.
Readable(r, row) ==
  /\ ~torn /\ row.state # "none" /\ StatesAgree(row) /\ ManifestHolds(r, row)
  /\ row.decided = "committed" => Once(row.manifest, r, row.decision.verdict)
  /\ ExecutionHolds(r, row)

Init ==
  /\ rows = [r \in Runs |-> NoRow] /\ journal = <<>> /\ torn = FALSE /\ stopped = FALSE
  /\ op = [a \in Actors |-> Idle] /\ holder = Nobody /\ bounds \in Budgets

\* The lock of the runner the request found.
Locked(a) == IF bounds.shared THEN \A b \in Actors : op[b] = Idle ELSE op[a] = Idle
Spend(b) == bounds[b] > 0 /\ bounds' = [bounds EXCEPT ![b] = @ - 1]
Run(a, o) == op' = [op EXCEPT ![a] = o]
Checked(a, kind, r, q) == Run(a, [kind |-> kind, run |-> r, request |-> q, read |-> rows[r], step |-> "reserve",
                                  base |-> 0, todo |-> <<>>])

CheckStart(a, r) ==
  /\ Locked(a) /\ ~stopped /\ rows[r] = NoRow
  /\ Checked(a, "start", r, Idle) /\ UNCHANGED <<rows, journal, torn, stopped, holder, bounds>>

CheckDecision(a, r, q) ==
  /\ Locked(a) /\ Readable(r, rows[r]) /\ rows[r].status = "waiting_for_approval"
  /\ Attributed(r, rows[r]) /\ q.at <= Expires
  /\ q.verdict = "approved" => ~stopped
  /\ Checked(a, "decide", r, q) /\ UNCHANGED <<rows, journal, torn, stopped, holder, bounds>>

\* Why an execution is refused: the first reason is journalled, once for a payload.
Refusals(r, row, q) ==
  IF row.executed = "committed" THEN IF row.execution = q THEN {} ELSE {"conflicting_execution_retry"}
  ELSE {w \in {"run_status"} : row.status # "approved_not_executed"}
       \cup {w \in {"unknown_broker"} : ~q.known}
       \cup {w \in {"before_decision"} : row.decided = "committed" /\ q.at < row.decision.at}
       \cup {w \in {"approval_expired"} : q.at > Expires}
RefuseExecution(a, r, q) ==
  /\ Locked(a) /\ holder = Nobody /\ Readable(r, rows[r])
  /\ \E w \in Refusals(r, rows[r], q) :
       LET e == [run |-> r, type |-> w] IN
       /\ \A i \in 1..Len(journal) : journal[i] # e
       /\ journal' = Append(journal, e)
  /\ Spend("refusals") /\ UNCHANGED <<rows, torn, stopped, op, holder>>
CheckExecution(a, r, q) ==
  /\ Locked(a) /\ Readable(r, rows[r]) /\ rows[r].executed = "none"
  /\ Refusals(r, rows[r], q) = {} /\ Approval(r, rows[r]) /\ ~stopped
  /\ Checked(a, "execute", r, q) /\ UNCHANGED <<rows, journal, torn, stopped, holder, bounds>>

\* Mutant of Vacant: the transaction does not look whether an execution was reserved meanwhile.
Vacant_Again(o) ==
  LET row == rows[o.run] IN
  \/ o.kind = "start" /\ row = NoRow
  \/ o.kind = "decide" /\ row.state = "committed" /\ row.decided = "none"
  \/ o.kind = "execute" /\ row.state = "committed" /\ row.decided = "committed"

\* The immediate transaction that decides whose operation it is.
Vacant(o) ==
  LET row == rows[o.run] IN
  \/ o.kind = "start" /\ row = NoRow
  \/ o.kind = "decide" /\ row.state = "committed" /\ row.decided = "none"
  \/ o.kind = "execute" /\ row.state = "committed" /\ row.decided = "committed" /\ row.executed = "none"
Reserved(o) ==
  CASE o.kind = "start" -> [state |-> "pending", status |-> "none", manifest |-> <<>>,
                            decided |-> "none", decision |-> Idle, executed |-> "none", execution |-> Idle]
    [] o.kind = "decide" -> [rows[o.run] EXCEPT !.decided = "pending", !.decision = o.request]
    [] o.kind = "execute" -> [rows[o.run] EXCEPT !.executed = "pending", !.execution = o.request]
Reserve(a) ==
  LET o == op[a] IN
  /\ o # Idle /\ o.step = "reserve"
  /\ IF Vacant(o) THEN rows' = [rows EXCEPT ![o.run] = Reserved(o)] /\ Run(a, [o EXCEPT !.step = "begin"])
     ELSE UNCHANGED rows /\ Run(a, Idle)
  /\ UNCHANGED <<journal, torn, stopped, holder, bounds>>

\* The write session: nobody else appends to this journal until it is released.
Free == holder = Nobody
Events(o) ==
  CASE o.kind = "start" -> Started
    [] o.kind = "decide" -> Decided(o.request)
    [] o.kind = "execute" -> Executed
\* The orchestrator looks at the emergency stop again; a journal that cannot be read ends the session.
Refused(o) == torn \/ (o.kind = "start" /\ stopped)
Begin(a) ==
  LET o == op[a] IN
  /\ o # Idle /\ o.step = "begin" /\ Free
  /\ IF Refused(o) THEN Run(a, Idle) /\ UNCHANGED holder
     ELSE holder' = a /\ Run(a, [o EXCEPT !.step = "append", !.base = Len(journal), !.todo = Events(o)])
  /\ UNCHANGED <<rows, journal, torn, stopped, bounds>>

Manifest(o) == (IF o.kind = "start" THEN <<>> ELSE o.read.manifest) \o [i \in 1..(Len(journal) - o.base) |-> o.base + i]
\* The order restored from the manifest: its next transition is allowed and not before its last one.
Allowed(o, t) ==
  LET h == History(Manifest(o))
      last == IF h = <<>> THEN "None" ELSE h[Len(h)]
  IN t \in OrderStates =>
       /\ last \in DOMAIN Transition /\ t \in Transition[last]
       /\ last = "PENDING_APPROVAL" => o.request.at >= Evaluated
Leave(a) == Run(a, Idle) /\ holder' = Nobody
AppendNext(a) ==
  LET o == op[a] IN
  /\ o # Idle /\ o.step = "append" /\ o.todo # <<>>
  /\ IF Allowed(o, Head(o.todo))
     THEN /\ journal' = Append(journal, [run |-> o.run, type |-> Head(o.todo)])
          /\ Run(a, [o EXCEPT !.todo = Tail(@)]) /\ UNCHANGED holder
     ELSE Leave(a) /\ UNCHANGED journal
  /\ UNCHANGED <<rows, torn, stopped, bounds>>
\* A write fails. A run that was being started is then recorded as failed.
AppendFails(a) ==
  LET o == op[a] IN
  /\ o # Idle /\ o.step = "append" /\ o.todo # <<>> /\ Spend("raises") /\ Leave(a)
  /\ \E recorded \in BOOLEAN :
       journal' = IF recorded /\ o.kind = "start" THEN Append(journal, [run |-> o.run, type |-> "failed"]) ELSE journal
  /\ UNCHANGED <<rows, torn, stopped>>

Status(o) ==
  CASE o.kind = "start" -> "waiting_for_approval"
    [] o.kind = "decide" -> IF o.request.verdict = "approved" THEN "approved_not_executed" ELSE "rejected"
    [] o.kind = "execute" -> IF o.request.protected THEN "executed" ELSE "executed_protection_missing"
\* The record is built, which refuses one updated before it was requested, and the session is released.
Build(a) ==
  LET o == op[a] IN
  /\ o # Idle /\ o.step = "append" /\ o.todo = <<>> /\ holder' = Nobody
  /\ IF o.kind = "decide" /\ o.request.at < Requested THEN Run(a, Idle)
     ELSE Run(a, [o EXCEPT !.step = "finalize", !.todo = Manifest(o)])
  /\ UNCHANGED <<rows, journal, torn, stopped, bounds>>
Committed(o) ==
  LET row == [rows[o.run] EXCEPT !.status = Status(o), !.manifest = o.todo] IN
  CASE o.kind = "start" -> [row EXCEPT !.state = "committed"]
    [] o.kind = "decide" -> [row EXCEPT !.decided = "committed"]
    [] o.kind = "execute" -> [row EXCEPT !.executed = "committed"]
Finalize(a) ==
  LET o == op[a] IN
  /\ o # Idle /\ o.step = "finalize" /\ Run(a, Idle)
  /\ \/ rows' = [rows EXCEPT ![o.run] = Committed(o)] /\ UNCHANGED bounds
     \/ UNCHANGED rows /\ Spend("raises")
  /\ UNCHANGED <<journal, torn, stopped, holder>>

Activate == ~stopped /\ stopped' = TRUE /\ Spend("stops") /\ UNCHANGED <<rows, journal, torn, op, holder>>
Deactivate == stopped /\ stopped' = FALSE /\ UNCHANGED <<rows, journal, torn, op, holder, bounds>>
\* The process stops, in the middle of a line of the journal if one was being written. The
\* emergency stop is only in memory.
Crash ==
  /\ Spend("crashes") /\ op' = [a \in Actors |-> Idle] /\ holder' = Nobody /\ stopped' = FALSE
  /\ torn' \in {torn, torn \/ holder # Nobody}
  /\ UNCHANGED <<rows, journal>>

Next ==
  \/ \E a \in Actors : \/ Reserve(a) \/ Begin(a) \/ AppendNext(a) \/ AppendFails(a) \/ Build(a) \/ Finalize(a)
  \/ \E a \in Actors, r \in bounds.runs :
       \/ CheckStart(a, r)
       \/ \E q \in bounds.decisions : CheckDecision(a, r, q)
       \/ \E q \in bounds.executions : CheckExecution(a, r, q) \/ RefuseExecution(a, r, q)
  \/ Activate \/ Deactivate \/ Crash
Spec == Init /\ [][Next]_vars

TypeOK ==
  /\ \A r \in Runs : rows[r] = NoRow \/ rows[r].state \in {"pending", "committed"}
  /\ \A i \in 1..Len(journal) : journal[i].run \in Runs
  /\ torn \in BOOLEAN /\ stopped \in BOOLEAN /\ holder \in Actors \cup {Nobody}
  /\ \A a \in Actors : op[a] # Idle /\ op[a].step = "append" => holder = a

Events_of(r, t) == {i \in 1..Len(journal) : journal[i] = [run |-> r, type |-> t]}
\* The journal of a run tells one lawful story, whoever raced and wherever the process stopped: it is
\* filled at most once, after one approval that no rejection contradicts.
TrailIsLawful ==
  \A r \in Runs :
    /\ Cardinality(Events_of(r, "filled")) <= 1
    /\ Cardinality(Events_of(r, "approved") \cup Events_of(r, "rejected")) <= 1
    /\ \A i \in Events_of(r, "APPROVED") : \E j \in Events_of(r, "approved") : j < i
\* What the runner has committed it can read back: the manifest of a settled row is the run's own,
\* complete and in the journal, unless the execution was given a foreign identifier.
EvidenceIsReadable ==
  \A r \in Runs :
    LET row == rows[r] IN
    (/\ ~torn /\ row.state = "committed" /\ "pending" \notin {row.decided, row.executed}
     /\ row.executed = "committed" => row.execution.own) => Readable(r, row)
=============================================================================
