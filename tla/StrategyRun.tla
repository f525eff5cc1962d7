------------------------------ MODULE StrategyRun ------------------------------
(***************************************************************************)
(* The service of typed strategy runs (strategy_run_service.py): drafts,   *)
(* authorizations, executions and the emergency stop of runs whose rows    *)
(* are in SQLite and whose trail is in a journal.  The lock of the journal *)
(* is held for a whole operation, so operations do not interleave, but a   *)
(* crash may end one after any of its writes.  The publication of a new    *)
(* version of the workflow and the stop in memory take no lock.            *)
(***************************************************************************)
EXTENDS Integers, Sequences, FiniteSets, SequencesExt

CONSTANTS Runs,
          Budgets     \* bounds: [calls, crashes, edits, stops, uploads], the runs, and those armed at the start

VARIABLES
  rows,      \* of a run: its column and its payload, which differ while it executes
  journal,   \* [run, type] of the records, in order
  torn,      \* a crash has left half a line in the journal
  reports,   \* runs with a report and artifacts
  granted,   \* runs with a stored authorization
  dataset,   \* [temporary, file, row]: the content at each of the places, 0 for none
  stop,      \* the durable emergency stop
  memory,    \* the emergency stop of the process: [active, last]
  want,      \* the change of the durable stop that the process is about to make
  latest,    \* version of the workflow
  edit,      \* the pass that disarms runs of older versions: [step, runs]
  asked,     \* a request to simulate, with the stop it saw: [run, stopped], or Nothing
  op,        \* the operation that holds the lock: what it still has to write, and references
  bounds
vars == <<rows, journal, torn, reports, granted, dataset, stop, memory, want, latest, edit, asked, op, bounds>>

Nothing == [none |-> TRUE]
Absent == [column |-> "absent", state |-> "absent", version |-> 0, refs |-> <<>>, outlived |-> FALSE]
NoEdit == [step |-> "none", runs |-> {}]

Init ==
  /\ bounds \in Budgets /\ torn = FALSE /\ reports = {} /\ granted = {r \in Runs : r \in bounds.armed} /\ stop = FALSE
  /\ LET armed == SetToSeq(bounds.armed) IN
     /\ journal = FlattenSeq([k \in 1..Len(armed) |-> <<[run |-> armed[k], type |-> "drafted"], [run |-> armed[k], type |-> "armed"]>>])
     /\ rows = [r \in Runs |-> IF r \notin bounds.armed THEN Absent
                  ELSE [column |-> "armed", state |-> "armed", version |-> 1, outlived |-> FALSE,
                        refs |-> SelectSeq([k \in 1..(2 * Len(armed)) |-> k], LAMBDA k : armed[(k + 1) \div 2] = r)]]
  /\ dataset = [temporary |-> 0, file |-> IF bounds.uploads = 0 THEN 1 ELSE 0, row |-> IF bounds.uploads = 0 THEN 1 ELSE 0]
  /\ memory = [active |-> FALSE, last |-> "none"] /\ want = "none" /\ latest = 1 /\ edit = NoEdit /\ asked = Nothing /\ op = Nothing

Relevant(r) == SelectSeq([k \in 1..Len(journal) |-> k], LAMBDA k : journal[k].run = r)
\* A run is read only with its whole evidence: the journal holds exactly what the record refers to.
Readable(r) == ~torn /\ rows[r].column = rows[r].state /\ rows[r].refs = Relevant(r)
Is(r, s) == Readable(r) /\ rows[r].state = s

-----------------------------------------------------------------------------
(* The writes of an operation, one at a time.                              *)

Begin(todo) == op = Nothing /\ op' = [todo |-> todo, refs |-> [r \in Runs |-> rows[r].refs]]
Spend(b) == bounds[b] > 0 /\ bounds' = [bounds EXCEPT ![b] = @ - 1]
Put(r, s) == /\ op.refs[r] = Relevant(r)
             /\ rows' = [rows EXCEPT ![r] = [column |-> s, state |-> s, version |-> IF @.version = 0 THEN latest ELSE @.version,
                                             refs |-> op.refs[r], outlived |-> s = "armed" /\ stop]]
\* One transaction: no stop, nobody executing, and the row still as it was read.
Reserve(r) == /\ ~stop /\ \A s \in Runs : rows[s].column # "executing"
              /\ rows[r].column = "armed" /\ rows' = [rows EXCEPT ![r].column = "executing"]
Grant(r) == r \notin granted /\ granted' = granted \cup {r}
\* The report, the order, its fills, the position and its protection: rows that are inserted once.
PersistArtifacts(r) == r \notin reports /\ reports' = reports \cup {r}
\* The trades are read from the file, whose digest is in the row.
Loaded == dataset.row # 0 /\ dataset.file = dataset.row
Raise == op' = Nothing /\ UNCHANGED <<rows, journal, reports, granted, dataset, stop>>

Write ==
  /\ op # Nothing /\ UNCHANGED <<torn, memory, want, latest, edit, asked, bounds>>
  /\ LET w == Head(op.todo)
         rest == Tail(op.todo)
         refs == IF w[1] = "log" /\ w[2] \in Runs THEN [op.refs EXCEPT ![w[2]] = Append(@, Len(journal) + 1)] ELSE op.refs
         done == op' = (IF rest = <<>> THEN Nothing ELSE [todo |-> rest, refs |-> refs]) IN
     \/ /\ w[1] = "log" /\ ~torn /\ journal' = Append(journal, [run |-> w[2], type |-> w[3]]) /\ done
        /\ UNCHANGED <<rows, reports, granted, dataset, stop>>
     \/ w[1] = "put" /\ Put(w[2], w[3]) /\ done /\ UNCHANGED <<journal, reports, granted, dataset, stop>>
     \/ w[1] = "reserve" /\ Reserve(w[2]) /\ done /\ UNCHANGED <<journal, reports, granted, dataset, stop>>
     \/ w[1] = "authorize" /\ Grant(w[2]) /\ done
        /\ UNCHANGED <<rows, journal, reports, dataset, stop>>
     \/ w[1] = "report" /\ PersistArtifacts(w[2]) /\ done
        /\ UNCHANGED <<rows, journal, granted, dataset, stop>>
     \/ /\ w[1] = "stop" /\ stop' = w[2] /\ done
        /\ rows' = [r \in Runs |-> [rows[r] EXCEPT !.outlived = @ \/ (w[2] /\ rows[r].state = "armed")]]
        /\ UNCHANGED <<journal, reports, granted, dataset>>
     \/ /\ w[1] = "temporary" /\ dataset.temporary = 0 /\ dataset' = [dataset EXCEPT !.temporary = w[2]] /\ done
        /\ UNCHANGED <<rows, journal, reports, granted, stop>>
     \/ /\ w[1] = "replace" /\ dataset' = [dataset EXCEPT !.temporary = 0, !.file = dataset.temporary] /\ done
        /\ UNCHANGED <<rows, journal, reports, granted, stop>>
     \/ w[1] = "row" /\ dataset' = [dataset EXCEPT !.row = w[2]] /\ done /\ UNCHANGED <<rows, journal, reports, granted, stop>>
     \/ CASE w[1] = "log" -> torn /\ Raise
          [] w[1] = "put" -> op.refs[w[2]] # Relevant(w[2]) /\ Raise
          [] w[1] = "reserve" -> ~(~stop /\ (\A s \in Runs : rows[s].column # "executing") /\ rows[w[2]].column = "armed") /\ Raise
          [] w[1] = "temporary" -> dataset.temporary # 0 /\ Raise
          [] w[1] = "authorize" -> w[2] \in granted /\ Raise
          [] w[1] = "report" -> w[2] \in reports /\ Raise
          [] OTHER -> FALSE

-----------------------------------------------------------------------------
(* The operations: checks, and then what is to be written.                 *)

\* The temporary file is created, never overwritten; a known dataset is immutable.
RegisterDataset ==
  /\ Spend("uploads") /\ dataset.row = 0
  /\ \E c \in 1..2 : Begin(<< <<"temporary", c>>, <<"replace", c>>, <<"row", c>>, <<"log", "dataset", "registered">> >>)
  /\ UNCHANGED <<rows, journal, torn, reports, granted, dataset, stop, memory, want, latest, edit, asked>>
CreateDraft(r) ==
  /\ Spend("calls") /\ r \in bounds.runs /\ dataset.row # 0 /\ rows[r].column = "absent"
  /\ Begin(<< <<"log", r, "drafted">>, <<"put", r, "draft">> >>)
  /\ UNCHANGED <<rows, journal, torn, reports, granted, dataset, stop, memory, want, latest, edit, asked>>
ArmRun(r) ==
  /\ Spend("calls") /\ ~memory.active /\ ~stop /\ Is(r, "draft") /\ rows[r].version = latest
  /\ Begin(<< <<"log", r, "armed">>, <<"authorize", r>>, <<"put", r, "armed">> >>)
  /\ UNCHANGED <<rows, journal, torn, reports, granted, dataset, stop, memory, want, latest, edit, asked>>
Disarming(r) == << <<"log", r, "disarmed">>, <<"put", r, "disarmed">> >>
DisarmRun(r) ==
  /\ Spend("calls") /\ (Is(r, "draft") \/ Is(r, "armed")) /\ Begin(Disarming(r))
  /\ UNCHANGED <<rows, journal, torn, reports, granted, dataset, stop, memory, want, latest, edit, asked>>

\* The stop in memory is read by the request, before it waits for the lock.
AskSimulation(r) ==
  /\ Spend("calls") /\ r \in bounds.runs /\ asked = Nothing /\ asked' = [run |-> r, stopped |-> memory.active]
  /\ UNCHANGED <<rows, journal, torn, reports, granted, dataset, stop, memory, want, latest, edit, op>>
Execution(r, ending) == << <<"reserve", r>>, <<"log", r, "reserved">>, <<"log", r, "evidence">>, <<"log", r, ending>> >>
SimulateRun ==
  /\ asked # Nothing /\ asked' = Nothing /\ UNCHANGED bounds
  /\ LET r == asked.run IN
     /\ Is(r, "armed") /\ rows[r].version = latest /\ Loaded
     /\ \/ ~asked.stopped /\ Begin(Execution(r, "completed") \o << <<"report", r>>, <<"put", r, "completed">> >>)
        \/ Begin(Execution(r, "blocked") \o << <<"put", r, "blocked">> >>)
  /\ UNCHANGED <<rows, journal, torn, reports, granted, dataset, stop, memory, want, latest, edit>>
SimulationRefused ==
  /\ asked # Nothing /\ op = Nothing /\ asked' = Nothing
  /\ ~(Is(asked.run, "armed") /\ rows[asked.run].version = latest /\ Loaded)
  /\ UNCHANGED <<rows, journal, torn, reports, granted, dataset, stop, memory, want, latest, edit, op, bounds>>

-----------------------------------------------------------------------------
(* The emergency stop, and edits of the workflow.                          *)

\* The change in memory; a repeated request asks for the durable change again.
Change(active, action) ==
  /\ Spend("stops") /\ want = "none"
  /\ \/ memory.active # active /\ memory' = [active |-> active, last |-> action]
     \/ memory.last = action /\ UNCHANGED memory
  /\ want' = action /\ UNCHANGED <<rows, journal, torn, reports, granted, dataset, stop, latest, edit, asked, op>>
Activate == Change(TRUE, "activate")
Deactivate == Change(FALSE, "clear")

Active == {r \in Runs : rows[r].column \in {"draft", "armed"}}
Orders(S) == {s \in [1..Cardinality(S) -> S] : \A k, l \in DOMAIN s : k # l => s[k] # s[l]}
\* The runs are disarmed up to the first that cannot be read, where the pass ends.
DisarmAllActive(s) ==
  LET whole == {n \in 0..Len(s) : \A k \in 1..n : Readable(s[k])}
      upto == CHOOSE n \in whole : \A m \in whole : m <= n IN
  [writes |-> FlattenSeq([k \in 1..upto |-> Disarming(s[k])]), ended |-> upto = Len(s)]
SetEmergencyState ==
  /\ want # "none" /\ want' = "none"
  /\ \E s \in Orders(Active) :
       LET all == DisarmAllActive(s) IN
       Begin((IF want = "activate" THEN << <<"stop", TRUE>> >> ELSE <<>>) \o << <<"log", "stop", want>> >> \o all.writes
             \o (IF want = "clear" /\ all.ended THEN << <<"stop", FALSE>> >> ELSE <<>>))
  /\ UNCHANGED <<rows, journal, torn, reports, granted, dataset, stop, memory, latest, edit, asked, bounds>>

UpdateWorkflow ==
  /\ Spend("edits") /\ edit = NoEdit /\ latest' = latest + 1 /\ edit' = [NoEdit EXCEPT !.step = "list"]
  /\ UNCHANGED <<rows, journal, torn, reports, granted, dataset, stop, memory, want, asked, op>>
\* A run that another one disarmed ends the pass, unless the reason was the same; so does an
\* execution that ended meanwhile.  The list is of payloads, which say armed while the run executes.
RunsForWorkflow ==
  /\ edit.step = "list"
  /\ edit' = [step |-> "disarm", runs |-> {r \in Runs : rows[r].state \in {"draft", "armed"} /\ rows[r].version # latest}]
  /\ UNCHANGED <<rows, journal, torn, reports, granted, dataset, stop, memory, want, latest, asked, op, bounds>>
DisarmRunsForWorkflowEdit ==
  /\ edit.step = "disarm" /\ op = Nothing
  /\ \/ edit.runs = {} /\ edit' = NoEdit /\ UNCHANGED op
     \/ \E r \in edit.runs :
          \/ (Is(r, "draft") \/ Is(r, "armed")) /\ Begin(Disarming(r)) /\ edit' = [edit EXCEPT !.runs = @ \ {r}]
          \/ Is(r, "disarmed") /\ edit' = [edit EXCEPT !.runs = @ \ {r}] /\ UNCHANGED op
          \/ ~(Is(r, "draft") \/ Is(r, "armed")) /\ edit' = NoEdit /\ UNCHANGED op
  /\ UNCHANGED <<rows, journal, torn, reports, granted, dataset, stop, memory, want, latest, asked, bounds>>

\* What is in memory is lost; a line being written may be torn.
Crash ==
  /\ Spend("crashes") /\ op' = Nothing /\ memory' = [active |-> FALSE, last |-> "none"] /\ want' = "none"
  /\ edit' = NoEdit /\ asked' = Nothing
  /\ torn' \in {torn} \cup (IF op # Nothing /\ Head(op.todo)[1] = "log" THEN {TRUE} ELSE {})
  /\ UNCHANGED <<rows, journal, reports, granted, dataset, stop, latest>>

Next == \/ Write \/ RegisterDataset \/ SimulateRun \/ SimulationRefused \/ Activate \/ Deactivate \/ SetEmergencyState
        \/ UpdateWorkflow \/ RunsForWorkflow \/ DisarmRunsForWorkflowEdit \/ Crash
        \/ \E r \in Runs : CreateDraft(r) \/ ArmRun(r) \/ DisarmRun(r) \/ AskSimulation(r)
Spec == Init /\ [][Next]_vars

-----------------------------------------------------------------------------
TypeOK == /\ reports \subseteq Runs /\ granted \subseteq Runs /\ want \in {"none", "activate", "clear"}
          /\ \A r \in Runs : rows[r].version <= latest /\ rows[r].column \in {rows[r].state, "executing"}

Records(r) == {k \in 1..Len(journal) : journal[k].run = r}
Position(r, t) == {k \in Records(r) : journal[k].type = t}
\* A run is executed once whatever crashes, only one is being executed, and what can be read of a
\* finished one is whole: drafted, armed, reserved and ended in this order, with its report.
ExecutedOnce ==
  /\ Cardinality({r \in Runs : rows[r].column = "executing"}) <= 1
  /\ \A r \in Runs :
       /\ Cardinality(Position(r, "reserved")) <= 1
       /\ r \in reports => Position(r, "completed") # {} /\ Position(r, "disarmed") = {}
       /\ Is(r, "completed") =>
            /\ r \in reports /\ r \in granted
            /\ [k \in 1..Len(rows[r].refs) |-> journal[rows[r].refs[k]].type]
                 = <<"drafted", "armed", "reserved", "evidence", "completed">>
\* An execution starts only while the stop is off, and never from an authorization that was given
\* before the stop was last raised: clearing the stop revives nothing, nor does a restart.
NothingRevived ==
  \A r \in Runs : rows[r].column # "executing" /\ rows'[r].column = "executing" =>
       ~stop /\ ~rows[r].outlived /\ r \in granted
\* A dataset that is registered is the one in its file.
DatasetIsWhole == dataset.row # 0 => dataset.file = dataset.row
=============================================================================
