--------------------------- MODULE IncidentEpisodes ---------------------------
(***************************************************************************)
(* Incident episodes and their recovery (incidents.py,                     *)
(* incident_recovery.py, automatic_recovery.py).  An episode holds         *)
(* trading until evidence of the running engine, later than its last       *)
(* failure, shows that the condition ended; then it is released by the     *)
(* engine (routine codes) or by an operator.  The engine evaluates outside *)
(* the transaction that releases; the watchdog is a process of its own and *)
(* may raise in between.                                                   *)
(***************************************************************************)
EXTENDS Integers, Sequences, FiniteSets

CONSTANT Scenarios \* bounds: [codes, raises, contexts, troubles]: the codes of a behaviour, and its
                   \* failures, reconnections and restarts, reconciliations that are invalidated

VARIABLES
  episodes,   \* durable: episodes in the order they were opened
  totals,     \* durable: incident_totals, episodes per restriction
  sequence,   \* events so far, as far as a failure or its recovery are among them
  running,    \* engine_owner is this instance and not stopped
  context,    \* <<process identity, connection epoch>>
  reconciled,
  inflight,   \* start of the reconciliation in flight, -1 when there is none
  proof,      \* reconciliation_evidence: [context, started]
  signs,      \* for each code: [context, at] of the last sign of its recovery
  todo,       \* refresh_incidents: episodes still to visit, as they were read
  visit,      \* the episode being visited: [id, revision, evidence]
  preview,    \* recovery_preview: [context, items]
  receipt,    \* recovery_receipt of the operator's action: what it released
  world       \* [automatic, used, raises, contexts, troubles]

engine == <<running, context>>
cycle  == <<todo, visit>>
batch  == <<preview, receipt>>
vars == <<episodes, totals, sequence, engine, reconciled, inflight, proof, signs, cycle, batch, world>>

ROUTINE == {"watchdog", "service", "feed"}  \* routine_policy; the others are reviewed one by one
Held    == {"held", "ready_for_release"}
Ids     == DOMAIN episodes
Open    == {i \in Ids : episodes[i].restriction \in Held}
OpenOf(c) == {i \in Open : episodes[i].code = c}
NoVisit == [id |-> 0, revision |-> 0, evidence |-> FALSE]
Nobody  == [context |-> <<0, 0>>, items |-> {}]

Init ==
  /\ episodes = <<>> /\ totals = [r \in Held \cup {"released"} |-> 0] /\ sequence = 0
  /\ running = TRUE /\ context = <<1, 1>> /\ reconciled = FALSE /\ inflight = -1
  /\ proof = [context |-> <<0, 0>>, started |-> -1]
  /\ \E s \in Scenarios, a \in BOOLEAN :
       /\ world = [automatic |-> a, used |-> TRUE, raises |-> s.raises, contexts |-> s.contexts,
                   troubles |-> s.troubles]
       /\ signs = [c \in s.codes |-> [context |-> <<0, 0>>, at |-> -1]]
  /\ todo = {} /\ visit = NoVisit /\ preview = Nobody /\ receipt = {}

-----------------------------------------------------------------------------
(* The book.                                                               *)

Moved(old, new) == \* _save: a total changes when the restriction does
  [r \in DOMAIN totals |-> totals[r] - (IF r = old THEN 1 ELSE 0) + (IF r = new THEN 1 ELSE 0)]

Save(i, item) == /\ episodes' = [episodes EXCEPT ![i] = item]
                 /\ totals' = Moved(episodes[i].restriction, item.restriction)

Raised(c) == [code |-> c, condition |-> "active", restriction |-> "held", investigation |-> "open",
              revision |-> 1, failure |-> sequence + 1, context |-> context]

\* A callback that repeats an active failure of this connection adds nothing; a service that has
\* recovered in between fails anew.
Duplicate(item) == /\ item.condition = "active" /\ item.context = context
                   /\ ~(item.code = "service" /\ signs["service"].context = context
                        /\ signs["service"].at >= item.failure)

RaiseIn(c) ==
  /\ world.raises > 0 /\ world' = [world EXCEPT !.raises = @ - 1] /\ sequence' = sequence + 1
  /\ IF OpenOf(c) = {}
     THEN /\ episodes' = Append(episodes, Raised(c))
          /\ totals' = Moved("", "held")
     ELSE \E i \in OpenOf(c) :
            /\ ~Duplicate(episodes[i])
            /\ Save(i, [Raised(c) EXCEPT !.revision = episodes[i].revision + 1])

Recovered(item) == IF item.restriction = "ready_for_release" THEN item
                   ELSE [item EXCEPT !.condition = "recovered", !.restriction = "ready_for_release",
                                     !.revision = @ + 1]
Withheld(item)  == IF item.restriction = "ready_for_release"
                   THEN [item EXCEPT !.condition = "unknown", !.restriction = "held",
                                     !.revision = @ + 1]
                   ELSE item
Released(item)  == [item EXCEPT !.restriction = "released", !.revision = @ + 1]

-----------------------------------------------------------------------------
(* Evidence.                                                               *)

SignAfter(item) == signs[item.code].context = context /\ signs[item.code].at >= item.failure

\* What a code needs besides a reconciliation: a heartbeat, the callback or a new connection, a
\* healthy feed, a restart, or the failed operation repeated in this context.
CodeChecks(item) ==
  CASE item.code = "service"  -> item.context # context \/ SignAfter(item)
    [] item.code = "overflow" -> item.context[1] # context[1]
    [] item.code = "position" -> TRUE
    [] OTHER -> SignAfter(item)

ProofAfter(item) == proof.context = context /\ proof.started >= item.failure

Unused(item) == world.automatic /\ item.code = "feed" /\ ~world.used

\* _incident_evidence.  A dependency nothing uses needs no proof that it recovered.
Evidence(item) ==
  /\ reconciled
  /\ IF Unused(item) THEN proof.context = context ELSE ProofAfter(item) /\ CodeChecks(item)

Conclusive(item) == item.code \in ROUTINE \cup {"overflow", "position"}

-----------------------------------------------------------------------------
(* The engine and the world.  Only the watchdog, and a stop, fall between  *)
(* the evaluation of an episode and its transaction.                       *)

Quiet == visit = NoVisit

Raise == /\ Quiet /\ running
         /\ \E c \in DOMAIN signs \ {"watchdog"} :
              /\ RaiseIn(c)
              /\ IF c = "fault" THEN reconciled' = FALSE /\ inflight' = -1
                 ELSE UNCHANGED <<reconciled, inflight>>
         /\ UNCHANGED <<engine, proof, signs, cycle, batch>>

Watchdog == /\ running /\ "watchdog" \in DOMAIN signs /\ RaiseIn("watchdog")
            /\ UNCHANGED <<engine, reconciled, inflight, proof, signs, cycle, batch>>

\* A heartbeat, a service that is back, a feed that is healthy, a failed operation that succeeds
\* (_operation_succeeded) or that an operator has rechecked, while an episode waits for it.
Sign == /\ Quiet /\ running
        /\ \E c \in DOMAIN signs \ {"overflow", "position"} :
             /\ OpenOf(c) # {} /\ signs[c] # [context |-> context, at |-> sequence]
             /\ signs' = [signs EXCEPT ![c] = [context |-> context, at |-> sequence]]
        /\ UNCHANGED <<episodes, totals, sequence, engine, reconciled, inflight, proof, cycle, batch, world>>

BeginReconcile ==
  /\ Quiet /\ running /\ inflight = -1 /\ inflight' = sequence
  /\ ~reconciled \/ \E i \in Open : proof.started < episodes[i].failure
  /\ UNCHANGED <<episodes, totals, sequence, engine, reconciled, proof, signs, cycle, batch, world>>

EndReconcile ==
  /\ Quiet /\ running /\ inflight # -1 /\ inflight' = -1 /\ reconciled' = TRUE
  /\ proof' = [context |-> context, started |-> inflight]
  /\ UNCHANGED <<episodes, totals, sequence, engine, signs, cycle, batch, world>>

Invalidate ==
  /\ Quiet /\ running /\ world.troubles > 0 /\ world' = [world EXCEPT !.troubles = @ - 1]
  /\ reconciled' = FALSE /\ inflight' = -1
  /\ UNCHANGED <<episodes, totals, sequence, engine, proof, signs, cycle, batch>>

Retire == \* the last run or subscription of the feed is gone, or one is back
  /\ Quiet /\ running /\ "feed" \in DOMAIN signs /\ world.troubles > 0
  /\ world' = [world EXCEPT !.used = ~@, !.troubles = @ - 1]
  /\ UNCHANGED <<episodes, totals, sequence, engine, reconciled, inflight, proof, signs, cycle, batch>>

Spent == world.contexts > 0 /\ world' = [world EXCEPT !.contexts = @ - 1]

Reconnect ==
  /\ Quiet /\ running /\ Spent /\ context' = <<context[1], context[2] + 1>>
  /\ reconciled' = FALSE /\ inflight' = -1
  /\ UNCHANGED <<episodes, totals, sequence, running, proof, signs, cycle, batch>>

Stop == /\ running /\ Spent /\ running' = FALSE
        /\ UNCHANGED <<episodes, totals, sequence, context, reconciled, inflight, proof, signs, cycle, batch>>

\* Episodes, previews, receipts and recorded retests survive; what the engine held does not.
Restart ==
  /\ ~running /\ Quiet /\ running' = TRUE /\ context' = <<context[1] + 1, 1>>
  /\ reconciled' = FALSE /\ inflight' = -1 /\ todo' = {}
  /\ proof' = [context |-> <<0, 0>>, started |-> -1]
  /\ UNCHANGED <<episodes, totals, sequence, signs, visit, batch, world>>

-----------------------------------------------------------------------------
(* refresh_incidents.                                                      *)

Refresh == /\ running /\ Quiet /\ todo = {} /\ Open # {}
           /\ todo' = {<<i, episodes[i].revision>> : i \in Open}
           /\ UNCHANGED <<episodes, totals, sequence, engine, reconciled, inflight, proof, signs, visit, batch, world>>

Evaluate ==
  /\ Quiet /\ running /\ todo # {}
  /\ \E t \in todo :
       /\ \A u \in todo : t[1] <= u[1]
       /\ todo' = todo \ {t}
       /\ visit' = [id |-> t[1], revision |-> t[2], evidence |-> Evidence(episodes[t[1]])]
  /\ UNCHANGED <<episodes, totals, sequence, engine, reconciled, inflight, proof, signs, batch, world>>

Visited(item) == \* the transaction of a visit, on the episode as it is now
  IF ~visit.evidence \/ ~Evidence(item) THEN Withheld(item)
  ELSE IF Unused(item) THEN [Released(item) EXCEPT !.condition = "unknown"]
  ELSE IF world.automatic /\ Conclusive(item) THEN Released(Recovered(item))
  ELSE Recovered(item)

\* A stopped instance and an episode that changed since it was read are left alone.
Commit ==
  /\ ~Quiet /\ visit' = NoVisit
  /\ IF running /\ episodes[visit.id].revision = visit.revision
     THEN Save(visit.id, Visited(episodes[visit.id]))
     ELSE UNCHANGED <<episodes, totals>>
  /\ UNCHANGED <<sequence, engine, reconciled, inflight, proof, signs, todo, batch, world>>

-----------------------------------------------------------------------------
(* The operator.                                                           *)

Ready(i) == i \in Open /\ episodes[i].restriction = "ready_for_release" /\ Evidence(episodes[i])

Review == /\ Quiet /\ running /\ reconciled
          /\ \E i \in Open : Ready(i) /\ Save(i, Released(episodes[i]))
          /\ UNCHANGED <<sequence, engine, reconciled, inflight, proof, signs, cycle, batch, world>>

Preview ==
  /\ Quiet /\ running /\ receipt = {}
  /\ \E i \in Open : episodes[i].code \in ROUTINE /\ episodes[i].restriction = "ready_for_release"
  /\ preview' = [context |-> context,
                 items |-> {<<i, episodes[i].revision, episodes[i].failure>> : i \in
                   {j \in Open : episodes[j].code \in ROUTINE
                                 /\ episodes[j].restriction = "ready_for_release"}}]
  /\ UNCHANGED <<episodes, totals, sequence, engine, reconciled, inflight, proof, signs, cycle, receipt, world>>

Unchanged(t) == Ready(t[1]) /\ episodes[t[1]].revision = t[2]

\* All of the reviewed episodes or none; the action that was confirmed answers again with its
\* receipt.
BatchConfirm ==
  /\ Quiet /\ running /\ receipt = {} /\ preview.items # {}
  /\ preview.context = context /\ reconciled /\ \A t \in preview.items : Unchanged(t)
  /\ LET ids == {t[1] : t \in preview.items}
     IN /\ receipt' = ids
        /\ episodes' = [i \in Ids |-> IF i \in ids THEN Released(episodes[i]) ELSE episodes[i]]
        /\ totals' = [totals EXCEPT !["ready_for_release"] = @ - Cardinality(ids),
                                    !["released"] = @ + Cardinality(ids)]
  /\ UNCHANGED <<sequence, engine, reconciled, inflight, proof, signs, cycle, preview, world>>

CloseInvestigation ==
  /\ Quiet /\ running
  /\ \E i \in Ids \ Open : /\ episodes[i].investigation = "open"
                           /\ Save(i, [episodes[i] EXCEPT !.investigation = "closed", !.revision = @ + 1])
  /\ UNCHANGED <<sequence, engine, reconciled, inflight, proof, signs, cycle, batch, world>>

Next == \/ Raise \/ Watchdog \/ Sign \/ BeginReconcile \/ EndReconcile \/ Invalidate \/ Retire
        \/ Reconnect \/ Stop \/ Restart \/ Refresh \/ Evaluate \/ Commit \/ Review \/ Preview
        \/ BatchConfirm \/ CloseInvestigation

Spec == Init /\ [][Next]_vars

\* Every turn of the engine's loop observes, maintains the reconciliation and refreshes; a visit
\* only postpones the others.
Fair == /\ SF_vars(BeginReconcile) /\ SF_vars(EndReconcile) /\ SF_vars(Sign)
        /\ WF_vars(Refresh) /\ WF_vars(Evaluate) /\ WF_vars(Commit)

-----------------------------------------------------------------------------
TypeOK == /\ \A i \in Ids : /\ episodes[i].failure <= sequence
                            /\ episodes[i].condition \in {"active", "recovered", "unknown"}
          /\ \A c \in DOMAIN signs : \* incident_open_identity
               Cardinality({i \in Open : episodes[i].code = c}) <= 1

\* The counts the interface shows agree with the episodes, whatever path each one took.
TotalsAgree == \A r \in DOMAIN totals :
  totals[r] = Cardinality({i \in Ids : episodes[i].restriction = r})

Releases(i) == i \in Open /\ episodes'[i].restriction = "released"

\* A restriction is released only when a reconciliation of the running connection began after the
\* last failure, also when the watchdog raised while the engine was deciding; the exception is a
\* feed nothing uses.
ReleasedAfterFailure == \A i \in Ids : Releases(i) =>
  \/ Unused(episodes[i])
  \/ proof.context = context /\ proof.started >= episodes[i].failure

\* A batch releases what the operator saw: no failure later than the preview, and nothing twice.
BatchAsReviewed == receipt' # receipt =>
  /\ receipt = {}
  /\ \A i \in receipt' : Releases(i) /\ \E t \in preview.items : t[1] = i /\ t[3] = episodes[i].failure

WatchdogHeld     == running /\ "watchdog" \in DOMAIN signs /\ OpenOf("watchdog") # {} /\ world.automatic
WatchdogReleased == ~running \/ OpenOf("watchdog") = {}

\* After a missed heartbeat the engine's own evidence releases the restriction: nobody has to.
WatchdogRecovers == WatchdogHeld ~> WatchdogReleased
=============================================================================
