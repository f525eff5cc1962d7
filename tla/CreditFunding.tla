----------------------------- MODULE CreditFunding -----------------------------
(***************************************************************************)
(* What an entry may spend: the account figures of the last snapshot, the  *)
(* reservations that the figures do not show yet, and the previews with    *)
(* which the broker is asked what an order would require (credit.py,       *)
(* broker_credit.py, buying_power.py).  The runs share one account and one *)
(* request for a preview in a minute.  Half a minute is the unit of time.  *)
(***************************************************************************)
EXTENDS Integers, Sequences, FiniteSets, SequencesExt, FiniteSetsExt, Functions

CONSTANTS Runs,
          Setups   \* [power, total, cash, need, cost, armed, lifetime, slow, bounds]: power: the policy that shares
                   \* buying power and asks for no preview; need, cost: of the order of each run; armed: the
                   \* others are only reviewed; slow: half a minute may pass with
                   \* observations waiting; bounds: [ticks, begins, updates, ends, outages, refusals]

VARIABLES
  setup,
  orders,      \* of each run: [state, broker, active, mode, reserve]: as the engine and as the broker have it
  engine,      \* [connected, reconciled, age, inflight, begun, started, reflected, revision]
  figures,     \* [available, cash, age] of the account, as the engine has them
  evidence,    \* of each run: [preview, revision, status, age]: what is stored for its terms
  previews,    \* requests for previews, as the adapter has them: [run, revision, status, age, placed]
  queue,       \* observations that the engine has not made
  bounds
vars == <<setup, orders, engine, figures, evidence, previews, queue, bounds>>

Recent(age, units) == age <= units
Older(age) == Min({age + 1, Max({3, setup.lifetime + 1})})
SumOver(f, R) == FoldFunctionOnSet(+, 0, f, R)

-----------------------------------------------------------------------------
(* The broker's account: an order counts from the time it is there.        *)

Live == {r \in Runs : orders[r].broker \in {"working", "filled"}}
\* What an order takes of the figure its policy looks at.
Charge == IF setup.power THEN setup.cost ELSE setup.need
Available(R) == setup.total - SumOver(Charge, R)
Cash(R) == setup.cash - SumOver(setup.cost, R)

-----------------------------------------------------------------------------
(* The assessment of an entry.                                             *)

\* Reservations that reduce the figures: those of orders that the snapshot behind the figures may not
\* show, as they were not there when it began or have no outcome that was observed.
Pending(exclude) ==
  {r \in Runs \ {exclude} : orders[r].active
     /\ ~(r \in engine.reflected /\ orders[r].state \in {"working", "filled", "cancelled"})}
PendingCredit(r) == SumOver([q \in Runs |-> orders[q].reserve], Pending(r))
PendingCurrency(r) == SumOver(setup.cost, {q \in Pending(r) : orders[q].mode = "cash"})
CreditAccount ==
  engine.connected /\ engine.reconciled /\ engine.age = 0 /\ Recent(figures.age, 1) /\ figures.available > 0
\* An answer counts for the terms, the connection and the state of the account it was asked in.
Accepted(r) ==
  evidence[r].status = "accepted" /\ evidence[r].revision = engine.revision /\ Recent(evidence[r].age, setup.lifetime)
Rejected(r) == evidence[r].status = "rejected" /\ evidence[r].revision = engine.revision
CashReady(r) ==
  /\ figures.cash - PendingCurrency(r) >= setup.cost[r] /\ setup.cost[r] <= figures.available - PendingCredit(r)
ValidateCapacity(r) == setup.cost[r] + PendingCredit(r) <= figures.available
\* "preview": the broker must be asked first.
CreditAssess(r) ==
  IF ~CreditAccount THEN "wait"
  ELSE IF setup.power THEN (IF ValidateCapacity(r) THEN "broker_decision" ELSE "no")
  ELSE IF CashReady(r) THEN "cash"
  ELSE IF Rejected(r) THEN "no"
  ELSE IF ~Accepted(r) THEN "preview"
  ELSE IF setup.need[r] <= figures.available - PendingCredit(r) THEN "margin" ELSE "no"
Reserve(r, mode) == IF mode = "margin" THEN setup.need[r] ELSE setup.cost[r]
\* The capacity is checked again when it is reserved, and all the evidence before it is sent.
ValidateReservation(r, mode) ==
  IF mode = "broker_decision" THEN ValidateCapacity(r)
  ELSE /\ Reserve(r, mode) + PendingCredit(r) <= figures.available
       /\ mode = "cash" => setup.cost[r] + PendingCurrency(r) <= figures.cash
CreditDispatchReady(r, mode) == CreditAccount /\ (mode = "margin" => Accepted(r)) /\ ValidateReservation(r, mode)
\* The adapter compares the evidence with its own record of the preview.
ValidateCreditIntent(r) ==
  \E i \in DOMAIN previews :
    /\ previews[i].run = r /\ previews[i].status = "accepted" /\ previews[i].revision = engine.revision
    /\ Recent(previews[i].age, setup.lifetime)

Invalidated(e) == [e EXCEPT !.reconciled = FALSE, !.revision = @ + 1]
Spend(b) == bounds[b] > 0 /\ bounds' = [bounds EXCEPT ![b] = @ - 1]
\* An entry is assessed, reserved and sent in one turn of the engine.
Enter(r) ==
  /\ r \in setup.armed /\ orders[r].state = "none"
  /\ \E mode \in {CreditAssess(r)} \cap {"cash", "margin", "broker_decision"} :
       /\ ValidateReservation(r, mode) /\ CreditDispatchReady(r, mode)
       /\ orders' = [orders EXCEPT ![r] =
            IF mode = "margin" /\ ~ValidateCreditIntent(r)
            THEN [state |-> "unknown", broker |-> "none", active |-> TRUE, mode |-> mode, reserve |-> Reserve(r, mode)]
            ELSE [state |-> "dispatching", broker |-> "working", active |-> TRUE, mode |-> mode, reserve |-> Reserve(r, mode)]]
  /\ engine' = Invalidated(engine)
  /\ UNCHANGED <<setup, figures, evidence, previews, queue, bounds>>

-----------------------------------------------------------------------------
(* Previews.                                                               *)

\* A preview that is not answered in time is cancelled, and its answer no longer counts.
Expired == {r \in Runs : evidence[r].status = "pending" /\ ~Recent(evidence[r].age, 1)}
Demands ==
  {r \in Runs : orders[r].state = "none" /\ CreditAssess(r) = "preview"
     /\ ~(evidence[r].status = "pending" /\ evidence[r].revision = engine.revision /\ Recent(evidence[r].age, 1))}
\* The armed first, then the one that has waited longest.
Waited(r) == IF evidence[r].status = "none" \/ evidence[r].revision # engine.revision THEN 8 ELSE evidence[r].age
Chosen == {r \in Demands : \A q \in Demands : LET p == <<r \in setup.armed, q \in setup.armed>> IN
             p = <<TRUE, FALSE>> \/ (p[1] = p[2] /\ Waited(r) >= Waited(q))}
ClaimCreditSlot == \A i \in DOMAIN previews : ~Recent(previews[i].age, 2)
PreviewCredit(r, status) ==
  [run |-> r, revision |-> engine.revision, status |-> status, age |-> 0, placed |-> {q \in Runs : orders[q].state # "none"}]
\* An unanswered preview that has expired, and the request for another: one turn of the engine.
CreditMaintain ==
  /\ engine.connected /\ engine.reconciled /\ Expired \cup (IF ClaimCreditSlot THEN Demands ELSE {}) # {}
  /\ \E expired \in {[r \in Runs |-> IF r \in Expired THEN [evidence[r] EXCEPT !.status = "expired"] ELSE evidence[r]]} :
     \E kept \in {[i \in DOMAIN previews |->
         IF \E r \in Expired : evidence[r].preview = i THEN [previews[i] EXCEPT !.status = "expired"] ELSE previews[i]]} :
     IF ClaimCreditSlot /\ Demands # {}
     THEN \E r \in Chosen, sent \in IF bounds.refusals > 0 THEN BOOLEAN ELSE {TRUE} :
            /\ previews' = Append(kept, PreviewCredit(r, IF sent THEN "pending" ELSE "failed"))
            /\ evidence' = [expired EXCEPT ![r] = [preview |-> Len(previews) + 1, revision |-> engine.revision, age |-> 0,
                                                   status |-> IF sent THEN "pending" ELSE "rejected"]]
            /\ IF sent THEN UNCHANGED bounds ELSE Spend("refusals")
     ELSE previews' = kept /\ evidence' = expired /\ UNCHANGED bounds
  /\ UNCHANGED <<setup, orders, engine, figures, queue>>

\* The broker refuses a preview, or answers what the order would require; an answer that does not
\* describe the order that was asked for, or leaves no headroom, is refused as well.
Validated == {TRUE} \cup {bounds.refusals = 0}
Answer(i) ==
  /\ engine.connected /\ previews[i].status = "pending"
  /\ \E ok \in Validated :
       /\ previews' = [previews EXCEPT ![i].status = IF ok THEN "accepted" ELSE "rejected", ![i].age = 0]
       /\ queue' = Append(queue, [type |-> "preview", preview |-> i, ok |-> ok, age |-> 0])
       /\ IF ok THEN UNCHANGED bounds ELSE Spend("refusals")
  /\ UNCHANGED <<setup, orders, engine, figures, evidence>>
CreditObserve(event) ==
  LET r == previews[event.preview].run IN
  IF evidence[r].preview # event.preview \/ evidence[r].status # "pending" \/ evidence[r].revision # engine.revision THEN evidence
  ELSE [evidence EXCEPT ![r].status = IF event.ok /\ Recent(event.age, 1) THEN "accepted" ELSE "rejected", ![r].age = event.age]

-----------------------------------------------------------------------------
(* Snapshots of the account (BrokerSnapshot has their parts).              *)

BeginReconcile ==
  /\ engine.connected /\ ~engine.inflight /\ Spend("begins")
  /\ engine' = [engine EXCEPT !.inflight = TRUE, !.begun = @ + 1, !.started = [revision |-> engine.revision,
                              placed |-> {r \in Runs : orders[r].state # "none"}], !.reconciled = @ /\ engine.age = 0]
  /\ UNCHANGED <<setup, orders, figures, evidence, previews, queue>>
Figures == [available |-> Available(Live), cash |-> Cash(Live), age |-> 0]
Snapshot ==
  /\ engine.connected /\ engine.inflight /\ \A k \in DOMAIN queue : queue[k].type # "snapshot"
  /\ queue' = Append(queue, [type |-> "snapshot", id |-> engine.begun, figures |-> Figures, age |-> 0,
                             orders |-> [r \in Runs |-> orders[r].broker]])
  /\ UNCHANGED <<setup, orders, engine, figures, evidence, previews, bounds>>
\* The account is subscribed: its figures come between the snapshots as well.
AccountUpdate ==
  /\ engine.connected /\ Spend("updates")
  /\ queue' = Append(queue, [type |-> "figures", figures |-> Figures, age |-> 0])
  /\ UNCHANGED <<setup, orders, engine, figures, evidence, previews>>

\* A snapshot that began before the last change is superseded.
Superseded == engine.started.revision # engine.revision
Seen(event) == [r \in Runs |-> IF orders[r].state = "none" THEN orders[r] ELSE [orders[r] EXCEPT !.state = IF event.orders[r] = "none" THEN @ ELSE event.orders[r]]]
FinishReconcile(event) ==
  LET seen == Seen(event)
      ready == \A r \in Runs : seen[r].state \notin {"dispatching", "unknown"} IN
  /\ orders' = [r \in Runs |-> [seen[r] EXCEPT !.active = @ /\ ~(ready /\ seen[r].state = "cancelled")]]
  /\ engine' = [engine EXCEPT !.inflight = FALSE, !.reconciled = ready, !.age = 0, !.reflected = engine.started.placed]
  /\ figures' = [event.figures EXCEPT !.age = event.age]
Observe ==
  /\ queue # <<>> /\ queue' = Tail(queue)
  /\ \E event \in {Head(queue)} :
     CASE event.type = "preview" ->
            evidence' = CreditObserve(event) /\ UNCHANGED <<orders, engine, figures>>
       [] event.type = "figures" ->
            /\ engine' = IF engine.reconciled /\ (event.figures.available < figures.available \/ event.figures.cash < figures.cash)
                         THEN Invalidated(engine) ELSE engine
            /\ figures' = IF engine.inflight THEN figures ELSE [event.figures EXCEPT !.age = event.age]
            /\ UNCHANGED <<orders, evidence>>
       [] event.type = "snapshot" ->
            IF event.id # engine.begun \/ ~engine.inflight THEN UNCHANGED <<orders, engine, figures, evidence>>
            ELSE IF Superseded
            THEN engine' = [engine EXCEPT !.inflight = FALSE, !.reconciled = FALSE] /\ UNCHANGED <<orders, figures, evidence>>
            ELSE FinishReconcile(event) /\ UNCHANGED evidence
  /\ UNCHANGED <<setup, previews, bounds>>

\* The broker fills or cancels an order; the engine learns it from the order's status.
BrokerEnds(r) ==
  /\ orders[r].broker = "working" /\ Spend("ends")
  /\ \E s \in {"filled", "cancelled"} : orders' = [orders EXCEPT ![r].broker = s]
  /\ UNCHANGED <<setup, engine, figures, evidence, previews, queue>>
OrderObserved(r) ==
  /\ engine.connected /\ orders[r].state # orders[r].broker /\ orders[r].broker # "none"
  /\ orders' = [orders EXCEPT ![r].state = orders[r].broker]
  /\ engine' = IF engine.reconciled \/ orders[r].broker = "filled" THEN Invalidated(engine) ELSE engine
  /\ UNCHANGED <<setup, figures, evidence, previews, queue, bounds>>

\* A lost connection, or a restart of the process: the adapter forgets its previews, and what was
\* stored keeps its revision, which is of the connection and the process too.
Reconnect ==
  /\ Spend("outages") /\ queue' = <<>>
  /\ engine' = [Invalidated(engine) EXCEPT !.inflight = FALSE, !.age = 3]
  /\ previews' = [i \in DOMAIN previews |-> [previews[i] EXCEPT !.status = "forgotten"]]
  /\ UNCHANGED <<setup, orders, figures, evidence>>
Tick ==
  /\ Spend("ticks") /\ (queue # <<>> => setup.slow)
  /\ engine' = [engine EXCEPT !.age = Older(@)] /\ figures' = [figures EXCEPT !.age = Older(@)]
  /\ evidence' = [r \in Runs |-> [evidence[r] EXCEPT !.age = Older(@)]]
  /\ previews' = [i \in DOMAIN previews |-> [previews[i] EXCEPT !.age = Older(@)]]
  /\ queue' = [k \in DOMAIN queue |-> [queue[k] EXCEPT !.age = Older(@)]]
  /\ UNCHANGED <<setup, orders>>

Init ==
  /\ setup \in Setups /\ bounds = setup.bounds /\ queue = <<>> /\ previews = <<>>
  /\ orders = [r \in Runs |-> [state |-> "none", broker |-> "none", active |-> FALSE, mode |-> "none", reserve |-> 0]]
  /\ engine = [connected |-> TRUE, reconciled |-> FALSE, age |-> 3, inflight |-> FALSE, begun |-> 0,
               started |-> [revision |-> 0, placed |-> {}], reflected |-> {}, revision |-> 0]
  /\ figures = [available |-> 0, cash |-> 0, age |-> 3]
  /\ evidence = [r \in Runs |-> [preview |-> 0, revision |-> 0, status |-> "none", age |-> 0]]
Next ==
  \/ CreditMaintain \/ BeginReconcile \/ Snapshot \/ AccountUpdate \/ Observe \/ Reconnect \/ Tick
  \/ \E r \in Runs : Enter(r) \/ BrokerEnds(r) \/ OrderObserved(r)
  \/ \E i \in DOMAIN previews : Answer(i)
Spec == Init /\ [][Next]_vars

-----------------------------------------------------------------------------
(* Properties.                                                             *)

TypeOK ==
  /\ engine.age \in 0..7 /\ figures.available \in -setup.total..setup.total /\ engine.reflected \subseteq Runs
  /\ \A r \in Runs : /\ orders[r].state \in {"none", "dispatching", "working", "filled", "cancelled", "unknown"}
                     /\ evidence[r].status \in {"none", "pending", "accepted", "rejected", "expired"}
                     /\ evidence[r].preview \in 0..Len(previews)

\* The entries that were sent never need more than the account has, however their sending, the
\* snapshots and the news of the account follow one another; and cash pays for one of them only.
NotSpentTwice ==
  /\ Available(Live) >= 0
  /\ SumOver(setup.cost, {r \in Live : orders[r].mode = "cash"}) <= setup.cash

\* An entry on margin is sent with the broker's answer for this very state of the account: no entry
\* was sent after the preview was asked for, and the adapter never refuses what the engine accepts.
SentOnAnswer ==
  \A r \in Runs : orders[r].state = "none" /\ orders'[r].mode = "margin" =>
    /\ orders'[r].state = "dispatching" /\ previews[evidence[r].preview].status = "accepted"
    /\ previews[evidence[r].preview].placed = {q \in Runs : orders[q].state # "none"}
=============================================================================
