------------------------------- MODULE DataFeeds -------------------------------
(***************************************************************************)
(* The market data of one subscribed contract: the quote and trade feeds   *)
(* and the units of its history, from the adapter's requests               *)
(* (broker_feeds.py) to their recovery (feed_recovery.py,                  *)
(* data_scheduling.py, engine.py).  The adapter's callbacks put events in  *)
(* a queue; by the time the engine observes one its request may have been  *)
(* given up.  A minute is the unit of time, and what waits for less than a *)
(* minute waits for the next one.                                          *)
(***************************************************************************)
EXTENDS Integers, Sequences, FiniteSets, SequencesExt, FiniteSetsExt

CONSTANTS Setups   \* [attempts, patience, capacity, last, routine, causes, outages, silent, queue, slow, bounds]: the limits,
                   \* what may go wrong, how many events may wait, and whether for a minute; bounds: how often

Parts == {"quote", "trade"}
Units == {"session", "latest"}     \* history jobs: the sessions asked for, and the one that repairs
Kinds == Parts \cup Units

VARIABLES
  setup,
  minute,
  feeds,       \* the engine's and the adapter's state, one record
  queue,       \* events that the engine has not observed
  lost,        \* the last minute with a trade that no one has recorded
  bounds
vars == <<setup, minute, feeds, queue, lost, bounds>>

New == [status |-> "pending", attempts |-> 0, retry |-> "none", automatic |-> FALSE, manual |-> FALSE, repair |-> FALSE]
Absent == [New EXCEPT !.status = "absent"]
\* states of a request at the adapter: active, completed, failed, cancelled, superseded, and forgotten after a reconnection
Active(f, k) == {r \in DOMAIN f.requests : f.requests[r].kind = k /\ f.requests[r].state = "active"}
HistoryComplete(f) == \A u \in Units : f.units[u].status \in {"absent", "completed"}
HistoryFailed(f) == \E u \in Units : f.units[u].status = "failed"
\* What a run needs to be allowed to enter (arming itself is EntryAuthorization's).
Healthy(f) == f.connected /\ f.warm /\ \A p \in Parts : f.parts[p].status = "healthy"

-----------------------------------------------------------------------------
(* Requests at the adapter.                                                *)

Retire(f, R, state) ==
  [f EXCEPT !.requests = [r \in DOMAIN @ |-> IF r \in R THEN [@[r] EXCEPT !.state = state] ELSE @[r]]]
Start(f, k) == [f EXCEPT !.requests = Append(@, [kind |-> k, state |-> "active", since |-> IF k \in Parts THEN 0 ELSE minute, from |-> IF k = "session" THEN f.asked ELSE 0])]
\* All the requests of a kind that are known are cancelled, the failed ones included.
Cancel(f, K) ==
  Retire(f, {r \in DOMAIN f.requests : f.requests[r].kind \in K /\ f.requests[r].state \in {"active", "failed"}}, "cancelled")
FeedEventCurrent(f, event) == f.requests[event.request].state \in {"active", "completed"}
FeedErrorCurrent(f, event) == f.requests[event.request].state \in {"active", "failed"}

-----------------------------------------------------------------------------
(* What the engine does with the health of a feed.                         *)

\* An incident: what may recover by itself suspends an authorization, anything else revokes it.
Suspend(f, routine) == IF f.run = "off" THEN f ELSE [f EXCEPT !.run = IF routine THEN "suspended" ELSE "off"]
\* The candles are not continuous from here.  The ticks kept are dropped, except for a failure of
\* the history only; a run is disarmed, except a suspended one if the gap may recover by itself.
DataGap(f, regularHistoryOnly, routineRecovery) ==
  [f EXCEPT !.warm = FALSE, !.repair = FALSE, !.first = IF regularHistoryOnly THEN @ ELSE 0,
            !.run = IF routineRecovery /\ @ = "suspended" THEN @ ELSE "off"]
Failed_OnceMore(state, reason) ==
  LET again == reason \in setup.routine /\ state.attempts <= setup.attempts IN
  [state EXCEPT !.status = "failed", !.retry = IF again THEN "waiting" ELSE "none", !.automatic = again]
Failed(state, reason) ==
  LET again == reason \in setup.routine /\ state.attempts < setup.attempts IN
  [state EXCEPT !.status = "failed", !.retry = IF again THEN "waiting" ELSE "none", !.automatic = again]
FailFeed(f, r, reason) ==
  LET k == f.requests[r].kind
      routine == reason \in setup.routine
      marked == IF k \in Parts THEN [f EXCEPT !.parts[k] = Failed(@, reason)]
                ELSE [f EXCEPT !.units[k] = Failed(@, reason), !.pending = @ \ {r}, !.repairs = @ \ {r}] IN
  DataGap(Suspend(marked, routine), k \in Units, routine)
\* A request that could not be sent is not tried again unless someone asks for it; one that someone
\* has asked for already still counts as asked for.
DataRequestFault(f, k) ==
  LET state(t) == [t EXCEPT !.status = "failed", !.retry = "none"]
      marked == IF k \in Parts THEN [f EXCEPT !.parts[k] = state(@)] ELSE [f EXCEPT !.units[k] = state(@)] IN
  Suspend(marked, FALSE)
FeedObserved(f, p) ==
  IF f.parts[p].status = "failed" THEN f ELSE [f EXCEPT !.parts[p].status = "healthy", !.parts[p].attempts = 0]

\* The jobs that a subscription asks for: those that are not pending or complete.
QueueHistory(f) ==
  LET todo == f.units["session"].status \notin {"pending", "completed"} IN
  [f EXCEPT !.units["session"] = IF @.status = "absent" THEN [New EXCEPT !.status = "queued"] ELSE @,
            !.jobs = IF todo THEN @ \cup {"session"} ELSE @, !.bars = 0, !.asked = minute]
\* Both feeds are started, unless they are already there or the last start was too recent.
BrokerSubscribe(f) ==
  IF \E r \in DOMAIN f.requests : f.requests[r].kind \in Parts /\ f.requests[r].state \in {"active", "failed"} THEN f
  ELSE [Start(Start(f, "quote"), "trade") EXCEPT !.paced = TRUE]
SubscribeWaits(f) == f.paced /\ BrokerSubscribe(f) # f

-----------------------------------------------------------------------------
(* The engine's periodic work, in its order.                               *)

\* A subscription that was refused once is not tried again.
PendingSubscriptions(f, raises) ==
  IF ~(f.connected /\ f.wanted /\ f.resolved) \/ f.refused \/ SubscribeWaits(f) THEN f
  ELSE IF raises THEN Suspend([f EXCEPT !.refused = TRUE], FALSE)
  ELSE LET g == [BrokerSubscribe(f) EXCEPT !.wanted = FALSE] IN IF g.bars < 0 THEN QueueHistory(g) ELSE g
RetryStarted(state) ==
  [state EXCEPT !.attempts = IF state.automatic THEN @ + 1 ELSE 0, !.status = "pending", !.retry = "none", !.manual = FALSE]
RetryPart(f, p, raises) ==
  IF f.parts[p].status # "failed" \/ f.parts[p].retry # "due" \/ ~f.resolved THEN f
  ELSE IF f.paced THEN f
  ELSE IF raises THEN DataRequestFault(Cancel(f, {p}), p)
  ELSE [Start(Cancel(f, {p}), p) EXCEPT !.paced = TRUE, !.parts[p] = RetryStarted(@)]
RetryUnits(f) ==
  LET again == {u \in Units : f.units[u].status = "failed" /\ f.units[u].retry = "due"} IN
  [f EXCEPT !.jobs = @ \cup again,
            !.units = [u \in Units |-> IF u \in again THEN [RetryStarted(@[u]) EXCEPT !.status = "queued"] ELSE @[u]]]
MaintainFeedRetries(f, raises) == IF f.connected THEN RetryUnits(RetryPart(RetryPart(f, "quote", raises), "trade", raises)) ELSE f
\* A contract that is not warm has its last history asked for again.
RepairContinuity(f) ==
  IF ~(f.connected /\ f.loaded /\ HistoryComplete(f) /\ ~f.warm /\ f.repairs = {} /\ f.repair) THEN f
  ELSE [f EXCEPT !.jobs = @ \cup {"latest"}, !.units["latest"] = [(IF @.status = "absent" THEN New ELSE @) EXCEPT !.status = "queued", !.repair = TRUE]]
DispatchHistory(f, u, raises) ==
  IF ~(f.connected /\ f.resolved) \/ f.units[u].status # "queued" \/ u \notin f.jobs THEN f
  ELSE IF Cardinality(f.pending) >= setup.capacity \/ f.historyPaced THEN f
  ELSE IF raises THEN DataRequestFault(f, u)
  ELSE LET r == Len(f.requests) + 1 IN
       [Start(f, u) EXCEPT !.jobs = @ \ {u}, !.units[u].status = "pending", !.units[u].retry = "none",
                           !.pending = @ \cup {r}, !.repairs = IF f.units[u].repair THEN @ \cup {r} ELSE @, !.historyPaced = TRUE]
HistoryTimeouts(f) ==
  LET late == {r \in f.pending : minute - f.requests[r].since + f.age > setup.patience}
      Timeout(r, g) == FailFeed(Retire(g, {r}, "cancelled"), r, "transient") IN
  FoldSet(Timeout, f, late)

Spend(b) == bounds[b] > 0 /\ bounds' = [bounds EXCEPT ![b] = @ - 1]
\* The broker may refuse every request of a turn.
Maintain ==
  /\ feeds.subscribed
  /\ \E raises \in IF bounds.raises > 0 THEN BOOLEAN ELSE {FALSE} :
     \E subscribed \in {PendingSubscriptions(feeds, raises)} :
     \E retried \in {MaintainFeedRetries(subscribed, raises)} :
     \E repaired \in {RepairContinuity(retried)} :
     \E first \in IF repaired.jobs = {} THEN {"latest"} ELSE repaired.jobs :
     \E one \in {DispatchHistory(repaired, first, raises)} :
     \E both \in {DispatchHistory(one, CHOOSE u \in Units : u # first, raises)} :
       /\ feeds' = [HistoryTimeouts(both) EXCEPT !.maintained = TRUE]
       /\ IF raises THEN Spend("raises") ELSE UNCHANGED bounds
  /\ UNCHANGED <<setup, minute, queue, lost>>

-----------------------------------------------------------------------------
(* Observations.                                                           *)

\* What an answer to a repair must show before the candles are continuous: bars that reach the
\* first tick kept, and that are recent.
Continuous(f) == f.first > 0 /\ f.bars > f.first /\ minute - f.bars <= 1
HistoryEnd(f, event) ==
  LET r == event.request
      u == f.requests[r].kind
      g == [f EXCEPT !.units[u] = IF r \in f.pending THEN [@ EXCEPT !.status = "completed", !.attempts = 0] ELSE @,
                     !.pending = @ \ {r}, !.repairs = @ \ {r}, !.bars = Max({@, event.minute})] IN
  IF ~HistoryComplete(g) \/ g.jobs # {} \/ g.pending # {} THEN g
  ELSE IF r \notin f.repairs THEN [g EXCEPT !.loaded = TRUE]
  ELSE IF Continuous(g) THEN [g EXCEPT !.loaded = TRUE, !.warm = TRUE]
  ELSE [g EXCEPT !.loaded = TRUE, !.repair = FALSE]
\* A trade that is not valid, and one that comes late when the candles are continuous, is a gap.
OnTick(f, event) ==
  IF event.bad THEN DataGap(f, FALSE, FALSE)
  ELSE LET g == [f EXCEPT !.first = IF @ = 0 THEN event.minute ELSE @] IN
       IF event.minute # minute THEN (IF f.warm THEN DataGap(g, FALSE, FALSE) ELSE g) ELSE FeedObserved(g, "trade")
\* Error 1101 says that the streams are lost, and 1102 that they were kept.
ConnectivityRestored(f, streamsLost) ==
  LET g == DataGap(f, FALSE, TRUE) IN
  IF ~streamsLost THEN g
  ELSE [Cancel(g, Parts) EXCEPT !.wanted = TRUE, !.parts = [p \in Parts |-> [@[p] EXCEPT !.status = "pending", !.retry = "none", !.manual = FALSE]]]
ConnectionLost(f) ==
  [Suspend(f, TRUE) EXCEPT !.connected = FALSE, !.resolved = FALSE, !.warm = FALSE, !.loaded = FALSE, !.repair = FALSE, !.jobs = {},
     !.pending = {}, !.repairs = {}, !.units = [u \in Units |-> Absent], !.parts = [p \in Parts |-> New], !.bars = -1, !.first = 0]
Observed(f, event) ==
  CASE event.type = "error" -> IF FeedErrorCurrent(f, event) THEN FailFeed(f, event.request, event.reason) ELSE f
    [] event.type = "lost" -> ConnectionLost(f)
    [] event.type \in {"1101", "1102"} -> ConnectivityRestored(f, event.type = "1101")
    [] ~FeedEventCurrent(f, event) -> f
    [] event.type = "end" -> HistoryEnd(f, event)
    [] event.type = "quote" -> FeedObserved(f, "quote")
    [] OTHER -> OnTick(f, event)
Dropped(f, event) == event.type = "tick" /\ (event.bad \/ ~FeedEventCurrent(f, event))
Observe ==
  /\ queue # <<>> /\ queue' = Tail(queue)
  /\ feeds' = IF feeds.subscribed \/ Head(queue).type = "lost" THEN Observed(feeds, Head(queue)) ELSE feeds
  /\ lost' = IF Dropped(feeds, Head(queue)) THEN Max({lost, Head(queue).minute}) ELSE lost
  /\ UNCHANGED <<setup, minute, bounds>>

-----------------------------------------------------------------------------
(* The broker, the clock and the operator.                                 *)

Emit(event) == Len(queue) < setup.queue /\ queue' = Append(queue, event)
Event(type, r, reason, bad) == [type |-> type, request |-> r, reason |-> reason, bad |-> bad, minute |-> minute]
Streaming == feeds.connected /\ \A i \in DOMAIN queue : queue[i].type \notin {"lost", "1101"}
\* A trade of the market: it is told by the feed that is active.
Trade ==
  /\ Spend("trades")
  /\ \/ /\ Streaming /\ \E r \in Active(feeds, "trade"), bad \in {FALSE} \cup (IF bounds.bad > 0 THEN {TRUE} ELSE {}) : Emit(Event("tick", r, "none", bad))
        /\ UNCHANGED lost
     \/ (~Streaming \/ Active(feeds, "trade") = {}) /\ lost' = minute /\ UNCHANGED queue
  /\ UNCHANGED <<setup, minute, feeds>>
Quote ==
  /\ Streaming /\ feeds.parts["quote"].status = "pending" /\ \E r \in Active(feeds, "quote") : Emit(Event("quote", r, "none", FALSE))
  /\ UNCHANGED <<setup, minute, feeds, lost, bounds>>
\* History reaches to the minute it is asked for: that of the answer, for the latest.
Answer(u) ==
  /\ feeds.connected
  /\ \E r \in Active(feeds, u) :
       /\ Emit([Event("end", r, "none", FALSE) EXCEPT !.minute = IF u = "latest" THEN minute ELSE feeds.requests[r].from])
       /\ feeds' = Retire(feeds, {r}, "completed")
  /\ UNCHANGED <<setup, minute, lost, bounds>>
DataError ==
  /\ Spend("errors") /\ feeds.connected
  /\ \E c \in setup.causes : \E r \in Active(feeds, c[1]) :
       Emit(Event("error", r, c[2], FALSE)) /\ feeds' = Retire(feeds, {r}, "failed")
  /\ UNCHANGED <<setup, minute, lost>>
Connectivity ==
  /\ Spend("outages") /\ Streaming /\ \E type \in setup.outages : Emit(Event(type, 0, "none", FALSE))
  /\ UNCHANGED <<setup, minute, feeds, lost>>
\* A new connection starts with new requests, and the contract is resolved again.
Reconnect ==
  /\ ~feeds.connected /\ feeds' = [Retire(feeds, DOMAIN feeds.requests, "forgotten") EXCEPT !.connected = TRUE, !.wanted = feeds.subscribed]
  /\ UNCHANGED <<setup, minute, queue, lost, bounds>>
Resolve ==
  /\ feeds.connected /\ ~feeds.resolved /\ feeds' = [feeds EXCEPT !.resolved = TRUE]
  /\ UNCHANGED <<setup, minute, queue, lost, bounds>>
\* Time passes, after the engine has done what it could, and the broker has answered unless it is
\* silent: what waits is due.  After the last minute only the age of the requests changes.
Due(state) == IF state.retry = "waiting" THEN [state EXCEPT !.retry = "due"] ELSE state
Tick ==
  /\ queue # <<>> => setup.slow /\ Head(queue).minute = minute
  /\ feeds.subscribed => feeds.maintained
  /\ \A k \in Units \ setup.silent : Active(feeds, k) = {}
  /\ minute' = Min({minute + 1, setup.last})
  /\ feeds' = [feeds EXCEPT !.paced = FALSE, !.historyPaced = FALSE, !.maintained = FALSE, !.repair = feeds.subscribed,
                            !.age = IF minute < setup.last THEN @ ELSE Min({@ + 1, setup.patience + 1}),
                            !.parts = [p \in Parts |-> Due(@[p])], !.units = [u \in Units |-> Due(@[u])]]
  /\ UNCHANGED <<setup, queue, lost, bounds>>
Asked(state) == [state EXCEPT !.retry = IF @ = "none" THEN "due" ELSE @, !.automatic = FALSE, !.manual = TRUE]
RetryFeeds ==
  /\ Spend("asks") /\ feeds.connected /\ feeds.subscribed
  /\ \E C \in {Parts, Units} :
       LET chosen(t) == IF t.status = "failed" /\ ~t.manual THEN Asked(t) ELSE t IN
       feeds' = [feeds EXCEPT !.parts = [p \in Parts |-> IF p \in C THEN chosen(@[p]) ELSE @[p]],
                              !.units = [u \in Units |-> IF u \in C THEN chosen(@[u]) ELSE @[u]]]
  /\ UNCHANGED <<setup, minute, queue, lost>>
Subscribe ==
  /\ feeds.connected /\ feeds.resolved /\ ~feeds.subscribed
  /\ LET waits == SubscribeWaits(feeds)
         g == IF waits THEN feeds ELSE BrokerSubscribe(feeds) IN
     feeds' = QueueHistory([g EXCEPT !.subscribed = TRUE, !.wanted = waits, !.parts = [p \in Parts |-> New], !.repair = FALSE])
  /\ UNCHANGED <<setup, minute, queue, lost, bounds>>
\* Nothing may depend on the contract; every request is cancelled or no longer counts.
Unsubscribe ==
  /\ Spend("removals") /\ feeds.subscribed /\ feeds.run = "off"
  /\ feeds' = [Retire(Cancel(feeds, Kinds), {r \in DOMAIN feeds.requests : feeds.requests[r].state = "completed"}, "superseded")
       EXCEPT !.subscribed = FALSE, !.wanted = FALSE, !.jobs = {}, !.pending = {}, !.repairs = {}, !.loaded = FALSE, !.warm = FALSE,
              !.repair = FALSE, !.first = 0, !.refused = FALSE, !.maintained = FALSE, !.units = [u \in Units |-> Absent], !.parts = [p \in Parts |-> New]]
  /\ UNCHANGED <<setup, minute, queue, lost>>
\* Entries are authorized, or resumed, when the data is.
Authorize ==
  /\ Healthy(feeds) /\ feeds' = [feeds EXCEPT !.run = "armed"]
  /\ \/ feeds.run = "suspended" /\ UNCHANGED bounds
     \/ feeds.run = "off" /\ Spend("arms")
  /\ UNCHANGED <<setup, minute, queue, lost>>

\* A contract that has been followed since minute 1, continuous at minute 2.
Done == [New EXCEPT !.status = "completed"]
Warmed(f) ==
  [f EXCEPT !.subscribed = TRUE, !.requests = [k \in 1..4 |-> [kind |-> <<"quote", "trade", "session", "latest">>[k], from |-> IF k = 3 THEN 1 ELSE 0,
                state |-> IF k < 3 THEN "active" ELSE "completed", since |-> IF k < 3 THEN 0 ELSE k - 2]],
            !.parts = [p \in Parts |-> [New EXCEPT !.status = "healthy"]], !.units = [u \in Units |-> [Done EXCEPT !.repair = u = "latest"]],
            !.loaded = TRUE, !.warm = TRUE, !.repair = TRUE, !.bars = 2, !.first = 1, !.asked = 1]
Fresh == [connected |-> TRUE, resolved |-> TRUE, subscribed |-> FALSE, wanted |-> FALSE, requests |-> <<>>,
              parts |-> [p \in Parts |-> New], units |-> [u \in Units |-> Absent], jobs |-> {}, pending |-> {}, repairs |-> {},
              loaded |-> FALSE, warm |-> FALSE, repair |-> FALSE, bars |-> 0, first |-> 0, run |-> "off", paced |-> FALSE,
              historyPaced |-> FALSE, asked |-> 0, refused |-> FALSE, maintained |-> FALSE, age |-> 0]
Init ==
  /\ setup \in Setups /\ bounds = setup.bounds /\ queue = <<>> /\ lost = 0
  /\ minute = (IF setup.warm THEN 2 ELSE 1) /\ feeds = (IF setup.warm THEN Warmed(Fresh) ELSE Fresh)
\* A broker that is not silent answers in the end; a connection that is requested is made.
AnswerInTime == \E u \in Units \ setup.silent : Answer(u)
Recover == Reconnect \/ Resolve
Next ==
  \/ Maintain \/ Observe \/ Trade \/ Quote \/ (\E u \in Units : Answer(u)) \/ DataError \/ Connectivity \/ Recover \/ Tick
  \/ RetryFeeds \/ Subscribe \/ Unsubscribe \/ Authorize
Spec == Init /\ [][Next]_vars /\ WF_vars(Maintain) /\ WF_vars(Observe) /\ WF_vars(Recover) /\ WF_vars(Tick) /\ WF_vars(AnswerInTime)

-----------------------------------------------------------------------------
(* Properties.                                                             *)

TypeOK ==
  /\ minute \in 1..setup.last /\ lost \in 0..setup.last /\ Len(queue) <= setup.queue
  /\ feeds.pending \subseteq DOMAIN feeds.requests /\ feeds.repairs \subseteq feeds.pending /\ feeds.jobs \subseteq Units
  /\ feeds.run \in {"off", "armed", "suspended"} /\ feeds.first \in 0..setup.last /\ feeds.bars \in -1..setup.last
  /\ \A p \in Parts : feeds.parts[p].status \in {"pending", "healthy", "failed"} /\ feeds.parts[p].attempts \in 0..setup.attempts
  /\ \A u \in Units : feeds.units[u].status \in {"absent", "queued", "pending", "completed", "failed"} /\ feeds.units[u].attempts \in 0..setup.attempts

\* The history requests that are open at the broker are those that the engine waits for, never more
\* than its capacity, whatever timed out, failed or was started again.
OpenIsAwaited ==
  LET open == UNION {Active(feeds, u) : u \in Units} IN
  feeds.connected => open \subseteq feeds.pending /\ Cardinality(open) <= setup.capacity
\* Candles that are called continuous miss no trade: every trade that was not recorded is older than
\* the history, unless the news of its loss is still to be observed.
WarmMissesNothing ==
  feeds.warm /\ (\A i \in DOMAIN queue : queue[i].type \in {"quote", "tick", "end"}) => lost < feeds.bars
\* A run that may enter has candles that are continuous and feeds that have not failed.
ArmedHasData == feeds.run = "armed" => feeds.warm /\ feeds.connected /\ \A p \in Parts : feeds.parts[p].status # "failed"
\* A feed becomes healthy, and a part of the history complete, only by an observation of the last
\* request made for it: an answer that a timeout, a retry or a removal has overtaken counts for nothing.
LatestRequestCounts ==
  \A k \in Kinds :
    LET before == IF k \in Parts THEN feeds.parts[k].status = "healthy" ELSE feeds.units[k].status = "completed"
        after == IF k \in Parts THEN feeds'.parts[k].status = "healthy" ELSE feeds'.units[k].status = "completed" IN
    ~before /\ after =>
      /\ queue # <<>> /\ feeds.requests[Head(queue).request].kind = k
      /\ feeds.requests[Head(queue).request].state \in {"active", "completed"}
      /\ \A r \in DOMAIN feeds.requests : r > Head(queue).request => feeds.requests[r].kind # k
Owed == feeds.subscribed /\ feeds.connected /\ feeds.units["session"].status \in {"queued", "pending"}
Over == ~feeds.subscribed \/ ~feeds.connected \/ feeds.units["session"].status = "completed"
        \/ (feeds.units["session"].status = "failed" /\ feeds.units["session"].retry = "none")
\* The history that was asked for is complete in the end, or has failed for good, or is no longer
\* wanted: a broker that never answers cannot keep it open.
HistorySettles == Owed ~> Over
=============================================================================
