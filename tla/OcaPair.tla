------------------------------ MODULE OcaPair ------------------------------
(***************************************************************************)
(* Paired entries of one run (oca_engine.py, broker_oca.py): each candle   *)
(* may bring a pair, a buy stop above and a sell stop below, each the      *)
(* parent of its own protective stop.  The entries are one OCA group: the  *)
(* first fill is to cancel the other.  The engine refreshes the pair every *)
(* minute, follows the first fill with an amended stop, and completes the  *)
(* pair when it is flat.                                                   *)
(*                                                                         *)
(* An engine step is a function from an engine record to the next one:     *)
(* reconciliation and maintenance apply the same steps to every pair.      *)
(***************************************************************************)
EXTENDS Integers, Sequences, FiniteSets, FiniteSetsExt

CONSTANTS Quantity,      \* shares of each branch
          MaxPairs,      \* bound: candles, and so pairs
          MaxRepairs,    \* bound: replacement stops of a pair
          Budgets        \* bounds: [candles, armed, overfills, troubles] of a behaviour; armed are
                         \* the authorizations of the run, overfills
                         \* shares of losing entries that fill before their cancellation, troubles
                         \* orders the broker ends by itself, calls that raise, late answers,
                         \* fills beyond the risk cap and authorizations withdrawn

ASSUME PairAssumption ==
  /\ Quantity \in Nat \ {0} /\ MaxPairs \in Nat \ {0} /\ MaxRepairs \in 0..2
  /\ Budgets \subseteq [candles : 0..MaxPairs, armed : Nat \ {0}, overfills : Nat, troubles : Nat]

VARIABLES
  engine,      \* durable: groups, rows, amendments, repairs, the run, cancellations, incidents
  candidate,   \* durable: the last candle [pair, skipped] and its credit preview
  expired,     \* the clock: pairs whose deadline has passed
  sending,     \* engine thread inside submit_pair: [pair, step]
  reconciled,  \* engine
  doc,         \* broker_order documents
  executed,    \* shares of the executions received
  agreement,   \* engine: position_agreement, the last snapshot's positions were the owned ones
  status,      \* broker: orders
  filled,      \* broker: their filled shares
  size,        \* broker: their quantities
  stop,        \* broker: the trigger that was "planned", or the one that follows the "fill"
  told,        \* broker: cancellations the adapter itself sent
  bounds       \* the candles of the behaviour, and the overfills and troubles left of its budget

ledger == <<doc, executed, agreement>>
broker == <<status, filled, size, stop, told>>
vars   == <<engine, candidate, expired, sending, reconciled, ledger, broker, bounds>>

Pairs == 1..MaxPairs
Sides == {"long", "short"}
Other(s)     == IF s = "long" THEN "short" ELSE "long"
Entry(p, s)  == <<p, s, "entry">>
Stop(p, s)   == <<p, s, "stop">>
Turn         == <<"first", "second">>   \* the replacement stops of a pair
Repairs(p)   == {<<p, Turn[i], "stop">> : i \in 1..MaxRepairs}
EntriesOf(p) == {Entry(p, s) : s \in Sides}
LegsOf(p)    == EntriesOf(p) \cup {Stop(p, s) : s \in Sides}
OrdersOf(p)  == LegsOf(p) \cup Repairs(p)
Orders       == UNION {OrdersOf(p) : p \in Pairs}

TERMINAL == {"Filled", "Cancelled", "Rejected"}

\* What a pair holds by the shares of its orders; repairs close what the entries opened.
Holding(shares, p) ==
  LET closed[i \in 0..MaxRepairs] ==
        IF i = 0 THEN 0 ELSE closed[i - 1] + shares[<<p, Turn[i], "stop">>]
      net == shares[Entry(p, "long")] - shares[Stop(p, "long")]
             - shares[Entry(p, "short")] + shares[Stop(p, "short")]
  IN  IF shares[Entry(p, "long")] > 0 THEN net - closed[MaxRepairs] ELSE net + closed[MaxRepairs]
Position(shares) ==
  LET sum[p \in 0..MaxPairs] == IF p = 0 THEN 0 ELSE sum[p - 1] + Holding(shares, p)
  IN  sum[MaxPairs]
Owned == Position(executed)
Held  == Position(filled)
Abs(q) == IF q < 0 THEN -q ELSE q

Unseen      == [status |-> "none", filled |-> 0, size |-> 0, stop |-> "planned"]
NoAmendment == [state |-> "none", order |-> <<>>, size |-> 0, sent |-> FALSE]
NoCandle    == [pair |-> 0, skipped |-> FALSE, preview |-> "none"]
Idle        == [pair |-> 0, step |-> "idle"]

Init ==
  /\ engine = [state |-> [p \in Pairs |-> "none"], row |-> [p \in Pairs |-> "none"],
               winner |-> [p \in Pairs |-> "none"], counted |-> {},
               authorization |-> [p \in Pairs |-> 0], entries |-> 0,
               amendment |-> [p \in Pairs |-> NoAmendment], repair |-> [p \in Pairs |-> <<>>],
               request |-> {}, armed |-> TRUE, current |-> 1, incident |-> FALSE]
  /\ candidate = NoCandle /\ expired = {} /\ sending = Idle /\ reconciled = TRUE
  /\ doc = [o \in Orders |-> Unseen] /\ executed = [o \in Orders |-> 0] /\ agreement = TRUE
  /\ status = [o \in Orders |-> "none"] /\ filled = [o \in Orders |-> 0]
  /\ size = [o \in Orders |-> 0] /\ stop = [o \in Orders |-> "planned"] /\ told = {}
  /\ bounds \in Budgets

-----------------------------------------------------------------------------
(* The broker.                                                             *)

Trouble == bounds.troubles > 0 /\ bounds' = [bounds EXCEPT !.troubles = @ - 1]

\* A child of an entry that filled nothing goes with it; of a part, it may stay for that part.
Ends(o, how, kept) ==
  LET child == Stop(o[1], o[2])
      goes  == o[3] = "entry" /\ ~kept /\ status[child] \in {"staged", "active"}
  IN  /\ kept => o[3] = "entry" /\ filled[o] > 0
      /\ status' = [q \in Orders |-> IF q = o THEN how
                                     ELSE IF goes /\ q = child THEN "Cancelled" ELSE status[q]]
      /\ size' = IF kept THEN [size EXCEPT ![child] = Min({@, filled[o]})] ELSE size
      /\ UNCHANGED <<filled, stop, told>>

BrokerRejects(o) ==
  /\ status[o] \in {"staged", "coming"} /\ Trouble /\ Ends(o, "Rejected", FALSE)
  /\ UNCHANGED <<engine, candidate, expired, sending, reconciled, ledger>>

BrokerAccepts(o) ==
  /\ status[o] = "coming" /\ status' = [status EXCEPT ![o] = "active"]
  /\ UNCHANGED <<engine, candidate, expired, sending, reconciled, ledger, filled, size, stop, told,
                 bounds>>

\* A working order ends: asked for, with its deadline or the fill of the other entry, or by itself.
BrokerEnds(o) ==
  /\ status[o] = "active" \/ (status[o] = "staged" /\ o \in engine.request \cup told)
  /\ \/ /\ \/ o \in engine.request \cup told
           \/ o[3] = "entry" /\ (o[1] \in expired \/ filled[Entry(o[1], Other(o[2]))] > 0)
        /\ bounds' = bounds
     \/ Trouble
  /\ \E kept \in BOOLEAN : Ends(o, "Cancelled", kept)
  /\ UNCHANGED <<engine, candidate, expired, sending, reconciled, ledger>>

EntryFills(p, s) ==
  LET o == Entry(p, s)
      over == filled[Entry(p, Other(s))] > 0
  IN /\ status[o] = "active"
     /\ over => bounds.overfills > 0
     /\ bounds' = IF over THEN [bounds EXCEPT !.overfills = @ - 1] ELSE bounds
     /\ filled' = [filled EXCEPT ![o] = @ + 1]
     /\ status' = IF filled'[o] = size[o] THEN [status EXCEPT ![o] = "Filled"] ELSE status
     /\ UNCHANGED <<engine, candidate, expired, sending, reconciled, ledger, size, stop, told>>

\* A stop works when its parent is over.
StopFills(o) ==
  /\ status[o] = "active" /\ filled[o] < size[o]
  /\ o[2] \in Sides => status[Entry(o[1], o[2])] \in TERMINAL
  /\ filled' = [filled EXCEPT ![o] = @ + 1]
  /\ status' = IF filled'[o] = size[o] THEN [status EXCEPT ![o] = "Filled"] ELSE status
  /\ UNCHANGED <<engine, candidate, expired, sending, reconciled, ledger, size, stop, told, bounds>>

BrokerAmends(p) ==
  LET a == engine.amendment[p]
  IN /\ a.state = "pending" /\ a.sent /\ status[a.order] = "active"
     /\ <<size[a.order], stop[a.order]>> # <<a.size, "fill">>
     /\ size' = [size EXCEPT ![a.order] = a.size]
     /\ stop' = [stop EXCEPT ![a.order] = "fill"]
     /\ status' = IF a.size <= filled[a.order] THEN [status EXCEPT ![a.order] = "Filled"] ELSE status
     /\ UNCHANGED <<engine, candidate, expired, sending, reconciled, ledger, filled, told, bounds>>

-----------------------------------------------------------------------------
(* Steps of the engine, on its record.                                     *)

Disarm(e) == [e EXCEPT !.armed = FALSE]
Alarm(e)  == [e EXCEPT !.incident = TRUE]

\* Cancellations are asked of orders not known to be over, once.
Ask(e, S) == [e EXCEPT !.request = @ \cup {o \in S : doc[o].status \notin TERMINAL}]

Cancel_AtOnce(e, p) == Ask([e EXCEPT !.state[p] = "cancelled"], EntriesOf(p))
Cancel_Legs(e, p)   == Ask([e EXCEPT !.state[p] = "cancelling"], LegsOf(p))

\* Only the parents: a child can be the sole protection of a late fill.
Cancel(e, p) == Ask([e EXCEPT !.state[p] = "cancelling"], EntriesOf(p))

AllEnded(S)  == \A o \in S : doc[o].status \in TERMINAL
AllActive(S) == \A o \in S : doc[o].status = "active"

\* No execution yet: a rejected leg cancels the pair, ended legs without a fill end it.
Unfilled(e, p) ==
  LET legs == LegsOf(p)
      f == IF \E o \in legs : doc[o].status = "Rejected" THEN Cancel(Alarm(e), p) ELSE e
  IN  IF AllEnded(legs)
      THEN IF \E o \in legs : doc[o].filled > 0 THEN f
           ELSE [f EXCEPT !.state[p] = "cancelled", !.row[p] = "cancelled"]
      ELSE IF e.state[p] = "reserved" /\ AllActive(legs)
           THEN [f EXCEPT !.state[p] = "working", !.row[p] = "working"]
      ELSE f

\* The first replacement counts as the protection, also when it was replaced in turn.
Related(e, p)      == {<<p, Turn[i], "stop">> : i \in 1..Len(e.repair[p])}
ProtectionOf(e, p) == IF e.repair[p] # <<>> THEN <<p, "first", "stop">> ELSE Stop(p, e.winner[p])

\* The working stop has the trigger of the fill and what is left of it is the position.
Matches(o, q) ==
  doc[o].status = "active" /\ doc[o].stop = "fill" /\ doc[o].size - doc[o].filled = Abs(q)

\* Another stop only when every leg and every earlier repair is known to be over.
RepairStop(e, p, q, how) ==
  IF agreement /\ AllEnded(LegsOf(p) \cup Related(e, p)) /\ Len(e.repair[p]) < MaxRepairs
  THEN LET f == [e EXCEPT !.repair[p] = Append(@, Abs(q)), !.amendment[p] = NoAmendment]
       IN  IF how = "raises" THEN Alarm(f) ELSE f
  ELSE e

UpdateProtection(e, p, q, how) ==
  LET o == ProtectionOf(e, p)
      a == e.amendment[p]
  IN  IF Matches(o, q)
      THEN IF a.state = "pending" THEN [e EXCEPT !.amendment[p].state = "acknowledged"] ELSE e
      ELSE IF a.state = "pending" THEN IF how = "late" THEN Alarm(e) ELSE e
      ELSE IF doc[o].status \in TERMINAL THEN RepairStop(e, p, q, how)
      ELSE IF doc[o].status # "active" \/ ~agreement THEN e
      ELSE LET f == [e EXCEPT !.amendment[p] =
                       [state |-> "pending", order |-> o, size |-> Abs(q), sent |-> how # "raises"]]
           IN  IF how = "raises" THEN Alarm(f) ELSE f

\* The first executions choose the side, count the trade and cancel the rest of the entries.
Selected(e, p, s) ==
  LET f == [e EXCEPT !.winner[p] = s, !.row[p] = "filled", !.counted = @ \cup {p},
                     !.entries = IF p \in e.counted THEN @ ELSE @ + 1]
      orphan == {o \in {Stop(p, Other(s))} : doc[o].status = "active"}
  IN  Ask(f, EntriesOf(p) \cup orphan)

Sync_OneSide(e, p, how) ==
  LET sides == {s \in Sides : executed[Entry(p, s)] > 0}
  IN  IF e.state[p] = "none" THEN e ELSE IF sides = {} THEN Unfilled(e, p)
      ELSE Selected(e, p, CHOOSE x \in sides : TRUE)

Sync(e, p, how) ==
  LET sides == {s \in Sides : executed[Entry(p, s)] > 0}
      s == CHOOSE x \in sides : TRUE
      q == Owned
  IN  IF e.state[p] = "none" THEN e
      ELSE IF sides = Sides THEN Disarm(Alarm([e EXCEPT !.state[p] = "uncertain"]))
      ELSE IF sides = {} THEN Unfilled(e, p)
      ELSE IF q = 0 THEN Selected(e, p, s)
      ELSE LET f == [Selected(e, p, s) EXCEPT !.state[p] = "position_open"]
           IN  IF Abs(q) > executed[Entry(p, s)] \/ (q > 0) # (s = "long") THEN Alarm(f)
               ELSE LET g == UpdateProtection(f, p, q, how)
                    IN  IF how = "gap" THEN Disarm(Alarm(g)) ELSE g

\* The pair that opened the position.
Opener == CHOOSE p \in Pairs : /\ Holding(executed, p) # 0
                               /\ \A r \in Pairs : r > p => Holding(executed, r) = 0

Verified(e, p, q) == e.winner[p] # "none" /\ Matches(ProtectionOf(e, p), q)

\* A stop of the whole position whose amendment is on its way is no incident yet.
Provisional(e, p, q, how) ==
  /\ e.winner[p] # "none"
  /\ LET o == Stop(p, e.winner[p])
     IN  doc[o].status = "active" /\ doc[o].size - doc[o].filled = Abs(q)
  /\ e.amendment[p].state = "none" \/ how # "late"

\* A position without verified protection raises an incident and is protected again.
Protect(e, how) ==
  LET q == Owned
      p == Opener
  IN  IF q = 0 THEN e
      ELSE IF agreement /\ Verified(e, p, q) THEN e
      ELSE LET f == IF Provisional(e, p, q, how) THEN e ELSE Alarm(e)
           IN  IF e.winner[p] = "none" THEN f ELSE UpdateProtection(f, p, q, how)

Completed_Flat(e, p, ready) ==
  IF /\ e.state[p] \notin {"none", "complete"} /\ e.winner[p] # "none" /\ Owned = 0 /\ ready
  THEN Disarm([e EXCEPT !.state[p] = "complete"])
  ELSE e

\* A flat pair whose orders are all over is complete: the run needs a new authorization.
Completed(e, p, ready) ==
  IF /\ e.state[p] \notin {"none", "complete"} /\ e.winner[p] # "none"
     /\ Owned = 0 /\ ready /\ AllEnded(LegsOf(p) \cup Related(e, p))
  THEN LET f == [e EXCEPT !.state[p] = "complete"]
       IN  IF e.authorization[p] = e.current THEN Disarm(f) ELSE f
  ELSE e

\* Every pair of the run in turn.
Synced(e, how) ==
  LET to[p \in 0..MaxPairs] == IF p = 0 THEN e ELSE Sync(to[p - 1], p, how) IN to[MaxPairs]
Finished(e, ready) ==
  LET to[p \in 0..MaxPairs] == IF p = 0 THEN e ELSE Completed(to[p - 1], p, ready)
  IN  to[MaxPairs]

-----------------------------------------------------------------------------
(* Callbacks.                                                              *)

Reported(o) == [status |-> status[o], filled |-> filled[o], size |-> size[o], stop |-> stop[o]]
Visible(o)  == status[o] \notin {"none", "coming", "staged"}

ObserveOrder(o) ==
  /\ sending = Idle /\ Visible(o) /\ doc[o] # Reported(o)
  /\ doc' = [doc EXCEPT ![o] = Reported(o)] /\ reconciled' = FALSE
  /\ UNCHANGED <<engine, candidate, expired, sending, executed, agreement, broker, bounds>>

ObserveExecution_Again(o) ==
  /\ sending = Idle /\ filled[o] > 0 /\ executed[o] < 2
  /\ executed' = [executed EXCEPT ![o] = @ + 1] /\ agreement' = FALSE /\ reconciled' = FALSE
  /\ UNCHANGED <<engine, candidate, expired, sending, doc, broker, bounds>>

ObserveExecution(o) ==
  /\ sending = Idle /\ executed[o] < filled[o]
  /\ executed' = [executed EXCEPT ![o] = @ + 1] /\ agreement' = FALSE /\ reconciled' = FALSE
  /\ UNCHANGED <<engine, candidate, expired, sending, doc, broker, bounds>>

ObservePosition ==
  /\ sending = Idle /\ reconciled /\ Held # Owned /\ agreement' = FALSE /\ reconciled' = FALSE
  /\ UNCHANGED <<engine, candidate, expired, sending, doc, executed, broker, bounds>>

-----------------------------------------------------------------------------
(* The engine.                                                             *)

\* A replacement reaches the broker, unless its submission raised before.
Sent(e, how) ==
  LET new == {o \in Orders : o[3] = "stop" /\ \E p \in Pairs : o \in Related(e, p) \ Related(engine, p)}
  IN \E S \in {new} \cup (IF how = "raises" THEN {{}} ELSE {}) :
       /\ status' = [o \in Orders |-> IF o \in S THEN "coming" ELSE status[o]]
       /\ size'   = [o \in Orders |-> IF o \in S THEN e.repair[o[1]][IF o[2] = "first" THEN 1 ELSE 2] ELSE size[o]]
       /\ stop'   = [o \in Orders |-> IF o \in S THEN "fill" ELSE stop[o]]
       /\ UNCHANGED <<filled, told>>

Dispatches(e) == <<e.amendment, e.repair>> # <<engine.amendment, engine.repair>>
Ways == {"plain"} \cup (IF bounds.troubles > 0 /\ Owned # 0 THEN {"late", "raises", "gap"} ELSE {})
Went(e, how) ==
  /\ how = "raises" => Dispatches(e)
  /\ IF how = "plain" THEN UNCHANGED bounds ELSE Trouble

\* A pair without a fill is cancelled when it may no longer stand.
Stale(e, p, x) ==
  e.state[p] \in {"reserved", "working"} /\ e.winner[p] = "none" /\ (~e.armed \/ p \in x)
Maintained(e, x, how) ==
  LET to[p \in 0..MaxPairs] ==
        IF p = 0 THEN e
        ELSE LET f == Sync(to[p - 1], p, how) IN IF Stale(f, p, x) THEN Cancel(f, p) ELSE f
  IN to[MaxPairs]

\* The pair of the last candle may be sent: nothing else of the run stands.
Wanted(e, c, x) ==
  /\ e.armed /\ c.pair # 0 /\ ~c.skipped /\ c.pair \notin x
  /\ e.state[c.pair] = "none" /\ \A p \in Pairs : e.state[p] \in {"none", "cancelled", "complete"}
Ready(e) == /\ reconciled' /\ ~e.incident
            /\ \A p \in e.counted : e.authorization[p] # e.current

Blocked(c)   == candidate' = c /\ UNCHANGED sending
Skipped(c)   == candidate' = [c EXCEPT !.skipped = TRUE] /\ UNCHANGED sending
Previewed(c) == c.preview = "none" /\ candidate' = [c EXCEPT !.preview = "pending"] /\ UNCHANGED sending
Reserved(e, c) ==
  /\ c.preview = "accepted"
  /\ engine' = [e EXCEPT !.state[c.pair] = "reserved", !.row[c.pair] = "dispatching",
                         !.authorization[c.pair] = e.current]
  /\ sending' = [pair |-> c.pair, step |-> "stage"] /\ candidate' = c

\* The last local gate refuses: the row and the pair are retired before anything is sent.
Retired(e, c) ==
  /\ c.preview = "accepted" /\ Blocked(c)
  /\ engine' = [e EXCEPT !.state[c.pair] = "cancelled", !.row[c.pair] = "cancelled",
                         !.authorization[c.pair] = e.current]

\* Fresh data, prices and borrow may block the candle; a price at a trigger skips it.
Submit(e, c, x) ==
  \/ ~Wanted(e, c, x) /\ Blocked(c) /\ engine' = e
  \/ Wanted(e, c, x) /\ (Blocked(c) \/ (Ready(e) /\ (Skipped(c) \/ Previewed(c)))) /\ engine' = e
  \/ Wanted(e, c, x) /\ Ready(e) /\ (Reserved(e, c) \/ Retired(e, c))

Pass(c, x) ==
  \E how \in Ways :
    LET e == Maintained(engine, x, how)
        touched == Dispatches(e) \/ e.request # engine.request
    IN /\ Went(e, how) /\ Sent(e, how)
       /\ reconciled' = (reconciled /\ ~touched)
       /\ Submit(e, c, x)
       /\ UNCHANGED <<doc, executed, agreement>>

Maintain == sending = Idle /\ Pass(candidate, expired) /\ UNCHANGED expired

\* A closed live candle replaces the last one, whose deadline passed with it.
NewCandle ==
  /\ sending = Idle /\ engine.armed /\ candidate.pair < bounds.candles
  /\ expired' = 1..candidate.pair
  /\ Pass([NoCandle EXCEPT !.pair = candidate.pair + 1], 1..candidate.pair)

\* Also a live price that went stale; before the pair stands either only blocks it (Blocked).
Expire ==
  /\ candidate.pair # 0 /\ engine.state[candidate.pair] # "none" /\ candidate.pair \notin expired /\ expired' = expired \cup {candidate.pair}
  /\ UNCHANGED <<engine, candidate, sending, reconciled, ledger, broker, bounds>>

CreditPreview ==
  /\ candidate.preview = "pending" /\ sending = Idle
  /\ \E answer \in {"accepted", "rejected"} : candidate' = [candidate EXCEPT !.preview = answer]
  /\ UNCHANGED <<engine, expired, sending, reconciled, ledger, broker, bounds>>

\* submit_pair: four orders staged, then each side released with its stop.
Stage ==
  /\ sending.step = "stage" /\ sending' = [sending EXCEPT !.step = "long"]
  /\ LET legs == LegsOf(sending.pair)
     IN /\ status' = [o \in Orders |-> IF o \in legs THEN "staged" ELSE status[o]]
        /\ size' = [o \in Orders |-> IF o \in legs THEN Quantity ELSE size[o]]
  /\ UNCHANGED <<engine, candidate, expired, reconciled, ledger, filled, stop, told, bounds>>

Returned == sending' = Idle /\ reconciled' = FALSE
After(s) == IF s = "long"
            THEN sending' = [sending EXCEPT !.step = "short"] /\ UNCHANGED reconciled
            ELSE Returned

\* What the reader thread has noted of the pair while the engine thread sends it.
Release(s) ==
  /\ sending.step = s
  /\ LET p == sending.pair
         mine == {Entry(p, s), Stop(p, s)}
     IN \E ended \in SUBSET {o \in LegsOf(p) : status[o] \in TERMINAL},
           fills \in SUBSET {o \in EntriesOf(p) : filled[o] > 0} :
          IF fills = {} /\ ended # {}
          THEN told' = told \cup EntriesOf(p) /\ Returned /\ UNCHANGED status
          ELSE IF (fills # {} /\ Entry(p, s) \notin fills) \/ mine \cap ended # {}
          THEN told' = told \cup {Entry(p, s)} /\ After(s) /\ UNCHANGED status
          ELSE /\ After(s) /\ UNCHANGED told
               /\ status' = [o \in Orders |-> IF o \in mine /\ status[o] = "staged" THEN "active"
                                             ELSE status[o]]
  /\ UNCHANGED <<engine, candidate, expired, doc, executed, agreement, filled, size, stop, bounds>>

Interrupted ==
  /\ sending # Idle /\ Trouble
  /\ engine' = Alarm([engine EXCEPT !.row[sending.pair] = "unknown"]) /\ Returned
  /\ UNCHANGED <<candidate, expired, doc, executed, agreement, broker>>

Identified(e) ==
  \A p \in Pairs : \A o \in {x \in LegsOf(p) : doc[x].status # "none"} :
    LET won == o = Stop(p, e.winner[p])
        a   == e.amendment[p]
    IN /\ doc[o].size \in {Quantity} \cup (IF won /\ a.order = o THEN {a.size} ELSE {})
       /\ doc[o].stop = "planned" \/ won
FillsAgree == \A o \in Orders : doc[o].status # "none" => doc[o].filled = executed[o]
Certain(e) == \A p \in Pairs : e.row[p] \notin {"dispatching", "unknown"}

\* A complete snapshot, which anything new of the broker would have superseded.
Reconcile ==
  /\ sending = Idle /\ executed = filled /\ \A o \in Orders : Visible(o) => doc[o] = Reported(o)
  /\ \E how \in Ways :
       LET e == Synced(engine, how)
           known == Identified(e) /\ FillsAgree
           covered == Owned # 0 => Verified(e, Opener, Owned)
           g == IF known THEN Protect(e, how) ELSE e
           ready == known /\ covered /\ Certain(e)
           h == Finished(g, ready)
       IN engine' = h /\ reconciled' = ready /\ Went(h, how) /\ Sent(h, how)
  /\ agreement' = TRUE
  /\ UNCHANGED <<candidate, expired, sending, doc, executed>>

\* The operator arms the run again when everything of it has ended.
Rearm ==
  /\ sending = Idle /\ ~engine.armed /\ engine.current < bounds.armed
  /\ reconciled /\ ~engine.incident /\ Owned = 0
  /\ \A p \in Pairs : engine.state[p] \in {"none", "cancelled", "complete"}
  /\ engine' = [engine EXCEPT !.armed = TRUE, !.current = @ + 1]
  /\ candidate' = [candidate EXCEPT !.skipped = TRUE]
  /\ UNCHANGED <<expired, sending, reconciled, ledger, broker, bounds>>

Disarms ==
  /\ sending = Idle /\ engine.armed /\ engine' = Disarm(engine) /\ Trouble
  /\ UNCHANGED <<candidate, expired, sending, reconciled, ledger, broker>>

BrokerNext ==
  \/ \E o \in Orders : BrokerRejects(o) \/ BrokerAccepts(o) \/ BrokerEnds(o) \/ StopFills(o)
  \/ \E p \in Pairs : BrokerAmends(p) \/ \E s \in Sides : EntryFills(p, s)

Next ==
  \/ BrokerNext
  \/ \E o \in Orders : ObserveOrder(o) \/ ObserveExecution(o)
  \/ ObservePosition
  \/ Maintain \/ NewCandle \/ Expire \/ CreditPreview
  \/ Stage \/ (\E s \in Sides : Release(s)) \/ Interrupted
  \/ Reconcile \/ Rearm \/ Disarms

Spec == Init /\ [][Next]_vars

-----------------------------------------------------------------------------
(* Properties.                                                             *)

LiveOrders(p) == {o \in OrdersOf(p) : status[o] \in {"staged", "coming", "active"}}

TypeOK ==
  /\ candidate.pair \in 0..MaxPairs /\ expired \subseteq Pairs
  /\ sending.step \in {"idle", "stage"} \cup Sides /\ sending.pair \in 0..MaxPairs
  /\ engine.counted \subseteq Pairs /\ engine.request \subseteq Orders /\ told \subseteq Orders
  /\ \A o \in Orders : /\ status[o] \in {"none", "coming", "staged", "active"} \cup TERMINAL
                       /\ 0 <= executed[o] /\ executed[o] <= filled[o]

\* Refreshing never leaves two pairs at the broker.
OnePairAtWork == \A p, r \in Pairs : LiveOrders(p) # {} /\ LiveOrders(r) # {} => p = r

\* A pair that is done has nothing at the broker.
CompleteIsFlat ==
  \A p \in Pairs : engine.state[p] \in {"cancelled", "complete"} =>
    LiveOrders(p) = {} /\ Holding(filled, p) = 0

Overfilled(p) == \A s \in Sides : filled[Entry(p, s)] > 0

\* A stop is asked to be cancelled only when its entry bought or sold nothing.
ProtectionIsKept ==
  \A p \in Pairs, s \in Sides :
    Stop(p, s) \in engine.request => filled[Entry(p, s)] = 0 \/ Overfilled(p)

\* Once reconciled, a run whose two entries both executed is not armed.
OverfillDisarms ==
  reconciled /\ (\E p \in Pairs : \A s \in Sides : executed[Entry(p, s)] > 0) => ~engine.armed

Works(p) == \E o \in OrdersOf(p) : o[3] = "stop" /\ status[o] = "active"

\* PAPER_IMPLEMENTATION_REVIEW.md:19: competing exits would oversell.  Stops of two pairs stand
\* in two OCA groups, and each would close the whole position.
ExitsDoNotCompete == \A p, r \in Pairs : Works(p) /\ Works(r) => p = r
=============================================================================
