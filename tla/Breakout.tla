-------------------------------- MODULE Breakout --------------------------------
(***************************************************************************)
(* The simulation of a breakout of the opening range                       *)
(* (typed_strategy_simulation.py): a function of the trades of a dataset   *)
(* and of the envelope, the authorization, the policy and the context of   *)
(* the run.  A forward capture grows while it is simulated: a step of this *)
(* module supplies one more trade.  Prices are in ticks.                   *)
(***************************************************************************)
EXTENDS Integers, Sequences, FiniteSets, FiniteSetsExt, SequencesExt

CONSTANTS Setups      \* what is simulated: the envelope, policy and context, and the trades that may come

VARIABLES setup,
          trades,   \* [slot, price], the slots being intervals of the days in order
          result    \* of the last simulation
vars == <<setup, trades, result>>

\* A setup has: slots, a sequence of [day, part], part "opening", "open" or "closed" (outside the
\* session); the slot from which an exit at a time is due (or none); prices; most, the number of
\* trades; lifetime, expiry, the slot at which the authorization expires; live; slippage, chase,
\* loss, the maximum loss; and the caps shares, notional, power, exposure, positions, daily, risk.
Part(t) == setup.slots[t.slot].part
Day(t) == setup.slots[t.slot].day

-----------------------------------------------------------------------------
(* Sessions and the trigger.                                               *)

Days == {Day(trades[k]) : k \in DOMAIN trades}
\* The sessions that are searched: the first day only for a day entry.
Sessions == {d \in Days : (setup.lifetime = "DAY" => d = 1) /\ d <= setup.lastday}
Indices(d, p) == {k \in DOMAIN trades : Day(trades[k]) = d /\ Part(trades[k]) = p}
Prices(S) == {trades[k].price : k \in S}
High(d) == Max(Prices(Indices(d, "opening")))
Threshold(d) == High(d) + 1
Incomplete(d) == Indices(d, "opening") = {} \/ Indices(d, "open") = {}
Previous(d, k) == LET before == {j \in Indices(d, "open") : j < k} IN
  trades[IF before = {} THEN Max(Indices(d, "opening")) ELSE Max(before)].price
\* The price crosses the threshold from below, after the opening range.
Crossings(d) == {k \in Indices(d, "open") : Previous(d, k) < Threshold(d) /\ Threshold(d) <= trades[k].price}
\* The sessions in order: searched up to the first that is incomplete or triggers.
Decisive == {d \in Sessions : Incomplete(d) \/ Crossings(d) # {}}
DayLow_WholeDay(d, k) == Min(Prices(Indices(d, "opening") \cup Indices(d, "open")))
DayLow(d, k) == Min(Prices({j \in Indices(d, "opening") \cup Indices(d, "open") : j <= k}))

-----------------------------------------------------------------------------
(* Authorization, size and policy.                                         *)

ValidInputs == setup.valid   \* data complete, reconciled, no emergency stop, policy and fingerprint as armed
\* Live, the trigger itself must come before the authorization expires.
VerifyAuthorization(k) == setup.live => trades[k].slot < setup.expiry
\* A trade is never taken twice and never out of order.
InOrder == \A k, l \in DOMAIN trades : k < l => trades[k].slot <= trades[l].slot
ApplyPolicy(shares, notional) ==
  /\ setup.loss <= setup.risk /\ shares <= setup.shares /\ notional <= setup.notional /\ notional <= setup.power
  /\ setup.open < setup.positions /\ setup.held + notional <= setup.exposure /\ setup.lost + setup.loss <= setup.daily

Result(status, trigger) == [status |-> status, trigger |-> trigger, shares |-> 0, fill |-> 0, stop |-> 0, entry |-> 0, exit |-> 0, exited |-> 0]
\* The first trade of the session after the trigger fills the entry; it may only make it smaller.
FillOf(d, k) == LET later == {j \in Indices(d, "open") : j > k} IN IF later = {} THEN 0 ELSE Min(later)
Size(entry, stop) == setup.loss \div (entry - stop)
Due(j, f) == setup.due > 0 /\ trades[j].slot >= setup.due
\* Protection follows every trade after the fill, of later sessions too.
ExitOf(f, stop) == LET ends == {j \in DOMAIN trades : j > f /\ (trades[j].price <= stop \/ Due(j, f))} IN IF ends = {} THEN 0 ELSE Min(ends)
ExitPrice(j, stop) == LET p == trades[j].price IN
  CASE p <= stop -> IF stop < p - setup.slippage THEN stop ELSE p - setup.slippage
    [] OTHER -> p - setup.slippage

Filled(r, d, k, f, planned) ==
  LET stop == DayLow(d, k)
      entry == trades[f].price + setup.slippage
      shares == IF Size(entry, stop) < planned THEN Size(entry, stop) ELSE planned
      x == ExitOf(f, stop) IN
  CASE Due(f, f) -> Result("blocked", k)
    [] ~Due(f, f) /\ (entry <= stop \/ shares < 1 \/ ~ApplyPolicy(shares, entry * shares)) -> Result("blocked", k)
    [] OTHER -> [r EXCEPT !.shares = shares, !.fill = f, !.entry = entry,
                          !.status = IF x = 0 THEN "open" ELSE "closed", !.exited = x,
                          !.exit = IF x = 0 THEN 0 ELSE ExitPrice(x, stop)]
Triggered(d, k) ==
  LET stop == DayLow(d, k)
      conservative == trades[k].price + setup.slippage
      planned == Size(conservative, stop)
      f == FillOf(d, k)
      r == [Result("unfilled", k) EXCEPT !.shares = planned, !.stop = stop] IN
  CASE ~VerifyAuthorization(k) -> Result("blocked", k)
    [] VerifyAuthorization(k) /\ (conservative <= stop \/ planned < 1) -> Result("blocked", k)
    [] VerifyAuthorization(k) /\ conservative > stop /\ planned >= 1 /\ ~ApplyPolicy(planned, conservative * planned) -> Result("blocked", k)
    [] OTHER -> CASE f = 0 -> r
                  [] f # 0 /\ trades[f].price - trades[k].price > setup.chase -> [r EXCEPT !.status = "chase", !.fill = f]
                  [] OTHER -> Filled(r, d, k, f, planned)
Simulate ==
  CASE ~ValidInputs \/ ~InOrder \/ Sessions = {} -> Result("refused", 0)
    [] OTHER -> IF Decisive = {} THEN Result("untriggered", 0)
                ELSE CHOOSE r \in {IF Incomplete(d) THEN Result("refused", 0) ELSE Triggered(d, Min(Crossings(d))) : d \in {Min(Decisive)}} : TRUE

-----------------------------------------------------------------------------
Init == setup \in Setups /\ trades = <<>> /\ result = Result("refused", 0)
\* A dataset of a forward capture grows; the slot of a trade that comes late may be the one before.
Supply ==
  /\ Len(trades) < setup.most
  /\ \E s \in 1..Len(setup.slots), p \in setup.prices :
       /\ \A k \in DOMAIN trades : k = Len(trades) => s >= trades[k].slot - setup.late
       /\ trades' = Append(trades, [slot |-> s, price |-> p])
  /\ UNCHANGED <<setup, result>>
\* The simulation is asked for when the least that can decide anything is there, and after each trade.
SimulateBreakout == Len(trades) >= 3 /\ result' = Simulate /\ UNCHANGED <<setup, trades>>
Next == Supply \/ SimulateBreakout
Spec == Init /\ [][Next]_vars

TypeOK == result.status \in {"refused", "untriggered", "blocked", "unfilled", "chase", "open", "closed"}

\* The loss that was authorized bounds the position that is entered, at its real price, and a trade
\* closed at a greater loss was closed below its stop; the entry follows its trigger, which
\* follows the opening range, and is protected at the lowest price seen until the trigger.
LossIsBounded ==
  result.status \in {"open", "closed"} =>
    LET r == result IN
    /\ r.shares >= 1 /\ r.entry > r.stop /\ r.shares * (r.entry - r.stop) <= setup.loss
    /\ r.shares * r.entry <= setup.notional /\ r.trigger < r.fill /\ Part(trades[r.trigger]) = "open"
    /\ \A k \in 1..r.trigger : Part(trades[k]) # "closed" /\ Day(trades[k]) = Day(trades[r.trigger]) => r.stop <= trades[k].price
    /\ r.status = "closed" => r.fill < r.exited /\ (r.shares * (r.entry - r.exit) > setup.loss => r.exit < r.stop)
\* Later trades change nothing that was decided: not a trigger, not an entry, its size or its
\* protection, not an exit, and not a refusal of the risk.
NoLookAhead ==
  result.trigger # 0 /\ result'.status # "refused" =>
       /\ result'.trigger = result.trigger
       /\ result.status \in {"blocked", "chase", "closed"} => result' = result
       /\ result.status = "open" => [result' EXCEPT !.status = "open", !.exit = 0, !.exited = 0] = result
=============================================================================
