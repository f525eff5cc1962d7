------------------------------ MODULE ReplayTrade ------------------------------
(***************************************************************************)
(* A strategy over the trades of a market: candles and what is derived     *)
(* from them (market.py), the evaluation of its graph (graph.py,           *)
(* runtime.py), and the trading of it in a replay (market.py: replay,      *)
(* replay_oms.py).  The market of a live run is rebuilt from history and   *)
(* the ticks that were kept (engine.py: _runtime).  The tape grows by a    *)
(* trade at each step, which is one turn of the replay's loop.             *)
(***************************************************************************)
EXTENDS Integers, Sequences, FiniteSets, SequencesExt, FiniteSetsExt

CONSTANTS Setups
\* day, session, minute, timeframe, opening: units of time; times, sizes: of the trades that come;
\* prices; intrabar; level, multiple, distance, target, floor: of the graph; history: complete days
\* that the relative volume needs; and gap, timeout, margin, before, entries, shares, notional,
\* risk, slip, funds: of the replay.

VARIABLES
  setup,
  tape,        \* [at, price, size] of the trades so far
  market,
  state,       \* of the evaluation: [previous, entry, seeded, bar]
  pending, position,
  entries,     \* of the day
  trades,      \* [entry, exit, quantity] of those that are over
  orders       \* of the replay's ledger: [state, bought, sold, active]
vars == <<setup, tape, market, state, pending, position, entries, trades, orders>>

None == 0            \* no price
Nothing == [none |-> TRUE]
SumOf(f) == FoldFunction(LAMBDA x, n : x + n, 0, f)

-----------------------------------------------------------------------------
(* Candles.                                                                *)

Opened(t) == t - (t % setup.day)
Tradable(t) == t - Opened(t) < setup.session
Minute(t) == (t - Opened(t)) \div setup.minute
Start(t) == t - (t % setup.timeframe)
NewCandle(t, p, v) == [start |-> Start(t), high |-> p, low |-> p, close |-> p, volume |-> v]
Update(c, high, low, close, v) ==
  [c EXCEPT !.high = Max({@, high}), !.low = Min({@, low}), !.close = close, !.volume = @ + v]
Empty ==
  [current |-> Nothing, closed |-> <<>>, day |-> -1, complete |-> FALSE, volume |-> 0, low |-> None, range |-> None, minutes |-> <<>>,
   histories |-> <<>>, lastMinute |-> -1, seeded |-> -1, lastPrice |-> None, closedUntil |-> -1]
FinishCandle(m, c) == [m EXCEPT !.closed = Append(@, c), !.closedUntil = c.start + setup.timeframe]
LastOf(s) == SubSeq(s, Max({1, Len(s) - setup.history + 1}), Len(s))

\* The first trade of a day: the day before is history if it was followed from its opening.
NewDay(m, t) ==
  IF Opened(t) = m.day THEN m
  ELSE [m EXCEPT !.histories = IF m.complete /\ m.minutes # <<>> THEN LastOf(Append(@, m.minutes)) ELSE @,
                 !.day = Opened(t), !.complete = t = Opened(t), !.volume = 0, !.low = None, !.range = None, !.minutes = <<>>,
                 !.lastMinute = -1, !.current = Nothing, !.seeded = -1]
\* What the day is made of: the volume before each minute, the lowest price, the opening range.
Counted(m, t, p, v) ==
  LET n == IF Minute(t) > m.lastMinute THEN [m EXCEPT !.minutes = (Minute(t) :> m.volume) @@ @, !.lastMinute = Minute(t)] ELSE m IN
  IF n.seeded # -1 /\ t < n.seeded THEN n
  ELSE [n EXCEPT !.volume = @ + v, !.low = IF @ = None THEN p ELSE Min({@, p}),
                 !.range = IF t - Opened(t) < setup.opening THEN Max({@, p}) ELSE @]
Transitions(m, t) == m.current # Nothing /\ m.current.start # Start(t)
Accept(m, t, p, v) ==
  LET n == Counted(NewDay(m, t), t, p, v) IN
  IF Transitions(n, t) THEN [FinishCandle(n, n.current) EXCEPT !.current = NewCandle(t, p, v), !.lastPrice = p]
  ELSE [n EXCEPT !.current = IF @ = Nothing THEN NewCandle(t, p, v) ELSE Update(@, p, p, p, v), !.lastPrice = p]
\* The clock closes a candle before the next trade does.
Closes(m, t) == m.current # Nothing /\ m.lastPrice # None /\ t >= m.current.start + setup.timeframe
CloseClock(m, t) == IF Closes(m, t) THEN [FinishCandle(m, m.current) EXCEPT !.current = Nothing] ELSE m

\* A market is seeded with the bars of the minutes that are complete; the days that miss a minute are
\* no history, nor is the day complete without all its minutes.
MinuteBars(ticks, until) ==
  LET starts == {e.at - (e.at % setup.minute) : e \in {x \in ToSet(ticks) : Tradable(x.at)}}
      In(s) == SelectSeq(ticks, LAMBDA e : e.at - (e.at % setup.minute) = s)
      Bar(s) == [FoldLeft(LAMBDA c, e : Update(c, e.price, e.price, e.price, e.size), NewCandle(s, In(s)[1].price, 0), In(s)) EXCEPT !.start = s] IN
  [i \in 1..Cardinality({s \in starts : s + setup.minute <= until}) |->
     Bar(SetToSortSeq({s \in starts : s + setup.minute <= until}, <)[i])]
OfDay(bars, d) == SelectSeq(bars, LAMBDA b : Opened(b.start) = d)
Cumulative(bars) ==
  [n \in {Minute(b.start) : b \in ToSet(bars)} |->
     SumOf([i \in {j \in DOMAIN bars : Minute(bars[j].start) < n} |-> bars[i].volume])]
ExpectedMinutes(n) == 0..(n - 1)
Seed(bars, stamp) ==
  LET today == OfDay(bars, Opened(stamp))
      minutes == Cumulative(today)
      opening == {b.high : b \in {x \in ToSet(today) : x.start - Opened(stamp) < setup.opening}}
      days == {d \in {Opened(b.start) : b \in ToSet(bars)} :
                 d < Opened(stamp) /\ DOMAIN Cumulative(OfDay(bars, d)) = ExpectedMinutes(setup.session \div setup.minute)}
      Group(m, b) == IF m.current = Nothing \/ Transitions(m, b.start)
                     THEN [(IF m.current = Nothing THEN m ELSE FinishCandle(m, m.current)) EXCEPT !.current = [b EXCEPT !.start = Start(b.start)]]
                     ELSE [m EXCEPT !.current = Update(@, b.high, b.low, b.close, b.volume)]
      grouped == FoldLeft(Group, Empty, bars) IN
  [(IF grouped.current # Nothing /\ grouped.current.start + setup.timeframe <= stamp
      THEN [FinishCandle(grouped, grouped.current) EXCEPT !.current = Nothing] ELSE grouped)
   EXCEPT !.histories = LastOf([i \in 1..Cardinality(days) |-> Cumulative(OfDay(bars, SetToSortSeq(days, <)[i]))]),
          !.day = Opened(stamp), !.complete = DOMAIN minutes = ExpectedMinutes(Minute(stamp)), !.minutes = minutes,
          !.lastMinute = Minute(stamp) - 1, !.volume = SumOf([i \in DOMAIN today |-> today[i].volume]),
          !.low = IF today = <<>> THEN None ELSE Min({b.low : b \in ToSet(today)}),
          !.range = IF opening = {} THEN None ELSE Max(opening), !.seeded = stamp]
\* The ticks that were kept are played over the seeded market.
Played(m, ticks) ==
  FoldLeft(LAMBDA n, e : IF Tradable(e.at) THEN Accept(CloseClock(n, e.at), e.at, e.price, e.size) ELSE CloseClock(n, e.at), m, ticks)
Runtime(ticks, stamp) == Played(Seed(MinuteBars(ticks, stamp), stamp), SelectSeq(ticks, LAMBDA e : e.at >= stamp))

-----------------------------------------------------------------------------
(* The evaluation of the strategy.                                         *)

\* The volume before this minute against the average of the history's days: large enough, or not known.
VolumeConfirms(m, t) ==
  LET now == IF Minute(t) \in DOMAIN m.minutes THEN m.minutes[Minute(t)] ELSE m.volume
      past == SumOf([i \in DOMAIN m.histories |-> m.histories[i][Minute(t)]]) IN
  \/ setup.multiple = 0
  \/ /\ m.complete /\ Len(m.histories) = setup.history /\ \A i \in DOMAIN m.histories : Minute(t) \in DOMAIN m.histories[i]
     /\ past > 0 /\ now * setup.history >= setup.multiple * past
LevelOf(kind, closed, m, t) ==
  CASE kind = "opening_high" -> IF m.complete /\ t - Opened(t) >= setup.opening THEN m.range ELSE None
    [] kind = "rolling_high" -> IF closed = <<>> THEN None ELSE Last(closed).high
    [] OTHER -> IF Len(closed) < 2 THEN None ELSE (closed[Len(closed)].close + closed[Len(closed) - 1].close) \div 2
Context(m, t) ==
  LET bars == IF setup.intrabar /\ m.current # Nothing THEN Append(m.closed, m.current) ELSE m.closed IN
  [close |-> IF bars = <<>> THEN None ELSE Last(bars).close, level |-> LevelOf(setup.level, m.closed, m, t), volume |-> VolumeConfirms(m, t),
   toClose |-> Opened(t) + setup.session - t, start |-> Start(t)]
\* The price crosses the level from below between two evaluations, and the volume confirms it.
Crosses(previous, c) ==
  None \notin {previous.close, previous.level, c.close, c.level} /\ previous.close <= previous.level /\ c.close > c.level
Evaluate(previous, c) ==
  [entry |-> Crosses(previous, c) /\ c.volume, exit |-> c.close # None /\ c.close < setup.floor,
   stop |-> IF c.close = None THEN None ELSE c.close - setup.distance,
   target |-> IF c.close = None \/ setup.target = 0 THEN None ELSE c.close + setup.target]
\* A signal is a condition that was false at the evaluation before, once in a candle.
Signals(s, c) == s.seeded /\ Evaluate(s.previous, c).entry /\ ~s.entry /\ s.bar # c.start
EvaluateStep(s, c) ==
  [previous |-> [close |-> c.close, level |-> c.level], entry |-> Evaluate(s.previous, c).entry, seeded |-> TRUE,
   bar |-> IF Signals(s, c) THEN c.start ELSE s.bar]
SizeEntry(limit, stop) ==
  IF stop = None \/ ~(0 < stop /\ stop < limit) THEN 0
  ELSE Min({setup.shares, Min({setup.notional, setup.funds}) \div limit, setup.risk \div (limit - stop)})

-----------------------------------------------------------------------------
(* A turn of the replay.                                                   *)

InitState == [previous |-> [close |-> None, level |-> None], entry |-> FALSE, seeded |-> FALSE, bar |-> -1]
Init ==
  /\ setup \in Setups /\ tape = <<>> /\ market = Empty /\ state = InitState
  /\ pending = Nothing /\ position = Nothing /\ entries = 0 /\ trades = <<>> /\ orders = <<>>

\* A resting entry is cancelled when it is too old or the close is near, and otherwise filled at a
\* price that its limit allows.
Outcome(t, p) ==
  IF pending = Nothing THEN "none"
  ELSE IF t - pending.at > setup.timeout \/ Opened(t) + setup.session - t <= setup.margin THEN "cancelled"
  ELSE IF p <= pending.limit THEN "filled" ELSE "none"
ExitReason(held, t, p, exits) ==
  \/ p <= held.stop \/ (held.target # None /\ p >= held.target)
  \/ Opened(t) + setup.session - t <= setup.before \/ exits
Book(outcome) == CASE outcome = "filled" -> [Last(orders) EXCEPT !.state = "filled", !.bought = pending.quantity]
                   [] OTHER -> [Last(orders) EXCEPT !.state = "cancelled", !.active = FALSE]
\* The candle that the clock closed is seen before the trade, then the trade itself.
Contexts(clocked, accepted, t) ==
  (IF Closes(market, t) THEN <<Context(clocked, clocked.closedUntil)>> ELSE <<>>)
  \o (IF setup.intrabar \/ (clocked.day = Opened(t) /\ Transitions(clocked, t)) THEN <<Context(accepted, t)>> ELSE <<>>)
States(contexts) == FoldLeft(LAMBDA h, c : Append(h, EvaluateStep(Last(h), c)), <<state>>, contexts)
\* The signals that may be followed: no order or position is left, the day has entries left, the
\* close is not near, and the size is not zero.
Chosen(contexts, states, limit, free, count) ==
  {i \in DOMAIN contexts :
     LET result == Evaluate(states[i].previous, contexts[i]) IN
     /\ free /\ Signals(states[i], contexts[i]) /\ contexts[i].toClose > setup.margin /\ count < setup.entries
     /\ result.target = None \/ result.target > limit
     /\ SizeEntry(limit, result.stop) > 0}
Order(t, limit, result) ==
  [at |-> t, limit |-> limit, stop |-> result.stop, target |-> result.target, quantity |-> SizeEntry(limit, result.stop)]
Settle(t, p, count, contexts, states, outcome, held, booked) ==
  \E exits \in {held # Nothing /\ ExitReason(held, t, p, \E i \in DOMAIN contexts : Evaluate(states[i].previous, contexts[i]).exit)} :
  \E resting \in {IF outcome = "none" THEN pending ELSE Nothing} :
  \E chosen \in {Chosen(contexts, states, p + setup.slip, (held = Nothing \/ exits) /\ resting = Nothing, count)} :
  \E after \in {IF exits THEN [booked EXCEPT ![Len(booked)] = [@ EXCEPT !.sold = held.quantity, !.active = FALSE]] ELSE booked} :
    /\ state' = Last(states) /\ entries' = count /\ position' = IF exits THEN Nothing ELSE held
    /\ trades' = IF exits THEN Append(trades, [entry |-> held.entry, exit |-> p, quantity |-> held.quantity]) ELSE trades
    /\ IF chosen = {} THEN pending' = resting /\ orders' = after
       ELSE /\ pending' = Order(t, p + setup.slip, Evaluate(states[Min(chosen)].previous, contexts[Min(chosen)]))
            /\ orders' = Append(after, [state |-> "working", bought |-> 0, sold |-> 0, active |-> TRUE])
Trade(p) ==
  \E t \in {setup.times[Len(tape) + 1]}, v \in {setup.sizes[Len(tape) + 1]} :
  \E clocked \in {CloseClock(market, t)} :
    /\ tape' = Append(tape, [at |-> t, price |-> p, size |-> v]) /\ UNCHANGED setup
    /\ IF ~Tradable(t)
       THEN market' = clocked /\ UNCHANGED <<state, pending, position, entries, trades, orders>>
       ELSE \E accepted \in {Accept(clocked, t, p, v)}, outcome \in {Outcome(t, p)} :
            \E contexts \in {Contexts(clocked, accepted, t)} :
            \E states \in {States(contexts)} :
              /\ market' = accepted
              /\ Settle(t, p, (IF Opened(t) = market.day THEN entries ELSE 0) + (IF outcome = "filled" THEN 1 ELSE 0), contexts, states, outcome,
                   IF outcome = "filled" THEN [pending EXCEPT !.at = t] @@ [entry |-> p] ELSE position,
                   IF outcome = "none" THEN orders ELSE [orders EXCEPT ![Len(orders)] = Book(outcome)])
\* A tape with a gap inside a session is refused.
Gap == LET k == Len(tape) + 1 IN
  k > 1 /\ Tradable(setup.times[k]) /\ Opened(setup.times[k]) = Opened(tape[k - 1].at) /\ setup.times[k] - tape[k - 1].at > setup.gap
Next == Len(tape) < Len(setup.times) /\ ~Gap /\ \E p \in setup.prices : Trade(p)
Spec == Init /\ [][Next]_vars

-----------------------------------------------------------------------------
(* Properties.                                                             *)

TypeOK ==
  /\ market.current # Nothing => market.current.low <= market.current.close /\ market.current.close <= market.current.high
  /\ entries \in 0..setup.entries /\ Len(market.histories) <= setup.history
  /\ \A o \in ToSet(orders) : o.state \in {"working", "filled", "cancelled"} /\ o.active \in BOOLEAN

Follows == SelectSeq(tape, LAMBDA e : Tradable(e.at))
CompleteStarts(ticks, until) == {Start(e.at) : e \in {x \in ToSet(ticks) : Tradable(x.at) /\ Start(x.at) + setup.timeframe <= until}}
\* The candles that are complete are the groups of the trades of the tape, by the time of the trade.
CandlesAreTheTape ==
  tape # <<>> =>
    LET s == SetToSortSeq(CompleteStarts(tape, Last(tape).at), <)
        In(i) == SelectSeq(Follows, LAMBDA e : Start(e.at) = s[i]) IN
    /\ Len(market.closed) = Len(s)
    /\ \A i \in DOMAIN s : market.closed[i] =
         [start |-> s[i], high |-> Max({e.price : e \in ToSet(In(i))}), low |-> Min({e.price : e \in ToSet(In(i))}),
          close |-> Last(In(i)).price, volume |-> SumOf([j \in DOMAIN In(i) |-> In(i)[j].size])]

\* No minute of a session passed without a trade, as far as "until".
EveryMinute(until) ==
  \A d \in {Opened(e.at) : e \in ToSet(Follows)} :
    /\ \E e \in ToSet(Follows) : e.at = d
    /\ \A n \in ExpectedMinutes(Min({until - d, setup.session}) \div setup.minute) : \E e \in ToSet(Follows) : Opened(e.at) = d /\ Minute(e.at) = n
\* A market that is rebuilt at the end of any minute, from the bars before and the ticks after, is the
\* one that has seen all the trades, when no minute of a session went without a trade.
RebuiltIsTheSame ==
  LET ends == {n * setup.minute : n \in 1..(IF tape = <<>> THEN 0 ELSE Last(tape).at \div setup.minute)} IN
  \A stamp \in ends :
    (stamp - Opened(stamp) <= setup.session /\ Last(tape).at >= stamp /\ Tradable(Last(tape).at) /\ EveryMinute(Last(tape).at)) =>
      [Runtime(tape, stamp) EXCEPT !.seeded = -1] = [market EXCEPT !.seeded = -1]

\* The ledger agrees with what the replay holds: an order is reserved while it rests or is held, and
\* the shares bought and not sold are those of the position.
LedgerAgrees ==
  /\ {o \in ToSet(orders) : o.active} = {} <=> pending = Nothing /\ position = Nothing
  /\ Cardinality({i \in DOMAIN orders : orders[i].active}) <= 1
  /\ SumOf([i \in DOMAIN orders |-> orders[i].bought - orders[i].sold]) = IF position = Nothing THEN 0 ELSE position.quantity

\* An entry is decided on what is complete: the last complete candle (or, inside a candle, the trade)
\* is above a level that only the candles completed before it make.
EntersOnEvidence ==
  pending' # Nothing /\ pending' # pending =>
    LET t == Last(tape').at
        closed == SubSeq(market'.closed, 1, Cardinality(CompleteStarts(tape', t)))
        price == IF setup.intrabar THEN {Last(tape').price} \cup {Last(closed).close} ELSE {Last(closed).close}
        ranged == {e.price : e \in {x \in ToSet(tape') : Opened(x.at) = Opened(t) /\ x.at - Opened(t) < setup.opening}} IN
    \E p \in price, j \in (Len(closed) - 1)..Len(closed) :
      /\ p > (IF setup.level = "opening_high" THEN Max(ranged) ELSE LevelOf(setup.level, SubSeq(closed, 1, j), market, t))
      /\ setup.level = "opening_high" => t - Opened(t) >= setup.opening

\* A position comes only from the order that rested, at a price within its limit and in its time, and
\* its planned loss and its cost are within the caps; a day has no more entries than allowed.
EntersAsAllowed ==
  position' # Nothing /\ position' # position =>
    /\ pending # Nothing /\ position = Nothing /\ position'.quantity = pending.quantity
    /\ position'.entry <= pending.limit /\ position'.at - pending.at <= setup.timeout
    /\ pending.quantity * (pending.limit - pending.stop) <= setup.risk /\ pending.quantity * pending.limit <= Min({setup.notional, setup.funds})
    /\ entries' <= setup.entries /\ (Opened(Last(tape').at) = market.day => entries' = entries + 1)
=============================================================================
