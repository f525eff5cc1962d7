--------------------------- MODULE OcaPair_proofs ---------------------------
(***************************************************************************)
(* Paired entries of one run, for every quantity and every number of       *)
(* candles, repairs and troubles.                                          *)
(*                                                                         *)
(* Three facts carry the argument.  What is known of an order that ended   *)
(* is final (DocsAreFinal), so a pair that is over has nothing at the      *)
(* broker.  A choice of side, a replacement stop and the cancellation of a *)
(* stop follow an execution of an entry (FollowsFill, OrphansOnly).  And   *)
(* each refresh of the pairs, in whatever order their reports arrived, is  *)
(* a Step: it never revives a pair that did not open and completes one     *)
(* only when the run is flat and every order of the pair is over.          *)
(*                                                                         *)
(* That at most one pair trades (Trade) holds as long as the run is        *)
(* authorized once or sees one candle: with a later pair the completed one *)
(* is opened again by the position of the other (oca_engine.py:418).       *)
(***************************************************************************)
EXTENDS OcaPair, WellFoundedInduction, TLAPS

-----------------------------------------------------------------------------
(* Recursion over 1..n.  The library's induction theorems take an operator, *)
(* so each fact comes from a least counterexample.                          *)

\* A set of naturals that is not empty has a least element.
LEMMA Least == ASSUME NEW T \in SUBSET Nat, T # {}
               PROVE  \E n \in T : \A m \in T : n <= m
<1>1. PICK n \in T : \A m \in T : ~ (<<m, n>> \in OpToRel(<, Nat))
  BY NatLessThanWellFounded, WFMin, Zenon
<1>2. \A m \in T : ~ (m < n)
  BY <1>1, Zenon DEF OpToRel
<1>3. QED
  BY <1>2

\* g adds f(1), f(2), ... up to n.
Adds(g, f, n) == g = [i \in 0..n |-> IF i = 0 THEN 0 ELSE g[i - 1] + f[i]]

LEMMA AddsExists == ASSUME NEW f, NEW n \in Nat PROVE \E g : Adds(g, f, n)
<1> DEFINE T == {m \in Nat : ~ \E g : Adds(g, f, m)}
<1> SUFFICES ASSUME T # {} PROVE FALSE
  OBVIOUS
<1>1. PICK m \in T : \A k \in T : m <= k
  BY Least
<1>2. CASE m = 0
  <2> DEFINE g == [i \in 0..0 |-> 0]
  <2>1. Adds(g, f, 0)
    BY DEF Adds
  <2>2. QED
    BY <1>2, <2>1
<1>3. CASE m # 0
  <2>1. m - 1 \in Nat /\ m - 1 \notin T
    BY <1>1, <1>3
  <2>2. PICK g : Adds(g, f, m - 1)
    BY <2>1
  <2> DEFINE h == [i \in 0..m |-> IF i = m THEN g[m - 1] + f[m] ELSE g[i]]
  <2>3. \A i \in 0..(m - 1) : g[i] = IF i = 0 THEN 0 ELSE g[i - 1] + f[i]
    BY <2>1, <2>2 DEF Adds
  <2>4. \A i \in 0..m : h[i] = IF i = 0 THEN 0 ELSE h[i - 1] + f[i]
    BY <2>1, <2>3, <1>3
  <2>5. Adds(h, f, m)
    <3>1. h = [i \in 0..m |-> h[i]]
      OBVIOUS
    <3> HIDE DEF h
    <3>2. QED
      BY <2>4, <3>1 DEF Adds
  <2>6. QED
    BY <2>5, <1>1
<1>4. QED
  BY <1>2, <1>3

\* A sum of integers is one; it is what is at q when the rest is zero.
LEMMA AddsInt == ASSUME NEW f, NEW n \in Nat, NEW g, Adds(g, f, n), \A i \in 1..n : f[i] \in Int
                 PROVE  g[n] \in Int
<1> DEFINE T == {m \in Nat : m <= n /\ g[m] \notin Int}
<1>0. SUFFICES ASSUME g[n] \notin Int PROVE FALSE
  OBVIOUS
<1>1. PICK m \in T : \A k \in T : m <= k
  <2>1. n \in T
    BY <1>0
  <2> HIDE DEF T
  <2>2. T \in SUBSET Nat
    BY DEF T
  <2>3. QED
    BY <2>1, <2>2, Least
<1>2. g[m] = IF m = 0 THEN 0 ELSE g[m - 1] + f[m]
  BY DEF Adds
<1>3. m # 0 => m - 1 \in 0..n /\ m - 1 \notin T
  BY <1>1
<1>4. QED
  BY <1>2, <1>3

Value(f, q) == IF q = 0 THEN 0 ELSE f[q]

LEMMA AddsOne == ASSUME NEW f, NEW n \in Nat, NEW g, Adds(g, f, n), NEW q \in 0..n,
                        \A i \in 1..n : f[i] \in Int, \A i \in 1..n : i # q => f[i] = 0
                 PROVE  g[n] = Value(f, q)
<1> DEFINE T == {m \in Nat : m <= n /\ g[m] # IF m < q THEN 0 ELSE Value(f, q)}
<1>1. SUFFICES ASSUME T # {} PROVE FALSE
  <2>1. n \in T \/ g[n] = IF n < q THEN 0 ELSE Value(f, q)
    OBVIOUS
  <2>2. ~ (n < q)
    OBVIOUS
  <2> HIDE DEF T
  <2>3. QED
    BY <1>1, <2>1, <2>2
<1>2. PICK m \in T : \A k \in T : m <= k
  BY <1>1, Least
<1>3. g[m] = IF m = 0 THEN 0 ELSE g[m - 1] + f[m]
  BY DEF Adds
<1>4. m # 0 => m - 1 \in 0..n /\ m - 1 \notin T
  BY <1>2
<1>5. Value(f, q) \in Int
  BY DEF Value
<1>6. QED
  BY <1>3, <1>4, <1>5 DEF Value

LEMMA AddsZero == ASSUME NEW f, NEW n \in Nat, NEW g, Adds(g, f, n), \A i \in 1..n : f[i] = 0
                  PROVE  g[n] = 0
<1>1. 0 \in 0..n /\ \A i \in 1..n : f[i] \in Int /\ (i # 0 => f[i] = 0)
  OBVIOUS
<1>2. g[n] = Value(f, 0)
  BY <1>1, AddsOne
<1>3. QED
  BY <1>2 DEF Value

-----------------------------------------------------------------------------
(* Positions.                                                              *)

LEMMA Orders_Of == ASSUME NEW p \in Pairs
                   PROVE  /\ OrdersOf(p) \subseteq Orders /\ LegsOf(p) \subseteq OrdersOf(p)
                          /\ \A s \in Sides : Entry(p, s) \in LegsOf(p) /\ Stop(p, s) \in LegsOf(p)
                          /\ \A i \in 1..MaxRepairs : <<p, Turn[i], "stop">> \in OrdersOf(p)
BY DEF Orders, OrdersOf, LegsOf, EntriesOf, Repairs

LEMMA HoldingIs == ASSUME NEW shares \in [Orders -> Nat], NEW p \in Pairs
                   PROVE  /\ Holding(shares, p) \in Int
                          /\ (\A o \in OrdersOf(p) : shares[o] = 0) => Holding(shares, p) = 0
<1> DEFINE f == [i \in 1..MaxRepairs |-> shares[<<p, Turn[i], "stop">>]]
           Closes(g) == g = [i \in 0..MaxRepairs |->
                               IF i = 0 THEN 0 ELSE g[i - 1] + shares[<<p, Turn[i], "stop">>]]
           closed == CHOOSE g : Closes(g)
           net == shares[Entry(p, "long")] - shares[Stop(p, "long")]
                  - shares[Entry(p, "short")] + shares[Stop(p, "short")]
<1>0. MaxRepairs \in Nat
  BY PairAssumption
<1>1. \A g : Adds(g, f, MaxRepairs) <=> Closes(g)
  <2>1. \A i \in 1..MaxRepairs : f[i] = shares[<<p, Turn[i], "stop">>]
    OBVIOUS
  <2>2. \A g : [i \in 0..MaxRepairs |-> IF i = 0 THEN 0 ELSE g[i - 1] + f[i]]
               = [i \in 0..MaxRepairs |->
                    IF i = 0 THEN 0 ELSE g[i - 1] + shares[<<p, Turn[i], "stop">>]]
    <3> HIDE DEF f
    <3> QED
      BY <1>0, <2>1
  <2>3. QED
    BY <2>2 DEF Adds
<1>2. \A g : Closes(g) => Adds(g, f, MaxRepairs)
  <2> HIDE DEF f, Closes
  <2> QED
    BY <1>1
<1>3. Closes(closed)
  <2>1. \E g : Closes(g)
    <3> HIDE DEF f, Closes
    <3> QED
      BY <1>0, <1>1, AddsExists
  <2> HIDE DEF Closes
  <2>2. QED
    BY <2>1
<1>4. Adds(closed, f, MaxRepairs)
  <2> HIDE DEF Closes, closed, f
  <2> QED
    BY <1>2, <1>3
<1>5. Holding(shares, p) = IF shares[Entry(p, "long")] > 0
                           THEN net - closed[MaxRepairs] ELSE net + closed[MaxRepairs]
  BY DEF Holding
<1>6. /\ \A i \in 1..MaxRepairs : f[i] \in Int
      /\ \A s \in Sides : shares[Entry(p, s)] \in Nat /\ shares[Stop(p, s)] \in Nat
  BY Orders_Of
<1>7. closed[MaxRepairs] \in Int
  <2> HIDE DEF closed, f
  <2> QED
    BY <1>0, <1>4, <1>6, AddsInt
<1>8. ASSUME \A o \in OrdersOf(p) : shares[o] = 0
      PROVE  closed[MaxRepairs] = 0 /\ net = 0
  <2>1. \A i \in 1..MaxRepairs : f[i] = 0
    BY <1>8, Orders_Of
  <2>2. net = 0
    BY <1>8, Orders_Of DEF Sides
  <2> HIDE DEF closed, f, net
  <2>3. closed[MaxRepairs] = 0
    BY <1>0, <1>4, <2>1, AddsZero
  <2>4. QED
    BY <2>2, <2>3
<1>9. net \in Int
  BY <1>6 DEF Sides
<1>10. QED
  <2> HIDE DEF closed, net
  <2> QED
    BY <1>5, <1>7, <1>8, <1>9

\* The position of the run is that of the only pair that holds shares.
LEMMA PositionIs == ASSUME NEW shares \in [Orders -> Nat]
                    PROVE  /\ Position(shares) \in Int
                           /\ (\A r \in Pairs : Holding(shares, r) = 0) => Position(shares) = 0
                           /\ \A p \in Pairs : (\A r \in Pairs : r # p => Holding(shares, r) = 0)
                                                 => Position(shares) = Holding(shares, p)
<1> DEFINE f == [p \in Pairs |-> Holding(shares, p)]
           Iter(g) == g = [p \in 0..MaxPairs |-> IF p = 0 THEN 0 ELSE g[p - 1] + Holding(shares, p)]
           sum == CHOOSE g : Iter(g)
<1>0. MaxPairs \in Nat /\ Pairs = 1..MaxPairs
  BY PairAssumption DEF Pairs
<1>1. \A g : Adds(g, f, MaxPairs) => Iter(g)
  BY <1>0 DEF Adds
<1>2. \A g : Iter(g) => Adds(g, f, MaxPairs)
  BY <1>0 DEF Adds
<1>3. Iter(sum)
  <2>1. \E g : Iter(g)
    BY <1>0, <1>1, AddsExists
  <2> HIDE DEF Iter
  <2>2. QED
    BY <2>1
<1>4. Adds(sum, f, MaxPairs)
  <2> HIDE DEF Iter, sum, f
  <2> QED
    BY <1>2, <1>3
<1>5. Position(shares) = sum[MaxPairs]
  BY DEF Position
<1>6. \A i \in 1..MaxPairs : f[i] \in Int
  BY <1>0, HoldingIs
<1>7. \A p \in Pairs : f[p] = Holding(shares, p)
  OBVIOUS
<1> HIDE DEF f, sum
<1>8. sum[MaxPairs] \in Int
  BY <1>0, <1>4, <1>6, AddsInt
<1>9. ASSUME \A r \in Pairs : Holding(shares, r) = 0 PROVE sum[MaxPairs] = 0
  <2>1. \A i \in 1..MaxPairs : f[i] = 0
    BY <1>0, <1>7, <1>9
  <2>2. QED
    BY <1>0, <1>4, <2>1, AddsZero
<1>10. ASSUME NEW p \in Pairs, \A r \in Pairs : r # p => Holding(shares, r) = 0
       PROVE  sum[MaxPairs] = Holding(shares, p)
  <2>1. p \in 0..MaxPairs /\ \A i \in 1..MaxPairs : i # p => f[i] = 0
    BY <1>0, <1>7, <1>10
  <2>2. sum[MaxPairs] = Value(f, p)
    BY <1>0, <1>4, <1>6, <2>1, AddsOne
  <2>3. QED
    BY <1>0, <1>7, <2>2 DEF Value
<1>11. QED
  BY <1>5, <1>8, <1>9, <1>10
-----------------------------------------------------------------------------
(* The invariant.                                                          *)

States == {"none", "reserved", "working", "cancelling", "cancelled", "uncertain",
           "position_open", "complete"}
Statuses == {"none", "coming", "staged", "active"} \cup TERMINAL
Fields == {"state", "row", "winner", "counted", "authorization", "entries", "amendment", "repair",
           "request", "armed", "current", "incident"}

\* An engine record, as far as the argument goes.
Shape(e) ==
  /\ DOMAIN e = Fields
  /\ e.state \in [Pairs -> States] /\ e.winner \in [Pairs -> Sides \cup {"none"}]
  /\ e.counted \subseteq Pairs /\ e.request \subseteq Orders
  /\ e.repair \in [Pairs -> Seq(Int)] /\ \A p \in Pairs : Len(e.repair[p]) <= MaxRepairs
  /\ e.authorization \in [Pairs -> Nat] /\ e.current \in Nat

Typed ==
  /\ candidate.pair \in 0..bounds.candles /\ expired \subseteq Pairs /\ told \subseteq Orders
  /\ DOMAIN candidate = {"pair", "skipped", "preview"}
  /\ sending \in [pair : 0..MaxPairs, step : {"idle", "stage"} \cup Sides]
  /\ bounds \in [candles : 0..MaxPairs, armed : Nat \ {0}, overfills : Int, troubles : Int]
  /\ status \in [Orders -> Statuses] /\ DOMAIN doc = Orders
  /\ filled \in [Orders -> Nat] /\ executed \in [Orders -> Nat]
  /\ \A o \in Orders : executed[o] <= filled[o]

\* An entry of the pair has executed, in the ledger.
Opened(p)   == \E s \in Sides : executed[Entry(p, s)] > 0
DocIdle(p)  == \A o \in LegsOf(p) : doc[o].status \in TERMINAL /\ ~ (doc[o].filled > 0)
Unsent(p)   == \A o \in LegsOf(p) : status[o] = "none"
At(p, i)    == <<p, Turn[i], "stop">>

\* What a terminal status says of an order is final, and nothing is known of an order not sent.
DocsAreFinal ==
  \A o \in Orders :
    /\ doc[o].status \in TERMINAL => status[o] = doc[o].status /\ filled[o] = doc[o].filled
    /\ status[o] = "none" => doc[o].status = "none" /\ filled[o] = 0

\* Only pairs that were reserved, and replacements that were recorded, reach the broker.
Recorded(e) ==
  /\ \A p \in Pairs : e.state[p] = "none" => Unsent(p)
  /\ \A p \in Pairs : \A i \in 1..MaxRepairs : i > Len(e.repair[p]) => status[At(p, i)] = "none"
Submits ==
  sending.step # "idle" => /\ sending.pair \in Pairs /\ engine.state[sending.pair] = "reserved"
                           /\ sending.step = "stage" => Unsent(sending.pair)

\* A side is chosen, and a stop replaced, after an execution of an entry.
FollowsFill(e) ==
  \A p \in Pairs : e.winner[p] # "none" \/ e.repair[p] # <<>> => Opened(p)

OrphansOnly(e) ==
  \A p \in Pairs, s \in Sides : Stop(p, s) \in e.request => executed[Entry(p, Other(s))] > 0

CancelledIsOver(e) ==
  \A p \in Pairs : e.state[p] = "cancelled" => ~Opened(p) /\ (DocIdle(p) \/ Unsent(p))

CompleteIsOver(e) ==
  \A p \in Pairs : e.state[p] = "complete" =>
    Opened(p) /\ AllEnded(LegsOf(p) \cup Related(e, p))

Authorized(e) ==
  /\ 1 <= e.current /\ e.current <= bounds.armed
  /\ \A p \in Pairs : e.state[p] # "none" => /\ p <= bounds.candles
                                             /\ e.authorization[p] \in 1..e.current

Engine(e) ==
  /\ Shape(e) /\ Recorded(e) /\ FollowsFill(e) /\ OrphansOnly(e)
  /\ CancelledIsOver(e) /\ CompleteIsOver(e) /\ Authorized(e)

\* What stops a run whose two entries executed outlasts every refresh: an incident is not closed
\* here, and the run cannot be armed over one.
Both(p) == \A s \in Sides : executed[Entry(p, s)] > 0
OverfillStops == reconciled => \A p \in Pairs : Both(p) => ~engine.armed /\ engine.incident

\* The run is authorized once, or sees one candle.
OneTrade == bounds.armed = 1 \/ bounds.candles = 1

Unopened(e, p)   == e.state[p] \in {"none", "cancelled"}
Unfinished(e, p) == e.state[p] \notin {"none", "cancelled", "complete"}

\* Once an entry of a pair has filled, no other pair of the run is ever opened.
FillsAlone(e) ==
  \A p, r \in Pairs : (\E s \in Sides : filled[Entry(p, s)] > 0) /\ r # p => Unopened(e, r)
OneOpen(e) == \A p, r \in Pairs : Unfinished(e, p) /\ Unfinished(e, r) => p = r

\* A complete pair is flat and known to be, and the run is not armed for another.
Settled(e) ==
  \A p \in Pairs : e.state[p] = "complete" =>
    /\ e.armed => bounds.candles = 1
    /\ executed = filled /\ Owned = 0

Trade(e) == OneTrade => OneOpen(e) /\ FillsAlone(e) /\ Settled(e)

IInv == Typed /\ DocsAreFinal /\ Engine(engine) /\ Submits /\ OverfillStops /\ Trade(engine)

-----------------------------------------------------------------------------
(* Steps of the engine.                                                    *)

\* Orders whose cancellation may be asked: a stop, when the other side executed.
Askable(o) ==
  o \in Orders /\ \A p \in Pairs, s \in Sides : o = Stop(p, s) => executed[Entry(p, Other(s))] > 0

Frame(e, f) ==
  /\ Shape(e) /\ Shape(f) /\ f.current = e.current /\ f.authorization = e.authorization
  /\ f.armed => e.armed
  /\ e.incident => f.incident

Chosen(e) == \A p \in Pairs : e.winner[p] # "none" => Opened(p)
DocUnsent(p) == \A o \in LegsOf(p) : doc[o].status = "none"

\* How a step of the engine may move a pair.
Moves(e, f, p) ==
  /\ f.state[p] = "none" <=> e.state[p] = "none"
  /\ f.state[p] = "cancelled" /\ e.state[p] # "cancelled" => ~Opened(p) /\ DocIdle(p)
  /\ e.state[p] = "cancelled" /\ ~Opened(p) /\ (DocIdle(p) \/ DocUnsent(p))
       => f.state[p] = "cancelled"
  /\ f.repair[p] # e.repair[p] => Opened(p) /\ Owned # 0
  /\ Len(e.repair[p]) <= Len(f.repair[p])
  /\ f.state[p] = "complete" /\ e.state[p] # "complete" =>
       /\ executed = filled /\ Owned = 0
       /\ Opened(p) /\ AllEnded(LegsOf(p) \cup Related(f, p))
       /\ f.authorization[p] = f.current => ~f.armed
  /\ f.state[p] = "complete" /\ e.state[p] = "complete" => f.repair[p] = e.repair[p]

Step(e, f) ==
  /\ Frame(e, f) /\ Chosen(f)
  /\ \A o \in f.request : o \in e.request \/ Askable(o)
  /\ \A p \in Pairs : Moves(e, f, p)

LEMMA StepSame == ASSUME NEW e, Shape(e), Chosen(e) PROVE Step(e, e)
BY DEF Step, Frame, Moves, Shape

LEMMA StepThen == ASSUME NEW e, NEW f, NEW g, Step(e, f), Step(f, g) PROVE Step(e, g)
<1>1. Frame(e, g) /\ Chosen(g)
  BY DEF Step, Frame
<1>2. \A o \in g.request : o \in e.request \/ Askable(o)
  BY DEF Step
<1>3. ASSUME NEW p \in Pairs PROVE Moves(e, g, p)
  <2>1. Moves(e, f, p) /\ Moves(f, g, p) /\ Frame(f, g) /\ Shape(e) /\ Shape(f) /\ Shape(g)
    BY DEF Step, Frame
  <2>2. g.repair[p] = f.repair[p] => Related(g, p) = Related(f, p)
    BY DEF Related
  <2>3. Len(e.repair[p]) \in Nat /\ Len(f.repair[p]) \in Nat /\ Len(g.repair[p]) \in Nat
    BY <2>1 DEF Shape
  <2>4. g.armed => f.armed
    BY <2>1 DEF Frame
  <2>5. g.authorization = f.authorization /\ g.current = f.current
    BY <2>1 DEF Frame
  <2>6. g.state[p] = "complete" /\ e.state[p] # "complete" =>
          /\ executed = filled /\ Owned = 0 /\ Opened(p) /\ AllEnded(LegsOf(p) \cup Related(g, p))
          /\ g.authorization[p] = g.current => ~g.armed
    <3>1. CASE f.state[p] = "complete"
      BY <2>1, <2>2, <2>4, <2>5, <3>1 DEF Moves
    <3>2. CASE f.state[p] # "complete"
      BY <2>1, <3>2 DEF Moves
    <3>3. QED
      BY <3>1, <3>2
  <2>7. Len(e.repair[p]) <= Len(g.repair[p])
    BY <2>1, <2>3 DEF Moves
  <2>8. g.state[p] = "complete" /\ e.state[p] = "complete" => g.repair[p] = e.repair[p]
    BY <2>1 DEF Moves
  <2>9. QED
    BY <2>1, <2>6, <2>7, <2>8 DEF Moves
<1>4. QED
  BY <1>1, <1>2, <1>3 DEF Step

\* What the parts of a step leave alone.
Rest(e, f) ==
  /\ Shape(f) /\ f.current = e.current /\ f.authorization = e.authorization
  /\ f.winner = e.winner /\ f.repair = e.repair /\ f.counted = e.counted

LEMMA AlarmIs == ASSUME NEW e, Shape(e)
                 PROVE  /\ Rest(e, Alarm(e)) /\ Alarm(e).state = e.state
                        /\ Alarm(e).request = e.request /\ Alarm(e).armed = e.armed
                        /\ Alarm(e).incident
BY DEF Alarm, Rest, Shape, Fields

LEMMA DisarmIs == ASSUME NEW e, Shape(e)
                  PROVE  /\ Rest(e, Disarm(e)) /\ Disarm(e).state = e.state
                         /\ Disarm(e).request = e.request /\ ~ Disarm(e).armed
                         /\ Disarm(e).incident = e.incident
BY DEF Disarm, Rest, Shape, Fields

LEMMA AskIs == ASSUME NEW e, Shape(e), NEW S \in SUBSET Orders
               PROVE  /\ Rest(e, Ask(e, S)) /\ Ask(e, S).state = e.state
                      /\ Ask(e, S).request \subseteq e.request \cup S
                      /\ Ask(e, S).armed = e.armed /\ Ask(e, S).incident = e.incident
BY DEF Ask, Rest, Shape, Fields

LEMMA StateIs == ASSUME NEW e, Shape(e), NEW p \in Pairs, NEW v \in States
                 PROVE  LET f == [e EXCEPT !.state[p] = v]
                        IN  /\ Rest(e, f) /\ f.state = [e.state EXCEPT ![p] = v]
                            /\ f.request = e.request /\ f.armed = e.armed
                            /\ f.incident = e.incident
BY DEF Rest, Shape, Fields

LEMMA EntriesAskable == ASSUME NEW p \in Pairs
                        PROVE  EntriesOf(p) \subseteq Orders /\ \A o \in EntriesOf(p) : Askable(o)
<1>1. EntriesOf(p) \subseteq Orders
  BY Orders_Of DEF LegsOf
<1>2. \A s, t \in Sides, r \in Pairs : Entry(p, s) # Stop(r, t)
  BY DEF Entry, Stop
<1>3. QED
  BY <1>1, <1>2 DEF EntriesOf, Askable

LEMMA CancelIs == ASSUME NEW e, Shape(e), NEW p \in Pairs
                  PROVE  /\ Rest(e, Cancel(e, p))
                         /\ Cancel(e, p).state = [e.state EXCEPT ![p] = "cancelling"]
                         /\ \A o \in Cancel(e, p).request : o \in e.request \/ Askable(o)
                         /\ Cancel(e, p).armed = e.armed /\ Cancel(e, p).incident = e.incident
<1> DEFINE f == [e EXCEPT !.state[p] = "cancelling"]
<1>1. /\ Rest(e, f) /\ f.state = [e.state EXCEPT ![p] = "cancelling"]
      /\ f.request = e.request /\ f.armed = e.armed /\ f.incident = e.incident
  BY StateIs DEF States
<1>2. Cancel(e, p) = Ask(f, EntriesOf(p))
  BY DEF Cancel
<1> HIDE DEF f
<1>3. Shape(f)
  BY <1>1 DEF Rest
<1>4. /\ Rest(f, Cancel(e, p)) /\ Cancel(e, p).state = f.state
      /\ Cancel(e, p).request \subseteq f.request \cup EntriesOf(p)
      /\ Cancel(e, p).armed = f.armed /\ Cancel(e, p).incident = f.incident
  BY <1>2, <1>3, AskIs, EntriesAskable
<1>5. QED
  BY <1>1, <1>4, EntriesAskable DEF Rest

\* One pair changes its state; nothing is chosen or replaced.
Kept(e, f) ==
  /\ Shape(e) /\ Chosen(e) /\ Rest(e, f)
  /\ f.armed => e.armed
  /\ e.incident => f.incident
  /\ \A o \in f.request : o \in e.request \/ Askable(o)

Turns(e, f, p, v) ==
  /\ Kept(e, f)
  /\ f.state = [e.state EXCEPT ![p] = v]
  /\ e.state[p] # "none" /\ v \notin {"none", "complete"}
  /\ v = "cancelled" => ~Opened(p) /\ DocIdle(p)
  /\ v # "cancelled" /\ e.state[p] = "cancelled" => Opened(p) \/ (~ DocIdle(p) /\ ~ DocUnsent(p))

LEMMA StepState == ASSUME NEW e, NEW f, NEW p \in Pairs, NEW v \in States, Turns(e, f, p, v)
                   PROVE  Step(e, f)
<1>1. Frame(e, f) /\ Chosen(f)
  BY DEF Turns, Kept, Frame, Rest, Chosen
<1>2. ASSUME NEW r \in Pairs PROVE Moves(e, f, r)
  <2>1. f.state[r] = IF r = p THEN v ELSE e.state[r]
    BY DEF Turns, Kept, Shape
  <2>2. f.repair[r] = e.repair[r] /\ Len(e.repair[r]) \in Nat
    BY DEF Turns, Kept, Rest, Shape
  <2>3. CASE r = p
    BY <2>1, <2>2, <2>3 DEF Moves, Turns
  <2>4. CASE r # p
    BY <2>1, <2>2, <2>4 DEF Moves, Turns
  <2>5. QED
    BY <2>3, <2>4
<1>3. QED
  BY <1>1, <1>2 DEF Step, Turns, Kept

\* Nothing but the flags and the cancellations asked for.
LEMMA StepFlags == ASSUME NEW e, NEW f, Kept(e, f), f.state = e.state
                   PROVE  Step(e, f)
<1>1. Frame(e, f) /\ Chosen(f)
  BY DEF Kept, Frame, Rest, Chosen
<1>2. ASSUME NEW r \in Pairs PROVE Moves(e, f, r)
  <2>1. f.repair[r] = e.repair[r] /\ Len(e.repair[r]) \in Nat
    BY DEF Kept, Rest, Shape
  <2>2. QED
    BY <2>1 DEF Moves
<1>3. QED
  BY <1>1, <1>2 DEF Step, Kept

\* The pair without an execution.
LEMMA StepUnfilled == ASSUME NEW e, Shape(e), Chosen(e), NEW p \in Pairs, ~Opened(p),
                             e.state[p] # "none"
                      PROVE  Step(e, Unfilled(e, p))
<1> DEFINE legs == LegsOf(p)
           f == IF \E o \in legs : doc[o].status = "Rejected" THEN Cancel(Alarm(e), p) ELSE e
           c == [f EXCEPT !.state[p] = "cancelled", !.row[p] = "cancelled"]
           w == [f EXCEPT !.state[p] = "working", !.row[p] = "working"]
<1>1. /\ Rest(e, f) /\ \A o \in f.request : o \in e.request \/ Askable(o)
      /\ f.armed = e.armed
      /\ e.incident => f.incident
      /\ f.state = e.state \/ f.state = [e.state EXCEPT ![p] = "cancelling"]
      /\ (\A o \in legs : doc[o].status # "Rejected") => f = e
  <2>1. CASE \E o \in legs : doc[o].status = "Rejected"
    <3>1. Shape(Alarm(e))
      BY AlarmIs DEF Rest
    <3>2. QED
      BY <2>1, <3>1, AlarmIs, CancelIs DEF Rest
  <2>2. CASE ~ \E o \in legs : doc[o].status = "Rejected"
    BY <2>2 DEF Rest
  <2>3. QED
    BY <2>1, <2>2
<1>2. \E o \in legs : TRUE
  BY DEF LegsOf, EntriesOf, Sides
<1> HIDE DEF f
<1>3. Shape(f) /\ f.state \in [Pairs -> States]
  BY <1>1 DEF Rest, Shape
<1>4. Kept(e, f)
  BY <1>1 DEF Kept
<1>5. {"cancelling", "cancelled", "working"} \subseteq States
  BY DEF States
<1>6. CASE AllEnded(legs) /\ \E o \in legs : doc[o].filled > 0
  <2>1. Unfilled(e, p) = f
    BY <1>6 DEF Unfilled, f
  <2>2. ~ DocIdle(p) /\ ~ DocUnsent(p)
    BY <1>2, <1>6 DEF DocIdle, DocUnsent, AllEnded, TERMINAL
  <2>3. CASE f.state = e.state
    BY <1>4, <2>1, <2>3, StepFlags
  <2>4. CASE f.state = [e.state EXCEPT ![p] = "cancelling"]
    <3>1. Turns(e, f, p, "cancelling")
      BY <1>4, <2>2, <2>4 DEF Turns
    <3>2. QED
      BY <2>1, <3>1, <1>5, StepState
  <2>5. QED
    BY <1>1, <2>3, <2>4
<1>7. CASE AllEnded(legs) /\ ~ \E o \in legs : doc[o].filled > 0
  <2>1. Unfilled(e, p) = c
    BY <1>7 DEF Unfilled, f
  <2>2. /\ Rest(f, c) /\ c.state = [f.state EXCEPT ![p] = "cancelled"]
        /\ c.request = f.request /\ c.armed = f.armed /\ c.incident = f.incident
    BY <1>3 DEF Rest, Shape, Fields, States
  <2> HIDE DEF c, w
  <2>3. c.state = [e.state EXCEPT ![p] = "cancelled"]
    <3>1. CASE f.state = e.state
      BY <2>2, <3>1
    <3>2. CASE f.state = [e.state EXCEPT ![p] = "cancelling"]
      BY <2>2, <3>2 DEF Shape
    <3>3. QED
      BY <1>1, <3>1, <3>2
  <2>4. DocIdle(p)
    BY <1>7 DEF DocIdle, AllEnded
  <2>5. Kept(e, c)
    BY <1>4, <2>2 DEF Kept, Rest
  <2>6. Turns(e, c, p, "cancelled")
    BY <2>3, <2>4, <2>5 DEF Turns
  <2>7. QED
    BY <2>1, <2>6, <1>5, StepState
<1>8. CASE ~AllEnded(legs) /\ e.state[p] = "reserved" /\ AllActive(legs)
  <2>1. Unfilled(e, p) = w
    BY <1>8 DEF Unfilled, f
  <2>2. /\ Rest(f, w) /\ w.state = [f.state EXCEPT ![p] = "working"]
        /\ w.request = f.request /\ w.armed = f.armed /\ w.incident = f.incident
    BY <1>3 DEF Rest, Shape, Fields, States
  <2> HIDE DEF c, w
  <2>3. w.state = [e.state EXCEPT ![p] = "working"]
    <3>1. CASE f.state = e.state
      BY <2>2, <3>1
    <3>2. CASE f.state = [e.state EXCEPT ![p] = "cancelling"]
      BY <2>2, <3>2 DEF Shape
    <3>3. QED
      BY <1>1, <3>1, <3>2
  <2>4. Kept(e, w)
    BY <1>4, <2>2 DEF Kept, Rest
  <2>5. Turns(e, w, p, "working")
    BY <1>8, <2>3, <2>4 DEF Turns
  <2>6. QED
    BY <2>1, <2>5, <1>5, StepState
<1>9. CASE ~AllEnded(legs) /\ ~ (e.state[p] = "reserved" /\ AllActive(legs))
  <2>1. Unfilled(e, p) = f
    BY <1>9 DEF Unfilled, f
  <2>2. ~ DocIdle(p) /\ (DocUnsent(p) => f = e)
    BY <1>1, <1>9 DEF DocIdle, DocUnsent, AllEnded
  <2>3. CASE f = e
    BY <2>1, <2>3, StepSame
  <2>4. CASE f # e /\ f.state = e.state
    BY <1>4, <2>1, <2>4, StepFlags
  <2>5. CASE f # e /\ f.state = [e.state EXCEPT ![p] = "cancelling"]
    <3>1. Turns(e, f, p, "cancelling")
      BY <1>4, <2>2, <2>5 DEF Turns
    <3>2. QED
      BY <2>1, <3>1, <1>5, StepState
  <2>6. QED
    BY <1>1, <2>3, <2>4, <2>5
<1>10. QED
  BY <1>6, <1>7, <1>8, <1>9

\* A side is chosen.
Chooses(e, f, p, s) ==
  /\ Shape(f) /\ f.winner = [e.winner EXCEPT ![p] = s]
  /\ f.state = e.state /\ f.repair = e.repair
  /\ f.authorization = e.authorization /\ f.current = e.current
  /\ f.armed = e.armed /\ f.incident = e.incident
  /\ \A o \in f.request : o \in e.request \/ Askable(o)

LEMMA SelectedIs == ASSUME NEW e, Shape(e), NEW p \in Pairs, NEW s \in Sides,
                           executed[Entry(p, s)] > 0
                    PROVE  Chooses(e, Selected(e, p, s), p, s)
<1> DEFINE f == [e EXCEPT !.winner[p] = s, !.row[p] = "filled", !.counted = @ \cup {p},
                          !.entries = IF p \in e.counted THEN @ ELSE @ + 1]
           orphan == {o \in {Stop(p, Other(s))} : doc[o].status = "active"}
           S == EntriesOf(p) \cup orphan
<1>1. /\ Shape(f) /\ f.winner = [e.winner EXCEPT ![p] = s]
      /\ f.state = e.state /\ f.repair = e.repair
      /\ f.authorization = e.authorization /\ f.current = e.current
      /\ f.armed = e.armed /\ f.incident = e.incident /\ f.request = e.request
  BY DEF Shape, Fields
<1>2. S \subseteq Orders /\ \A o \in S : Askable(o)
  <2>1. Stop(p, Other(s)) \in Orders
    BY Orders_Of DEF Sides, Other
  <2>2. \A r \in Pairs, t \in Sides : Stop(p, Other(s)) = Stop(r, t) => p = r /\ t = Other(s)
    BY DEF Stop
  <2>3. Other(Other(s)) = s
    BY DEF Sides, Other
  <2>4. Askable(Stop(p, Other(s)))
    BY <2>1, <2>2, <2>3 DEF Askable
  <2>5. QED
    BY <2>1, <2>4, EntriesAskable
<1>3. Selected(e, p, s) = Ask(f, S)
  BY DEF Selected
<1> HIDE DEF f, S
<1>4. /\ Rest(f, Ask(f, S)) /\ Ask(f, S).state = f.state /\ Ask(f, S).request \subseteq f.request \cup S
      /\ Ask(f, S).armed = f.armed /\ Ask(f, S).incident = f.incident
  BY <1>1, <1>2, AskIs
<1>5. QED
  BY <1>1, <1>2, <1>3, <1>4 DEF Chooses, Rest

LEMMA StepChooses == ASSUME NEW e, NEW f, Shape(e), Chosen(e), NEW p \in Pairs, NEW s \in Sides,
                            Opened(p), Chooses(e, f, p, s)
                     PROVE  Step(e, f)
<1>1. Frame(e, f)
  BY DEF Frame, Chooses
<1>2. Chosen(f)
  BY DEF Chosen, Chooses, Shape
<1>3. ASSUME NEW r \in Pairs PROVE Moves(e, f, r)
  <2>1. f.repair[r] = e.repair[r] /\ Len(e.repair[r]) \in Nat
    BY DEF Chooses, Shape
  <2>2. QED
    BY <2>1 DEF Moves, Chooses
<1>4. QED
  BY <1>1, <1>2, <1>3 DEF Step, Chooses

\* The position of a pair that opened is protected again.
Guards(e, f, p) ==
  /\ Shape(f) /\ f.winner = e.winner /\ f.state = e.state
  /\ f.authorization = e.authorization /\ f.current = e.current
  /\ f.armed = e.armed /\ f.request = e.request
  /\ e.incident => f.incident
  /\ \A r \in Pairs : r # p => f.repair[r] = e.repair[r]
  /\ Len(e.repair[p]) <= Len(f.repair[p])

LEMMA StepGuards == ASSUME NEW e, NEW f, Shape(e), Chosen(e), NEW p \in Pairs, Opened(p), Owned # 0,
                           e.state[p] # "complete", Guards(e, f, p)
                    PROVE  Step(e, f)
<1>1. Frame(e, f) /\ Chosen(f)
  BY DEF Frame, Guards, Chosen
<1>2. ASSUME NEW r \in Pairs PROVE Moves(e, f, r)
  <2>1. Len(e.repair[r]) \in Nat
    BY DEF Shape
  <2>2. CASE r = p
    BY <2>1, <2>2 DEF Moves, Guards
  <2>3. CASE r # p
    BY <2>1, <2>3 DEF Moves, Guards
  <2>4. QED
    BY <2>2, <2>3
<1>3. QED
  BY <1>1, <1>2 DEF Step, Guards

LEMMA GuardsAlarm == ASSUME NEW e, NEW f, NEW p, Guards(e, f, p)
                     PROVE  Guards(e, Alarm(f), p)
<1>1. Shape(f)
  BY DEF Guards
<1>2. QED
  BY <1>1, AlarmIs DEF Guards, Rest

LEMMA GuardsSame == ASSUME NEW e, Shape(e), NEW p \in Pairs PROVE Guards(e, e, p)
BY DEF Guards, Shape

LEMMA GuardsAmends == ASSUME NEW e, Shape(e), NEW p \in Pairs, NEW a
                      PROVE  Guards(e, [e EXCEPT !.amendment = a], p)
BY DEF Guards, Shape, Fields

LEMMA RepairGuards == ASSUME NEW e, Shape(e), NEW p \in Pairs, NEW q \in Int, NEW how
                      PROVE  Guards(e, RepairStop(e, p, q, how), p)
<1> DEFINE f == [e EXCEPT !.repair[p] = Append(@, Abs(q)), !.amendment[p] = NoAmendment]
<1>1. ASSUME Len(e.repair[p]) < MaxRepairs PROVE Guards(e, f, p)
  <2>1. Abs(q) \in Int
    BY DEF Abs
  <2>2. e.repair[p] \in Seq(Int) /\ MaxRepairs \in Nat
    BY PairAssumption DEF Shape
  <2>3. /\ Append(e.repair[p], Abs(q)) \in Seq(Int)
        /\ Len(Append(e.repair[p], Abs(q))) = Len(e.repair[p]) + 1
    BY <2>1, <2>2
  <2>4. f.repair = [e.repair EXCEPT ![p] = Append(e.repair[p], Abs(q))]
    BY DEF Shape, Fields
  <2>5. /\ f.winner = e.winner /\ f.state = e.state /\ f.counted = e.counted
        /\ f.authorization = e.authorization /\ f.current = e.current
        /\ f.armed = e.armed /\ f.request = e.request /\ f.incident = e.incident
        /\ DOMAIN f = DOMAIN e
    BY DEF Shape, Fields
  <2> HIDE DEF f
  <2>6. f.repair[p] = Append(e.repair[p], Abs(q)) /\ \A r \in Pairs : r # p => f.repair[r] = e.repair[r]
    BY <2>4 DEF Shape
  <2>7. f.repair \in [Pairs -> Seq(Int)]
    BY <2>3, <2>4 DEF Shape
  <2>8. \A r \in Pairs : Len(f.repair[r]) <= MaxRepairs
    BY <1>1, <2>2, <2>3, <2>6 DEF Shape
  <2>9. Shape(f)
    BY <2>5, <2>7, <2>8 DEF Shape
  <2>10. QED
    BY <2>2, <2>3, <2>5, <2>6, <2>9 DEF Guards
<1> HIDE DEF f
<1>2. \/ RepairStop(e, p, q, how) = e
      \/ /\ Len(e.repair[p]) < MaxRepairs
         /\ RepairStop(e, p, q, how) \in {f, Alarm(f)}
  BY DEF RepairStop, f
<1>3. QED
  BY <1>1, <1>2, GuardsSame, GuardsAlarm

LEMMA UpdateGuards == ASSUME NEW e, Shape(e), NEW p \in Pairs, NEW q \in Int, NEW how
                      PROVE  Guards(e, UpdateProtection(e, p, q, how), p)
<1> DEFINE o == ProtectionOf(e, p)
           c == [e EXCEPT !.amendment[p].state = "acknowledged"]
           f == [e EXCEPT !.amendment[p] =
                   [state |-> "pending", order |-> o, size |-> Abs(q), sent |-> how # "raises"]]
<1>1. UpdateProtection(e, p, q, how) \in {c, e, Alarm(e), RepairStop(e, p, q, how), f, Alarm(f)}
  BY DEF UpdateProtection
<1>2. Guards(e, c, p)
  <2>1. \E a : c = [e EXCEPT !.amendment = a]
    OBVIOUS
  <2>2. QED
    BY <2>1, GuardsAmends
<1>3. Guards(e, f, p)
  <2>1. \E a : f = [e EXCEPT !.amendment = a]
    OBVIOUS
  <2>2. QED
    BY <2>1, GuardsAmends
<1> HIDE DEF c, f
<1>4. QED
  BY <1>1, <1>2, <1>3, GuardsSame, GuardsAlarm, RepairGuards

LEMMA StepShape == ASSUME NEW e, NEW f, Step(e, f) PROVE Shape(e) /\ Shape(f) /\ Chosen(f)
BY DEF Step, Frame

LEMMA StepAlarm == ASSUME NEW e, Shape(e), Chosen(e) PROVE Step(e, Alarm(e))
<1>1. Kept(e, Alarm(e)) /\ Alarm(e).state = e.state
  BY AlarmIs DEF Kept
<1>2. QED
  BY <1>1, StepFlags

LEMMA StepDisarm == ASSUME NEW e, Shape(e), Chosen(e) PROVE Step(e, Disarm(e))
<1>1. Kept(e, Disarm(e)) /\ Disarm(e).state = e.state
  BY DisarmIs DEF Kept
<1>2. QED
  BY <1>1, StepFlags

LEMMA StepCancel == ASSUME NEW e, Shape(e), Chosen(e), NEW p \in Pairs,
                           e.state[p] \notin {"none", "cancelled"}
                    PROVE  Step(e, Cancel(e, p))
<1>1. Kept(e, Cancel(e, p))
  <2>1. /\ Rest(e, Cancel(e, p))
        /\ \A o \in Cancel(e, p).request : o \in e.request \/ Askable(o)
        /\ Cancel(e, p).armed = e.armed /\ Cancel(e, p).incident = e.incident
    BY CancelIs
  <2>2. QED
    BY <2>1 DEF Kept
<1>2. Turns(e, Cancel(e, p), p, "cancelling")
  BY <1>1, CancelIs DEF Turns
<1>3. QED
  BY <1>2, StepState DEF States

LEMMA OwnedInt == ASSUME executed \in [Orders -> Nat] PROVE Owned \in Int
BY PositionIs DEF Owned

\* A pair is reconciled: when both its entries executed the run is disarmed, and a pair that
\* opened is not complete while the run holds shares.
Stopped(e, f, p) ==
  /\ e.state[p] # "none" /\ Both(p) => ~f.armed /\ f.incident
  /\ Opened(p) /\ Owned # 0 => f.state[p] # "complete"

LEMMA StoppedThen == ASSUME NEW e, NEW f, NEW g, NEW p \in Pairs, Stopped(e, f, p), Step(f, g)
                     PROVE  Stopped(e, g, p)
BY DEF Stopped, Step, Frame, Moves

LEMMA StepSync ==
  ASSUME executed \in [Orders -> Nat], NEW e, Shape(e), Chosen(e), NEW p \in Pairs, NEW how
  PROVE  Step(e, Sync(e, p, how)) /\ Stopped(e, Sync(e, p, how), p)
<1> DEFINE sides == {s \in Sides : executed[Entry(p, s)] > 0}
           s == CHOOSE x \in sides : TRUE
           q == Owned
           u == [e EXCEPT !.state[p] = "uncertain"]
           d == Selected(e, p, s)
           f == [d EXCEPT !.state[p] = "position_open"]
           g == UpdateProtection(f, p, q, how)
<1>1. \/ e.state[p] = "none" /\ Sync(e, p, how) = e
      \/ e.state[p] # "none" /\ sides = Sides /\ Sync(e, p, how) = Disarm(Alarm(u))
      \/ e.state[p] # "none" /\ sides = {} /\ Sync(e, p, how) = Unfilled(e, p)
      \/ sides # {} /\ sides # Sides /\ q = 0 /\ Sync(e, p, how) = d
      \/ /\ e.state[p] # "none" /\ sides # {} /\ sides # Sides /\ q # 0
         /\ Sync(e, p, how) \in {Alarm(f), g, Disarm(Alarm(g))}
  BY DEF Sync
<1>2. /\ sides # {} => s \in Sides /\ executed[Entry(p, s)] > 0
      /\ Both(p) <=> sides = Sides
      /\ Opened(p) <=> sides # {}
  BY DEF Both, Opened
<1>3. \E x \in Sides : TRUE
  BY DEF Sides
<1>4. ASSUME e.state[p] # "none", Opened(p)
      PROVE  Step(e, Disarm(Alarm(u))) /\ Stopped(e, Disarm(Alarm(u)), p)
  <2>1. "uncertain" \in States
    BY DEF States
  <2>2. /\ Rest(e, u) /\ u.state = [e.state EXCEPT ![p] = "uncertain"]
        /\ u.request = e.request /\ u.armed = e.armed /\ u.incident = e.incident
    BY <2>1, StateIs
  <2> HIDE DEF u
  <2>3. Kept(e, u)
    BY <2>2 DEF Kept
  <2>4. Turns(e, u, p, "uncertain")
    BY <1>4, <2>2, <2>3 DEF Turns
  <2>5. Step(e, u)
    BY <2>1, <2>4, StepState
  <2>6. Step(u, Alarm(u))
    BY <2>5, StepShape, StepAlarm
  <2>7. Step(Alarm(u), Disarm(Alarm(u)))
    BY <2>6, StepShape, StepDisarm
  <2>8. Alarm(u).incident /\ Shape(u) /\ Shape(Alarm(u))
    BY <2>5, <2>6, StepShape, AlarmIs
  <2>9. Disarm(Alarm(u)).state[p] = "uncertain"
    <3>1. Disarm(Alarm(u)).state = Alarm(u).state
      BY <2>8, DisarmIs
    <3>2. Alarm(u).state = u.state
      BY <2>8, AlarmIs
    <3>3. QED
      BY <2>2, <3>1, <3>2 DEF Shape
  <2>10. Stopped(e, Disarm(Alarm(u)), p)
    <3>1. ~Disarm(Alarm(u)).armed /\ Disarm(Alarm(u)).incident
      BY <2>8, DisarmIs
    <3>2. QED
      BY <2>9, <3>1 DEF Stopped
  <2>11. QED
    BY <2>5, <2>6, <2>7, <2>10, StepThen
<1>5. ASSUME sides # {} PROVE Step(e, d) /\ d.state = e.state
  <2>1. s \in Sides /\ executed[Entry(p, s)] > 0 /\ Opened(p)
    BY <1>2, <1>5
  <2> HIDE DEF s
  <2>2. Chooses(e, d, p, s)
    BY <2>1, SelectedIs
  <2>3. Step(e, d)
    BY <2>1, <2>2, StepChooses
  <2>4. QED
    BY <2>2, <2>3 DEF Chooses
<1>6. ASSUME sides # {}, e.state[p] # "none", q # 0
      PROVE  Step(e, f) /\ Step(e, g) /\ Step(f, g) /\ f.state[p] = "position_open"
  <2>1. "position_open" \in States /\ Opened(p)
    BY <1>2, <1>6 DEF States
  <2>2. Step(e, d) /\ d.state = e.state /\ Shape(d) /\ Chosen(d)
    BY <1>5, <1>6, StepShape
  <2> HIDE DEF d
  <2>3. /\ Rest(d, f) /\ f.state = [d.state EXCEPT ![p] = "position_open"]
        /\ f.request = d.request /\ f.armed = d.armed /\ f.incident = d.incident
    BY <2>1, <2>2, StateIs
  <2> HIDE DEF f
  <2>4. Kept(d, f)
    BY <2>2, <2>3 DEF Kept
  <2>5. Turns(d, f, p, "position_open")
    BY <1>6, <2>1, <2>2, <2>3, <2>4 DEF Turns
  <2>6. Step(d, f)
    BY <2>1, <2>5, StepState
  <2>7. Shape(f) /\ Chosen(f) /\ f.state[p] = "position_open"
    BY <2>2, <2>3, <2>6, StepShape DEF Shape
  <2>8. Guards(f, g, p)
    BY <2>7, OwnedInt, UpdateGuards
  <2> HIDE DEF g
  <2>9. Step(f, g)
    BY <1>6, <2>1, <2>7, <2>8, StepGuards
  <2>10. QED
    BY <2>2, <2>6, <2>7, <2>9, StepThen
<1> HIDE DEF u, d, f, g, s
<1>7. CASE e.state[p] = "none" /\ Sync(e, p, how) = e
  BY <1>7, StepSame DEF Stopped
<1>8. CASE e.state[p] # "none" /\ sides = Sides /\ Sync(e, p, how) = Disarm(Alarm(u))
  BY <1>2, <1>3, <1>4, <1>8
<1>9. CASE e.state[p] # "none" /\ sides = {} /\ Sync(e, p, how) = Unfilled(e, p)
  <2>1. ~Opened(p) /\ ~Both(p)
    BY <1>2, <1>3, <1>9
  <2>2. QED
    BY <1>9, <2>1, StepUnfilled DEF Stopped
<1>10. CASE sides # {} /\ sides # Sides /\ q = 0 /\ Sync(e, p, how) = d
  BY <1>2, <1>5, <1>10 DEF Stopped
<1>11. CASE /\ e.state[p] # "none" /\ sides # {} /\ sides # Sides /\ q # 0
            /\ Sync(e, p, how) \in {Alarm(f), g, Disarm(Alarm(g))}
  <2>1. Step(e, f) /\ Step(e, g)
    BY <1>6, <1>11
  <2>2. Step(f, Alarm(f)) /\ Step(g, Alarm(g))
    BY <2>1, StepShape, StepAlarm
  <2>3. Step(Alarm(g), Disarm(Alarm(g)))
    BY <2>2, StepShape, StepDisarm
  <2>4. Step(e, Alarm(f)) /\ Step(e, Disarm(Alarm(g)))
    BY <2>1, <2>2, <2>3, StepThen
  <2>5. Stopped(e, f, p) /\ Stopped(e, g, p)
    <3>1. Stopped(e, f, p)
      BY <1>2, <1>6, <1>11 DEF Stopped
    <3>2. Step(f, g)
      BY <1>6, <1>11
    <3>3. QED
      BY <3>1, <3>2, StoppedThen
  <2>6. Stopped(e, Alarm(f), p) /\ Stopped(e, Alarm(g), p)
    BY <2>2, <2>5, StoppedThen
  <2>7. Stopped(e, Disarm(Alarm(g)), p)
    BY <2>3, <2>6, StoppedThen
  <2>8. QED
    BY <1>11, <2>1, <2>4, <2>5, <2>6, <2>7
<1>12. QED
  BY <1>1, <1>7, <1>8, <1>9, <1>10, <1>11

LEMMA StepCompleted == ASSUME NEW e, Shape(e), Chosen(e), NEW p \in Pairs, NEW ready, executed = filled
                       PROVE  Step(e, Completed(e, p, ready))
<1> DEFINE c == [e EXCEPT !.state[p] = "complete"]
           f == IF e.authorization[p] = e.current THEN Disarm(c) ELSE c
<1>1. SUFFICES ASSUME /\ e.state[p] \notin {"none", "complete"} /\ e.winner[p] # "none"
                      /\ Owned = 0 /\ AllEnded(LegsOf(p) \cup Related(e, p))
               PROVE  Step(e, f)
  BY StepSame DEF Completed
<1>2. Opened(p)
  BY <1>1 DEF Chosen
<1>3. /\ Rest(e, c) /\ c.state = [e.state EXCEPT ![p] = "complete"]
      /\ c.request = e.request /\ c.armed = e.armed /\ c.incident = e.incident
  BY StateIs DEF States
<1> HIDE DEF c
<1>4. Shape(c)
  BY <1>3 DEF Rest
<1>5. /\ Rest(c, Disarm(c)) /\ Disarm(c).state = c.state /\ Disarm(c).request = c.request
      /\ ~ Disarm(c).armed /\ Disarm(c).incident = c.incident
  BY <1>4, DisarmIs
<1>6. /\ Rest(e, f) /\ f.state = [e.state EXCEPT ![p] = "complete"]
      /\ f.request = e.request /\ f.incident = e.incident
      /\ f.armed => e.armed
      /\ f.authorization[p] = f.current => ~f.armed
  BY <1>3, <1>5 DEF Rest
<1> HIDE DEF f
<1>7. Frame(e, f) /\ Chosen(f)
  BY <1>6 DEF Frame, Rest, Chosen
<1>8. ASSUME NEW r \in Pairs PROVE Moves(e, f, r)
  <2>1. f.repair[r] = e.repair[r] /\ Len(e.repair[r]) \in Nat /\ Related(f, r) = Related(e, r)
    BY <1>6 DEF Rest, Shape, Related
  <2>2. f.state[r] = IF r = p THEN "complete" ELSE e.state[r]
    BY <1>6 DEF Shape
  <2>3. CASE r = p
    BY <1>1, <1>2, <1>6, <2>1, <2>2, <2>3 DEF Moves
  <2>4. CASE r # p
    BY <2>1, <2>2, <2>4 DEF Moves
  <2>5. QED
    BY <2>3, <2>4
<1>9. QED
  BY <1>6, <1>7, <1>8 DEF Step

\* A position that is not flat has a pair that opened it.
LEMMA OpenerIs == ASSUME executed \in [Orders -> Nat], Owned # 0 PROVE Opener \in Pairs
<1> DEFINE T == {m \in Nat : \E p \in Pairs : m = MaxPairs - p /\ Holding(executed, p) # 0}
           Last(p) == Holding(executed, p) # 0 /\ \A r \in Pairs : r > p => Holding(executed, r) = 0
<1>1. PICK p \in Pairs : Holding(executed, p) # 0
  BY PositionIs DEF Owned
<1>2. Pairs = 1..MaxPairs /\ MaxPairs \in Nat
  BY PairAssumption DEF Pairs
<1>3. MaxPairs - p \in T
  BY <1>1, <1>2
<1>4. \E m \in T : \A n \in T : m <= n
  <2> HIDE DEF T
  <2>1. T \in SUBSET Nat /\ T # {}
    BY <1>3 DEF T
  <2>2. QED
    BY <2>1, Least
<1>5. PICK m \in T : \A n \in T : m <= n
  BY <1>4
<1>6. PICK r \in Pairs : m = MaxPairs - r /\ Holding(executed, r) # 0
  OBVIOUS
<1>7. ASSUME NEW t \in Pairs, t > r, Holding(executed, t) # 0 PROVE FALSE
  <2>1. MaxPairs - t \in T
    BY <1>2, <1>7
  <2>2. m <= MaxPairs - t
    BY <1>5, <2>1
  <2>3. QED
    BY <1>2, <1>6, <1>7, <2>2
<1>8. Last(r)
  BY <1>6, <1>7
<1>9. QED
  <2>1. Opener = CHOOSE q \in Pairs : Last(q)
    BY DEF Opener
  <2> HIDE DEF Last
  <2>2. QED
    BY <1>8, <2>1

LEMMA StepProtect == ASSUME executed \in [Orders -> Nat], NEW e, Shape(e), Chosen(e), NEW how,
                            \A p \in Pairs : Opened(p) /\ Owned # 0 => e.state[p] # "complete"
                     PROVE  Step(e, Protect(e, how))
<1> DEFINE q == Owned
           p == Opener
           f == IF Provisional(e, p, q, how) THEN e ELSE Alarm(e)
<1>1. \/ Protect(e, how) = e
      \/ q # 0 /\ Protect(e, how) = f
      \/ q # 0 /\ e.winner[p] # "none" /\ Protect(e, how) = UpdateProtection(f, p, q, how)
  BY DEF Protect
<1>2. Step(e, f) /\ f.winner = e.winner /\ f.state = e.state
  <2>1. Alarm(e).winner = e.winner /\ Alarm(e).state = e.state
    BY AlarmIs DEF Rest
  <2>2. QED
    BY <2>1, StepSame, StepAlarm
<1> HIDE DEF f, p
<1>3. CASE Protect(e, how) = e
  BY <1>3, StepSame
<1>4. CASE q # 0 /\ Protect(e, how) = f
  BY <1>2, <1>4
<1>5. CASE q # 0 /\ e.winner[p] # "none" /\ Protect(e, how) = UpdateProtection(f, p, q, how)
  <2>1. p \in Pairs
    BY <1>5, OpenerIs DEF p
  <2>2. Opened(p)
    BY <1>5, <2>1 DEF Chosen
  <2>3. Shape(f) /\ Chosen(f) /\ f.state[p] # "complete"
    BY <1>2, <1>5, <2>1, <2>2, StepShape
  <2>4. Guards(f, UpdateProtection(f, p, q, how), p)
    BY <2>1, <2>3, OwnedInt, UpdateGuards
  <2>5. Step(f, UpdateProtection(f, p, q, how))
    BY <1>5, <2>1, <2>2, <2>3, <2>4, StepGuards
  <2>6. QED
    BY <1>2, <1>5, <2>5, StepThen
<1>6. QED
  BY <1>1, <1>3, <1>4, <1>5

-----------------------------------------------------------------------------
(* Every pair in turn.                                                     *)

Kinds == {"sync", "maintain", "complete"}
One(k, e, p, x, how) ==
  IF k = "sync" THEN Sync(e, p, how)
  ELSE IF k = "complete" THEN Completed(e, p, how)
  ELSE LET f == Sync(e, p, how) IN IF Stale(f, p, x) THEN Cancel(f, p) ELSE f

\* g is what is left of the record after the pairs 1, 2, ... up to n.
Chain(g, k, e, x, how, n) ==
  g = [p \in 0..n |-> IF p = 0 THEN e ELSE One(k, g[p - 1], p, x, how)]

LEMMA StepOne ==
  ASSUME executed \in [Orders -> Nat], NEW k \in Kinds, NEW e, Shape(e), Chosen(e), NEW p \in Pairs,
         NEW x, NEW how, k = "complete" => executed = filled
  PROVE  /\ Step(e, One(k, e, p, x, how))
         /\ k # "complete" => Stopped(e, One(k, e, p, x, how), p)
<1> DEFINE f == Sync(e, p, how)
<1>1. Step(e, f) /\ Stopped(e, f, p)
  BY StepSync
<1>2. k = "complete" => Step(e, Completed(e, p, how))
  BY StepCompleted
<1>3. Stale(f, p, x) => Step(f, Cancel(f, p))
  <2>1. Shape(f) /\ Chosen(f)
    BY <1>1, StepShape
  <2> HIDE DEF f
  <2>2. ASSUME Stale(f, p, x) PROVE f.state[p] \notin {"none", "cancelled"}
    BY <2>2 DEF Stale
  <2>3. QED
    BY <2>1, <2>2, StepCancel
<1>4. k # "sync" /\ k # "complete" => One(k, e, p, x, how) = IF Stale(f, p, x) THEN Cancel(f, p) ELSE f
  BY DEF One
<1>5. k = "sync" => One(k, e, p, x, how) = f
  BY DEF One
<1>6. k = "complete" => One(k, e, p, x, how) = Completed(e, p, how)
  BY DEF One
<1> HIDE DEF f
<1>7. CASE k # "sync" /\ k # "complete" /\ Stale(f, p, x)
  <2>1. Step(f, Cancel(f, p)) /\ One(k, e, p, x, how) = Cancel(f, p)
    BY <1>3, <1>4, <1>7
  <2>2. Step(e, Cancel(f, p))
    BY <1>1, <2>1, StepThen
  <2>3. Stopped(e, Cancel(f, p), p)
    BY <1>1, <2>1, StoppedThen
  <2>4. QED
    BY <2>1, <2>2, <2>3
<1>8. QED
  BY <1>1, <1>2, <1>4, <1>5, <1>6, <1>7

LEMMA ChainExists == ASSUME NEW k, NEW e, NEW x, NEW how, NEW n \in Nat
                     PROVE  \E g : Chain(g, k, e, x, how, n)
<1> DEFINE T == {m \in Nat : ~ \E g : Chain(g, k, e, x, how, m)}
<1> SUFFICES ASSUME T # {} PROVE FALSE
  OBVIOUS
<1>1. PICK m \in T : \A i \in T : m <= i
  BY Least
<1>2. CASE m = 0
  <2> DEFINE g == [i \in 0..0 |-> e]
  <2>1. Chain(g, k, e, x, how, 0)
    BY DEF Chain
  <2>2. QED
    BY <1>2, <2>1
<1>3. CASE m # 0
  <2>1. m - 1 \in Nat /\ m - 1 \notin T
    BY <1>1, <1>3
  <2>2. PICK g : Chain(g, k, e, x, how, m - 1)
    BY <2>1
  <2> DEFINE h == [i \in 0..m |-> IF i = m THEN One(k, g[m - 1], m, x, how) ELSE g[i]]
  <2>3. \A i \in 0..(m - 1) : g[i] = IF i = 0 THEN e ELSE One(k, g[i - 1], i, x, how)
    BY <2>1, <2>2 DEF Chain
  <2>4. \A i \in 0..m : h[i] = IF i = 0 THEN e ELSE One(k, h[i - 1], i, x, how)
    BY <2>1, <2>3, <1>3
  <2>5. Chain(h, k, e, x, how, m)
    <3>1. h = [i \in 0..m |-> h[i]]
      OBVIOUS
    <3> HIDE DEF h
    <3>2. QED
      BY <2>4, <3>1 DEF Chain
  <2>6. QED
    BY <2>5, <1>1
<1>4. QED
  BY <1>2, <1>3

\* All the pairs together are a step, which disarms a run with two entries executed.
LEMMA ChainSteps ==
  ASSUME executed \in [Orders -> Nat], NEW k \in Kinds, NEW e, Shape(e), Chosen(e), NEW x, NEW how,
         k = "complete" => executed = filled, NEW g, Chain(g, k, e, x, how, MaxPairs)
  PROVE  /\ Step(e, g[MaxPairs])
         /\ k # "complete" => \A p \in Pairs : Stopped(e, g[MaxPairs], p)
<1> DEFINE Good(m) == /\ Step(e, g[m])
                      /\ k # "complete" => \A p \in Pairs : p <= m => Stopped(e, g[m], p)
           T == {m \in Nat : m <= MaxPairs /\ ~Good(m)}
<1>0. MaxPairs \in Nat /\ Pairs = 1..MaxPairs
  BY PairAssumption DEF Pairs
<1>1. SUFFICES ASSUME T # {} PROVE FALSE
  <2>1. Good(MaxPairs)
    <3> HIDE DEF Good
    <3> QED
      BY <1>0, <1>1
  <2>2. QED
    BY <1>0, <2>1
<1>2. PICK m \in T : \A i \in T : m <= i
  <2> HIDE DEF T
  <2>1. T \in SUBSET Nat
    BY DEF T
  <2>2. QED
    BY <1>1, <2>1, Least
<1>3. m \in 0..MaxPairs /\ ~Good(m)
  OBVIOUS
<1>4. m # 0 => m - 1 \in 0..MaxPairs /\ Good(m - 1)
  <2>1. ASSUME m # 0 PROVE m - 1 \in Nat /\ m - 1 <= MaxPairs /\ ~(m <= m - 1)
    BY <1>0, <1>3, <2>1
  <2>2. ASSUME m # 0 PROVE m - 1 \notin T
    BY <1>2, <2>1, <2>2
  <2> HIDE DEF Good
  <2>3. QED
    BY <1>0, <1>3, <2>1, <2>2
<1>5. g[m] = IF m = 0 THEN e ELSE One(k, g[m - 1], m, x, how)
  BY <1>3 DEF Chain
<1>6. CASE m = 0
  <2>1. Step(e, e)
    BY StepSame
  <2>2. QED
    BY <1>0, <1>3, <1>5, <1>6, <2>1
<1>7. CASE m # 0
  <2>1. m \in Pairs /\ Step(e, g[m - 1]) /\ Shape(g[m - 1]) /\ Chosen(g[m - 1])
    BY <1>0, <1>3, <1>4, <1>7, StepShape
  <2>2. Step(g[m - 1], g[m]) /\ (k # "complete" => Stopped(g[m - 1], g[m], m))
    BY <1>5, <1>7, <2>1, StepOne
  <2>3. Step(e, g[m])
    BY <2>1, <2>2, StepThen
  <2>4. ASSUME k # "complete", NEW p \in Pairs, p <= m PROVE Stopped(e, g[m], p)
    <3>1. CASE p = m
      BY <2>1, <2>2, <2>4, <3>1 DEF Stopped, Step, Moves
    <3>2. CASE p # m
      <4>1. Stopped(e, g[m - 1], p)
        BY <1>0, <1>3, <1>4, <1>7, <2>4, <3>2
      <4>2. QED
        BY <2>2, <4>1, StoppedThen
    <3>3. QED
      BY <3>1, <3>2
  <2>5. QED
    BY <1>3, <2>3, <2>4
<1>8. QED
  BY <1>6, <1>7

LEMMA SyncedSteps ==
  ASSUME executed \in [Orders -> Nat], NEW e, Shape(e), Chosen(e), NEW how
  PROVE  /\ Step(e, Synced(e, how))
         /\ \A p \in Pairs : Stopped(e, Synced(e, how), p)
<1> DEFINE Iter(g) == g = [p \in 0..MaxPairs |-> IF p = 0 THEN e ELSE Sync(g[p - 1], p, how)]
           to == CHOOSE g : Iter(g)
<1>1. \A g : Chain(g, "sync", e, {}, how, MaxPairs) <=> Iter(g)
  <2>1. \A h, p : One("sync", h, p, {}, how) = Sync(h, p, how)
    BY DEF One
  <2>2. QED
    BY <2>1 DEF Chain
<1>2. Chain(to, "sync", e, {}, how, MaxPairs)
  <2>1. \E g : Iter(g)
    <3> HIDE DEF Iter
    <3> QED
      BY <1>1, ChainExists, PairAssumption
  <2> HIDE DEF Iter
  <2>2. QED
    BY <1>1, <2>1
<1>3. Synced(e, how) = to[MaxPairs]
  BY DEF Synced
<1>4. "sync" \in Kinds
  BY DEF Kinds
<1> HIDE DEF to
<1>5. QED
  BY <1>2, <1>3, <1>4, ChainSteps

LEMMA FinishedSteps == ASSUME executed \in [Orders -> Nat], NEW e, Shape(e), Chosen(e), NEW ready,
                              executed = filled
                       PROVE  Step(e, Finished(e, ready))
<1> DEFINE Iter(g) == g = [p \in 0..MaxPairs |-> IF p = 0 THEN e ELSE Completed(g[p - 1], p, ready)]
           to == CHOOSE g : Iter(g)
<1>1. \A g : Chain(g, "complete", e, {}, ready, MaxPairs) <=> Iter(g)
  <2>1. \A h, p : One("complete", h, p, {}, ready) = Completed(h, p, ready)
    BY DEF One
  <2>2. QED
    BY <2>1 DEF Chain
<1>2. Chain(to, "complete", e, {}, ready, MaxPairs)
  <2>1. \E g : Iter(g)
    <3> HIDE DEF Iter
    <3> QED
      BY <1>1, ChainExists, PairAssumption
  <2> HIDE DEF Iter
  <2>2. QED
    BY <1>1, <2>1
<1>3. Finished(e, ready) = to[MaxPairs]
  BY DEF Finished
<1>4. "complete" \in Kinds
  BY DEF Kinds
<1> HIDE DEF to
<1>5. QED
  BY <1>2, <1>3, <1>4, ChainSteps

LEMMA MaintainedSteps == ASSUME executed \in [Orders -> Nat], NEW e, Shape(e), Chosen(e), NEW x, NEW how
                         PROVE  Step(e, Maintained(e, x, how)) /\ \A p \in Pairs : Stopped(e, Maintained(e, x, how), p)
<1> DEFINE Turned(h, p) == LET f == Sync(h, p, how) IN IF Stale(f, p, x) THEN Cancel(f, p) ELSE f
           Iter(g) == g = [p \in 0..MaxPairs |-> IF p = 0 THEN e ELSE Turned(g[p - 1], p)]
           to == CHOOSE g : Iter(g)
<1>1. \A g : Chain(g, "maintain", e, x, how, MaxPairs) <=> Iter(g)
  <2>1. \A h, p : One("maintain", h, p, x, how) = Turned(h, p)
    BY DEF One
  <2> HIDE DEF Turned
  <2>2. QED
    BY <2>1 DEF Chain
<1>2. Chain(to, "maintain", e, x, how, MaxPairs)
  <2>1. \E g : Iter(g)
    <3> HIDE DEF Iter
    <3> QED
      BY <1>1, ChainExists, PairAssumption
  <2> HIDE DEF Iter
  <2>2. QED
    BY <1>1, <2>1
<1>3. Maintained(e, x, how) = to[MaxPairs]
  BY DEF Maintained
<1>4. "maintain" \in Kinds
  BY DEF Kinds
<1> HIDE DEF to
<1>5. QED
  BY <1>2, <1>3, <1>4, ChainSteps

-----------------------------------------------------------------------------
(* What the invariant says of a pair that is over.                         *)

Quiet(p) == \A o \in OrdersOf(p) : status[o] \in TERMINAL \cup {"none"}

LEMMA NotBoth == ASSUME NEW p \in Pairs, NEW r \in Pairs, p # r
                 PROVE  OrdersOf(p) \cap OrdersOf(r) = {}
BY DEF OrdersOf, LegsOf, EntriesOf, Repairs, Entry, Stop

LEMMA RepairsAre == ASSUME NEW p \in Pairs, NEW o \in OrdersOf(p) \ LegsOf(p)
                    PROVE  \E i \in 1..MaxRepairs : o = At(p, i)
BY DEF OrdersOf, Repairs, At

\* A pair that never opened has nothing at the broker, and nothing of it filled.
LEMMA UnopenedIsQuiet == ASSUME IInv, NEW p \in Pairs, Unopened(engine, p)
                         PROVE  /\ Quiet(p) /\ ~Opened(p)
                                /\ \A o \in OrdersOf(p) : filled[o] = 0
<1>1. ~Opened(p) /\ (DocIdle(p) \/ Unsent(p))
  <2>1. CASE engine.state[p] = "none"
    <3>1. Unsent(p)
      BY <2>1 DEF IInv, Engine, Recorded
    <3>2. \A s \in Sides : filled[Entry(p, s)] = 0
      BY <3>1, Orders_Of DEF IInv, DocsAreFinal, Unsent
    <3>3. \A s \in Sides : ~ (executed[Entry(p, s)] > 0)
      BY <3>2, Orders_Of DEF IInv, Typed
    <3>4. QED
      BY <3>1, <3>3 DEF Opened
  <2>2. CASE engine.state[p] = "cancelled"
    BY <2>2 DEF IInv, Engine, CancelledIsOver
  <2>3. QED
    BY <2>1, <2>2 DEF Unopened
<1>2. ASSUME NEW o \in LegsOf(p) PROVE status[o] \in TERMINAL \cup {"none"} /\ filled[o] = 0
  <2>1. o \in Orders
    BY Orders_Of
  <2>2. filled[o] \in Nat
    BY <2>1 DEF IInv, Typed
  <2>3. QED
    BY <1>1, <2>1, <2>2 DEF DocIdle, Unsent, IInv, DocsAreFinal
<1>3. engine.repair[p] = <<>>
  BY <1>1 DEF IInv, Engine, FollowsFill
<1>4. ASSUME NEW o \in OrdersOf(p) \ LegsOf(p) PROVE status[o] = "none" /\ filled[o] = 0
  <2>1. PICK i \in 1..MaxRepairs : o = At(p, i)
    BY RepairsAre
  <2>2. i > Len(engine.repair[p])
    BY <1>3, PairAssumption
  <2>3. status[o] = "none"
    BY <2>1, <2>2 DEF IInv, Engine, Recorded
  <2>4. o \in Orders
    BY Orders_Of
  <2>5. QED
    BY <2>3, <2>4 DEF IInv, DocsAreFinal
<1>5. QED
  BY <1>1, <1>2, <1>4 DEF Quiet

LEMMA RelatedAre == ASSUME NEW e, NEW p \in Pairs, NEW i \in 1..MaxRepairs, Shape(e)
                    PROVE  At(p, i) \in Related(e, p) <=> i <= Len(e.repair[p])
<1>1. Len(e.repair[p]) \in Nat /\ Len(e.repair[p]) <= MaxRepairs /\ MaxRepairs \in 0..2
  BY PairAssumption DEF Shape
<1>2. \A j \in 1..MaxRepairs : Turn[i] = Turn[j] => i = j
  BY <1>1 DEF Turn
<1>3. QED
  BY <1>1, <1>2 DEF Related, At

LEMMA CompleteIsQuiet == ASSUME IInv, NEW p \in Pairs, engine.state[p] = "complete"
                         PROVE  Quiet(p) /\ Opened(p)
<1>1. Opened(p) /\ AllEnded(LegsOf(p) \cup Related(engine, p))
  BY DEF IInv, Engine, CompleteIsOver
<1>2. ASSUME NEW o \in OrdersOf(p) PROVE status[o] \in TERMINAL \cup {"none"}
  <2>1. o \in Orders
    BY Orders_Of
  <2>2. CASE o \in LegsOf(p) \cup Related(engine, p)
    BY <1>1, <2>1, <2>2 DEF AllEnded, IInv, DocsAreFinal
  <2>3. CASE o \notin LegsOf(p) \cup Related(engine, p)
    <3>1. PICK i \in 1..MaxRepairs : o = At(p, i)
      BY <2>3, RepairsAre
    <3>2. Shape(engine)
      BY DEF IInv, Engine
    <3>3. ~ (i <= Len(engine.repair[p]))
      BY <2>3, <3>1, <3>2, RelatedAre
    <3>4. Len(engine.repair[p]) \in Nat
      BY <3>2 DEF Shape
    <3>5. QED
      BY <3>1, <3>3, <3>4 DEF IInv, Engine, Recorded
  <2>4. QED
    BY <2>2, <2>3
<1>3. QED
  BY <1>1, <1>2 DEF Quiet

LEMMA Live == ASSUME IInv, NEW p \in Pairs, ~Quiet(p) PROVE Unfinished(engine, p)
BY UnopenedIsQuiet, CompleteIsQuiet DEF Unopened, Unfinished

-----------------------------------------------------------------------------
(* The properties.                                                         *)

LEMMA Types == ASSUME IInv PROVE TypeOK
<1>1. \A o \in Orders : status[o] \in Statuses /\ executed[o] \in Nat /\ executed[o] <= filled[o]
  BY DEF IInv, Typed
<1>2. candidate.pair \in 0..MaxPairs
  BY PairAssumption DEF IInv, Typed
<1>3. QED
  BY <1>1, <1>2 DEF TypeOK, IInv, Typed, Engine, Shape, Statuses

LEMMA Protects == ASSUME IInv PROVE ProtectionIsKept
<1>1. ASSUME NEW p \in Pairs, NEW s \in Sides, Stop(p, s) \in engine.request
      PROVE  filled[Entry(p, s)] = 0 \/ Overfilled(p)
  <2>1. executed[Entry(p, Other(s))] > 0
    BY <1>1 DEF IInv, Engine, OrphansOnly
  <2>2. Entry(p, s) \in Orders /\ Entry(p, Other(s)) \in Orders /\ Other(s) \in Sides
    BY Orders_Of DEF Other, Sides
  <2>3. filled[Entry(p, Other(s))] > 0 /\ filled[Entry(p, s)] \in Nat
    BY <2>1, <2>2 DEF IInv, Typed
  <2>4. \A t \in Sides : t = s \/ t = Other(s)
    BY DEF Other, Sides
  <2>5. QED
    BY <2>3, <2>4 DEF Overfilled
<1>2. QED
  BY <1>1 DEF ProtectionIsKept

LEMMA Disarmed == ASSUME IInv PROVE OverfillDisarms
BY DEF IInv, OverfillStops, OverfillDisarms, Both

LEMMA LiveOrdersOf == ASSUME NEW p \in Pairs, Quiet(p) PROVE LiveOrders(p) = {}
BY DEF Quiet, LiveOrders, TERMINAL

LEMMA OneAtWork == ASSUME IInv, OneTrade PROVE OnePairAtWork
<1>1. ASSUME NEW p \in Pairs, NEW r \in Pairs, LiveOrders(p) # {}, LiveOrders(r) # {} PROVE p = r
  <2>1. ~Quiet(p) /\ ~Quiet(r)
    BY <1>1, LiveOrdersOf
  <2>2. Unfinished(engine, p) /\ Unfinished(engine, r)
    BY <2>1, Live
  <2>3. QED
    BY <2>2 DEF IInv, Trade, OneOpen
<1>2. QED
  BY <1>1 DEF OnePairAtWork

LEMMA NoCompetition == ASSUME OnePairAtWork PROVE ExitsDoNotCompete
BY DEF OnePairAtWork, ExitsDoNotCompete, Works, LiveOrders

LEMMA Flat == ASSUME IInv, OneTrade PROVE CompleteIsFlat
<1>0. filled \in [Orders -> Nat] /\ executed \in [Orders -> Nat]
  BY DEF IInv, Typed
<1>1. ASSUME NEW p \in Pairs, engine.state[p] = "cancelled"
      PROVE  LiveOrders(p) = {} /\ Holding(filled, p) = 0
  <2>1. Quiet(p) /\ \A o \in OrdersOf(p) : filled[o] = 0
    BY <1>1, UnopenedIsQuiet DEF Unopened
  <2>2. QED
    BY <1>0, <2>1, LiveOrdersOf, HoldingIs
<1>2. ASSUME NEW p \in Pairs, engine.state[p] = "complete"
      PROVE  LiveOrders(p) = {} /\ Holding(filled, p) = 0
  <2>1. Quiet(p) /\ Opened(p)
    BY <1>2, CompleteIsQuiet
  <2>2. executed = filled /\ Owned = 0
    BY <1>2 DEF IInv, Trade, Settled
  <2>3. \E s \in Sides : filled[Entry(p, s)] > 0
    BY <2>1, <2>2 DEF Opened
  <2>4. ASSUME NEW r \in Pairs, r # p PROVE Holding(executed, r) = 0
    <3>1. Unopened(engine, r)
      BY <2>3, <2>4 DEF IInv, Trade, FillsAlone
    <3>2. \A o \in OrdersOf(r) : executed[o] = 0
      BY <2>2, <3>1, UnopenedIsQuiet
    <3>3. QED
      BY <1>0, <3>2, HoldingIs
  <2>5. Owned = Holding(executed, p)
    BY <1>0, <2>4, PositionIs DEF Owned
  <2>6. QED
    BY <2>1, <2>2, <2>5, LiveOrdersOf
<1>3. QED
  BY <1>1, <1>2 DEF CompleteIsFlat

-----------------------------------------------------------------------------
(* Steps of the broker and of the reader thread.                           *)

\* Orders go on, fills are added, and what is reported of an order is how it is.
Onward ==
  /\ engine' = engine /\ Typed'
  /\ bounds'.candles = bounds.candles /\ bounds'.armed = bounds.armed
  /\ \A o \in Orders :
       /\ status[o] \in TERMINAL \cup {"none"} => status'[o] = status[o] /\ filled'[o] = filled[o]
       /\ status'[o] = "none" => status[o] = "none"
       /\ filled[o] <= filled'[o] /\ executed[o] <= executed'[o]
       /\ \/ doc'[o] = doc[o]
          \/ status[o] # "none" /\ doc'[o].status = status'[o] /\ doc'[o].filled = filled'[o]
  /\ executed' = executed \/ executed # filled

LEMMA OnwardDocs == ASSUME IInv, Onward
                    PROVE  /\ DocsAreFinal'
                           /\ \A o \in Orders : doc[o].status \in TERMINAL =>
                                doc'[o].status = doc[o].status /\ doc'[o].filled = doc[o].filled
<1>1. ASSUME NEW o \in Orders
      PROVE  /\ doc'[o].status \in TERMINAL => status'[o] = doc'[o].status /\ filled'[o] = doc'[o].filled
             /\ status'[o] = "none" => doc'[o].status = "none" /\ filled'[o] = 0
             /\ doc[o].status \in TERMINAL =>
                  doc'[o].status = doc[o].status /\ doc'[o].filled = doc[o].filled
  <2>1. /\ doc[o].status \in TERMINAL => status[o] = doc[o].status /\ filled[o] = doc[o].filled
        /\ status[o] = "none" => doc[o].status = "none" /\ filled[o] = 0
    BY DEF IInv, DocsAreFinal
  <2>2. QED
    BY <2>1 DEF Onward
<1>2. QED
  BY <1>1 DEF DocsAreFinal

LEMMA OnwardEngine == ASSUME IInv, Onward PROVE Engine(engine)'
<1>0. /\ engine' = engine /\ bounds'.candles = bounds.candles /\ bounds'.armed = bounds.armed
      /\ Typed /\ Typed' /\ Engine(engine)
  BY DEF Onward, IInv
<1>1. \A p \in Pairs : Opened(p) => Opened(p)'
  <2>1. \A p \in Pairs, s \in Sides : /\ Entry(p, s) \in Orders
                                      /\ executed[Entry(p, s)] \in Nat /\ executed'[Entry(p, s)] \in Nat
                                      /\ executed[Entry(p, s)] <= executed'[Entry(p, s)]
    BY <1>0, Orders_Of DEF Onward, Typed
  <2>2. QED
    BY <2>1 DEF Opened
<1>2. \A p \in Pairs : Unsent(p) => Unsent(p)'
  BY Orders_Of DEF Unsent, Onward
<1>3. \A p \in Pairs : DocIdle(p) => DocIdle(p)'
  BY Orders_Of, OnwardDocs DEF DocIdle
<1>4. ASSUME NEW p \in Pairs, Unopened(engine, p) PROVE ~Opened(p)'
  <2>1. \A s \in Sides : Entry(p, s) \in Orders /\ filled'[Entry(p, s)] = 0
    <3>1. Quiet(p) /\ \A o \in OrdersOf(p) : filled[o] = 0
      BY <1>4, UnopenedIsQuiet
    <3>2. QED
      BY <3>1, Orders_Of DEF Quiet, Onward
  <2>2. \A s \in Sides : executed'[Entry(p, s)] \in Nat /\ executed'[Entry(p, s)] <= 0
    BY <1>0, <2>1 DEF Typed
  <2>3. QED
    BY <2>2 DEF Opened
<1>5. Shape(engine) /\ Authorized(engine)'
  BY <1>0 DEF Engine, Authorized
<1>6. Recorded(engine)'
  <2>1. \A p \in Pairs : \A i \in 1..MaxRepairs :
          status[At(p, i)] = "none" => status'[At(p, i)] = "none"
    BY Orders_Of DEF At, Onward
  <2>2. QED
    BY <1>0, <1>2, <2>1 DEF Engine, Recorded
<1>7. FollowsFill(engine)'
  BY <1>0, <1>1 DEF Engine, FollowsFill
<1>8. OrphansOnly(engine)'
  <2>1. ASSUME NEW p \in Pairs, NEW s \in Sides, Stop(p, s) \in engine.request
        PROVE  executed'[Entry(p, Other(s))] > 0
    <3>1. executed[Entry(p, Other(s))] > 0
      BY <1>0, <2>1 DEF Engine, OrphansOnly
    <3>2. Entry(p, Other(s)) \in Orders
      BY Orders_Of DEF Other, Sides
    <3>3. QED
      BY <1>0, <3>1, <3>2 DEF Typed, Onward
  <2>2. QED
    BY <1>0, <2>1 DEF OrphansOnly
<1>9. CancelledIsOver(engine)'
  BY <1>0, <1>2, <1>3, <1>4 DEF Engine, CancelledIsOver, Unopened
<1>10. CompleteIsOver(engine)'
  <2>1. ASSUME NEW p \in Pairs, engine.state[p] = "complete"
        PROVE  Opened(p)' /\ AllEnded(LegsOf(p) \cup Related(engine, p))'
    <3>1. Opened(p) /\ AllEnded(LegsOf(p) \cup Related(engine, p))
      BY <1>0, <2>1 DEF Engine, CompleteIsOver
    <3>2. LegsOf(p) \cup Related(engine, p) \subseteq Orders
      <4>1. /\ Len(engine.repair[p]) \in Nat /\ Len(engine.repair[p]) <= MaxRepairs
            /\ MaxRepairs \in Nat
        BY <1>5, PairAssumption DEF Shape
      <4>2. Related(engine, p) \subseteq OrdersOf(p)
        BY <4>1, Orders_Of DEF Related
      <4>3. QED
        BY <4>2, Orders_Of
    <3>3. \A o \in Orders : doc[o].status \in TERMINAL => doc'[o].status \in TERMINAL
      BY OnwardDocs
    <3>4. QED
      BY <1>0, <1>1, <3>1, <3>2, <3>3 DEF AllEnded
  <2>2. QED
    BY <1>0, <2>1 DEF CompleteIsOver
<1>11. QED
  BY <1>0, <1>5, <1>6, <1>7, <1>8, <1>9, <1>10 DEF Engine, Shape

LEMMA OnwardTrade == ASSUME IInv, Onward PROVE Trade(engine)'
<1>0. /\ engine' = engine /\ bounds'.candles = bounds.candles /\ bounds'.armed = bounds.armed
      /\ Typed /\ Typed'
  BY DEF Onward, IInv
<1> SUFFICES ASSUME OneTrade PROVE (OneOpen(engine) /\ FillsAlone(engine) /\ Settled(engine))'
  BY <1>0 DEF Trade, OneTrade
<1>1. OneOpen(engine) /\ FillsAlone(engine) /\ Settled(engine)
  BY DEF IInv, Trade
<1>2. OneOpen(engine)'
  BY <1>0, <1>1 DEF OneOpen, Unfinished
<1>3. \A p \in Pairs : Opened(p) => \E s \in Sides : filled[Entry(p, s)] > 0
  <2>1. \A p \in Pairs, s \in Sides : /\ Entry(p, s) \in Orders
                                      /\ executed[Entry(p, s)] \in Nat /\ filled[Entry(p, s)] \in Nat
                                      /\ executed[Entry(p, s)] <= filled[Entry(p, s)]
    BY <1>0, Orders_Of DEF Typed
  <2>2. QED
    BY <2>1 DEF Opened
<1>4. ASSUME NEW p \in Pairs, NEW r \in Pairs, r # p, NEW s \in Sides, filled'[Entry(p, s)] > 0
      PROVE  Unopened(engine, r)
  <2>1. Entry(p, s) \in OrdersOf(p) /\ Entry(p, s) \in Orders
    BY Orders_Of
  <2>2. CASE filled[Entry(p, s)] > 0
    BY <1>1, <1>4, <2>2 DEF FillsAlone
  <2>3. CASE ~ (filled[Entry(p, s)] > 0)
    <3>1. filled'[Entry(p, s)] # filled[Entry(p, s)]
      BY <1>4, <2>3
    <3>2. ~Quiet(p)
      BY <2>1, <3>1 DEF Quiet, Onward
    <3>3. Unfinished(engine, p)
      BY <3>2, Live
    <3>4. ~Unfinished(engine, r)
      BY <1>1, <1>4, <3>3 DEF OneOpen
    <3>5. engine.state[r] # "complete"
      BY <1>1, <1>3, <1>4, <3>3, CompleteIsQuiet DEF FillsAlone, Unopened, Unfinished
    <3>6. QED
      BY <3>4, <3>5 DEF Unfinished, Unopened
  <2>4. QED
    BY <2>2, <2>3
<1>5. FillsAlone(engine)'
  BY <1>0, <1>4 DEF FillsAlone, Unopened
<1>6. ASSUME NEW p \in Pairs, engine.state[p] = "complete"
      PROVE  executed' = executed /\ filled' = filled
  <2>1. Quiet(p) /\ Opened(p)
    BY <1>6, CompleteIsQuiet
  <2>2. executed = filled
    BY <1>1, <1>6 DEF Settled
  <2>3. ASSUME NEW r \in Pairs PROVE Quiet(r)
    <3>1. CASE r = p
      BY <2>1, <3>1
    <3>2. CASE r # p
      <4>1. Unopened(engine, r)
        BY <1>1, <1>3, <2>1, <3>2 DEF FillsAlone
      <4>2. QED
        BY <4>1, UnopenedIsQuiet
    <3>3. QED
      BY <3>1, <3>2
  <2>4. ASSUME NEW o \in Orders PROVE filled'[o] = filled[o]
    <3>1. PICK r \in Pairs : o \in OrdersOf(r)
      BY DEF Orders
    <3>2. QED
      BY <2>3, <3>1 DEF Quiet, Onward
  <2>5. filled' = filled
    BY <1>0, <2>4 DEF Typed
  <2>6. QED
    BY <2>2, <2>5 DEF Onward
<1>7. Settled(engine)'
  <2>1. ASSUME NEW p \in Pairs, engine.state[p] = "complete"
        PROVE  (engine.armed => bounds'.candles = 1) /\ executed' = filled' /\ Owned' = 0
    <3>1. (engine.armed => bounds.candles = 1) /\ executed = filled /\ Owned = 0
      BY <1>1, <2>1 DEF Settled
    <3>2. QED
      BY <1>0, <1>6, <2>1, <3>1 DEF Owned
  <2>2. QED
    BY <1>0, <2>1 DEF Settled
<1>8. QED
  BY <1>2, <1>5, <1>7

LEMMA OnwardInv == ASSUME IInv, Onward, Submits', OverfillStops' PROVE IInv'
BY OnwardDocs, OnwardEngine, OnwardTrade DEF IInv, Onward

\* The broker's steps leave the engine, the ledger and the reader alone.
AtBroker ==
  UNCHANGED <<engine, candidate, expired, sending, reconciled, doc, executed, agreement, told>>

Moved ==
  /\ bounds' = bounds \/ (bounds' = [bounds EXCEPT !.troubles = @ - 1])
                      \/ (bounds' = [bounds EXCEPT !.overfills = @ - 1])
  /\ status' \in [Orders -> Statuses] /\ filled' \in [Orders -> Nat]
  /\ \A o \in Orders :
       /\ status[o] \in TERMINAL \cup {"none"} => status'[o] = status[o] /\ filled'[o] = filled[o]
       /\ status'[o] = "none" => status[o] = "none"
       /\ filled[o] <= filled'[o]

LEMMA BrokerInv == ASSUME IInv, AtBroker, Moved PROVE IInv'
<1>1. /\ bounds' \in [candles : 0..MaxPairs, armed : Nat \ {0}, overfills : Int, troubles : Int]
      /\ bounds'.candles = bounds.candles /\ bounds'.armed = bounds.armed
  BY DEF IInv, Typed, Moved
<1>2. \A o \in Orders : executed[o] \in Nat /\ executed[o] <= filled'[o]
  <2>1. \A o \in Orders : executed[o] \in Nat /\ executed[o] <= filled[o] /\ filled[o] \in Nat
                          /\ filled'[o] \in Nat /\ filled[o] <= filled'[o]
    BY DEF IInv, Typed, Moved
  <2>2. QED
    BY <2>1
<1>3. Typed'
  BY <1>1, <1>2 DEF IInv, Typed, AtBroker, Moved
<1>4. Onward
  BY <1>1, <1>2, <1>3 DEF Onward, AtBroker, Moved
<1>5. Submits'
  <2>1. \A p \in Pairs : Unsent(p) => Unsent(p)'
    BY Orders_Of DEF Unsent, Moved
  <2>2. QED
    BY <2>1 DEF IInv, Submits, AtBroker
<1>6. OverfillStops'
  BY DEF IInv, OverfillStops, AtBroker, Both
<1>7. QED
  BY <1>4, <1>5, <1>6, OnwardInv

\* An order, and with it its child, ends.
Ending ==
  /\ filled' = filled /\ status' \in [Orders -> Statuses]
  /\ \A q \in Orders : \/ status'[q] = status[q]
                       \/ status[q] \in {"staged", "coming", "active"} /\ status'[q] \in TERMINAL
  /\ bounds' = bounds \/ (bounds' = [bounds EXCEPT !.troubles = @ - 1])

LEMMA EndingMoves == ASSUME IInv, Ending PROVE Moved
<1>1. status \in [Orders -> Statuses] /\ filled \in [Orders -> Nat]
  BY DEF IInv, Typed
<1>2. QED
  BY <1>1 DEF Ending, Moved, TERMINAL

LEMMA Broker == ASSUME IInv, BrokerNext PROVE IInv'
<1>0. status \in [Orders -> Statuses] /\ filled \in [Orders -> Nat]
  BY DEF IInv, Typed
<1>1. ASSUME NEW o \in Orders, BrokerRejects(o) PROVE IInv'
  <2>1. AtBroker
    BY <1>1 DEF BrokerRejects, Ends, AtBroker, ledger
  <2>2. Moved
    <3>1. Ending
      BY <1>0, <1>1 DEF BrokerRejects, Trouble, Ends, Ending, Statuses, TERMINAL
    <3>2. QED
      BY <3>1, EndingMoves
  <2>3. QED
    BY <2>1, <2>2, BrokerInv
<1>2. ASSUME NEW o \in Orders, BrokerAccepts(o) PROVE IInv'
  <2>1. AtBroker
    BY <1>2 DEF BrokerAccepts, AtBroker, ledger
  <2>2. Moved
    BY <1>0, <1>2 DEF BrokerAccepts, Moved, Statuses, TERMINAL
  <2>3. QED
    BY <2>1, <2>2, BrokerInv
<1>3. ASSUME NEW o \in Orders, BrokerEnds(o) PROVE IInv'
  <2>1. PICK kept \in BOOLEAN : Ends(o, "Cancelled", kept)
    BY <1>3 DEF BrokerEnds
  <2>2. AtBroker
    BY <1>3, <2>1 DEF BrokerEnds, Ends, AtBroker, ledger
  <2>3. status[o] \in {"staged", "active"}
    BY <1>3 DEF BrokerEnds
  <2>4. bounds' = bounds \/ (bounds' = [bounds EXCEPT !.troubles = @ - 1])
    BY <1>3 DEF BrokerEnds, Trouble
  <2>5. Ending
    BY <1>0, <2>1, <2>3, <2>4 DEF Ends, Ending, Statuses, TERMINAL
  <2>6. Moved
    BY <2>5, EndingMoves
  <2>7. QED
    BY <2>2, <2>6, BrokerInv
<1>4. ASSUME NEW o \in Orders, StopFills(o) PROVE IInv'
  <2>1. AtBroker
    BY <1>4 DEF StopFills, AtBroker, ledger
  <2>2. Moved
    BY <1>0, <1>4 DEF StopFills, Moved, Statuses, TERMINAL
  <2>3. QED
    BY <2>1, <2>2, BrokerInv
<1>5. ASSUME NEW p \in Pairs, BrokerAmends(p) PROVE IInv'
  <2>1. AtBroker
    BY <1>5 DEF BrokerAmends, AtBroker, ledger
  <2>2. Moved
    <3>1. PICK o : /\ status[o] = "active" /\ filled' = filled /\ bounds' = bounds
                   /\ status' = status \/ status' = [status EXCEPT ![o] = "Filled"]
      BY <1>5 DEF BrokerAmends
    <3>2. QED
      BY <1>0, <3>1 DEF Moved, Statuses, TERMINAL
  <2>3. QED
    BY <2>1, <2>2, BrokerInv
<1>6. ASSUME NEW p \in Pairs, NEW s \in Sides, EntryFills(p, s) PROVE IInv'
  <2>1. AtBroker
    BY <1>6 DEF EntryFills, AtBroker, ledger
  <2>2. Moved
    <3>1. Entry(p, s) \in Orders
      BY Orders_Of
    <3> DEFINE o == Entry(p, s)
    <3>2. /\ status[o] = "active" /\ filled' = [filled EXCEPT ![o] = @ + 1]
          /\ status' = [status EXCEPT ![o] = "Filled"] \/ status' = status
          /\ bounds' = bounds \/ bounds' = [bounds EXCEPT !.overfills = @ - 1]
      BY <1>6 DEF EntryFills
    <3> HIDE DEF o
    <3>3. o \in Orders
      BY <3>1 DEF o
    <3>4. QED
      BY <1>0, <3>2, <3>3 DEF Moved, Statuses, TERMINAL
  <2>3. QED
    BY <2>1, <2>2, BrokerInv
<1>7. QED
  BY <1>1, <1>2, <1>3, <1>4, <1>5, <1>6 DEF BrokerNext

\* What is received of an order while the engine thread is not sending.
LEMMA Observes == ASSUME IInv, NEW o \in Orders, ObserveOrder(o) \/ ObserveExecution(o) PROVE IInv'
<1>0. Typed /\ sending.step = "idle"
  BY DEF IInv, ObserveOrder, ObserveExecution, Idle
<1>1. /\ UNCHANGED <<engine, candidate, expired, sending, status, filled, told, bounds>>
      /\ ~reconciled'
  BY DEF ObserveOrder, ObserveExecution, broker
<1>2. /\ DOMAIN doc' = Orders /\ executed' \in [Orders -> Nat]
      /\ \A q \in Orders : /\ executed'[q] <= filled[q] /\ executed[q] <= executed'[q]
                           /\ \/ doc'[q] = doc[q]
                              \/ /\ status[q] # "none" /\ doc'[q].status = status[q]
                                 /\ doc'[q].filled = filled[q]
      /\ executed' = executed \/ executed # filled
  <2>1. CASE ObserveOrder(o)
    <3>1. /\ doc' = [doc EXCEPT ![o] = Reported(o)] /\ executed' = executed /\ status[o] # "none"
      BY <2>1 DEF ObserveOrder, Visible
    <3>2. Reported(o).status = status[o] /\ Reported(o).filled = filled[o]
      BY DEF Reported
    <3>3. QED
      BY <1>0, <3>1, <3>2 DEF Typed
  <2>2. CASE ObserveExecution(o)
    <3>1. /\ doc' = doc /\ executed[o] < filled[o] /\ executed' = [executed EXCEPT ![o] = @ + 1]
      BY <2>2 DEF ObserveExecution
    <3>2. QED
      BY <1>0, <3>1 DEF Typed
  <2>3. QED
    BY <2>1, <2>2
<1>3. Typed'
  BY <1>0, <1>1, <1>2 DEF Typed
<1>4. Onward
  BY <1>0, <1>1, <1>2, <1>3 DEF Onward, Typed
<1>5. Submits' /\ OverfillStops'
  BY <1>0, <1>1 DEF Submits, OverfillStops
<1>6. QED
  BY <1>4, <1>5, OnwardInv

-----------------------------------------------------------------------------
(* Steps of the engine thread that leave its record alone.                 *)

\* The record, the ledger and the fills stay.
Still == UNCHANGED <<engine, doc, executed, filled>>

LEMMA StillTrade == ASSUME IInv, Still, bounds'.candles = bounds.candles, bounds'.armed = bounds.armed
                    PROVE  Trade(engine)'
BY DEF IInv, Still, Trade, OneTrade, OneOpen, Unfinished, FillsAlone, Unopened, Settled, Owned

LEMMA Waits == ASSUME IInv, Expire \/ CreditPreview \/ ObservePosition PROVE IInv'
<1>1. /\ UNCHANGED <<engine, sending, doc, executed, status, filled, told, bounds>>
      /\ reconciled' => reconciled
  BY DEF Expire, CreditPreview, ObservePosition, ledger, broker
<1>2. Typed'
  <2>1. Typed
    BY DEF IInv
  <2>2. CASE Expire
    <3>1. candidate.pair \in Pairs
      <4>1. candidate.pair # 0 /\ bounds.candles \in 0..MaxPairs /\ candidate.pair \in 0..bounds.candles
        BY <2>1, <2>2 DEF Expire, Typed
      <4>2. QED
        BY <4>1, PairAssumption DEF Pairs
    <3>2. QED
      BY <1>1, <2>1, <2>2, <3>1 DEF Expire, Typed
  <2>3. CASE CreditPreview
    <3>1. \E answer : candidate' = [candidate EXCEPT !.preview = answer]
      BY <2>3 DEF CreditPreview
    <3>2. QED
      BY <1>1, <2>1, <2>3, <3>1 DEF CreditPreview, Typed
  <2>4. CASE ObservePosition
    BY <1>1, <2>1, <2>4 DEF ObservePosition, Typed
  <2>5. QED
    BY <2>2, <2>3, <2>4
<1>3. Onward
  BY <1>1, <1>2 DEF Onward, Typed
<1>4. Submits' /\ OverfillStops'
  BY <1>1 DEF IInv, Submits, Unsent, OverfillStops, Both
<1>5. QED
  BY <1>3, <1>4, OnwardInv

LEMMA Releases == ASSUME IInv, NEW s \in Sides, Release(s) PROVE IInv'
<1>1. UNCHANGED <<engine, candidate, expired, doc, executed, filled, bounds>> /\ sending.step = s
  BY DEF Release
<1>2. /\ \A o \in Orders : status'[o] = status[o] \/ (status[o] = "staged" /\ status'[o] = "active")
      /\ status' \in [Orders -> Statuses]
      /\ told' \in SUBSET Orders
      /\ After(s) \/ Returned
  <2>0. sending.pair \in Pairs /\ told \in SUBSET Orders /\ status \in [Orders -> Statuses]
    BY <1>1 DEF IInv, Submits, Typed, Sides
  <2>1. Entry(sending.pair, s) \in Orders /\ EntriesOf(sending.pair) \subseteq Orders
    BY <2>0, Orders_Of DEF LegsOf
  <2>2. PICK mine : /\ \/ /\ status' = status
                          /\ told' = told \cup EntriesOf(sending.pair)
                               \/ told' = told \cup {Entry(sending.pair, s)}
                       \/ /\ told' = told
                          /\ status' = [o \in Orders |-> IF o \in mine /\ status[o] = "staged"
                                                         THEN "active" ELSE status[o]]
                    /\ After(s) \/ Returned
    BY DEF Release
  <2>3. QED
    BY <2>0, <2>1, <2>2 DEF Statuses
<1>3. /\ reconciled' => reconciled
      /\ sending' = Idle \/ (sending' = [sending EXCEPT !.step = "short"])
  BY <1>2 DEF After, Returned
<1>4. Typed'
  <2>1. sending' \in [pair : 0..MaxPairs, step : {"idle", "stage"} \cup Sides]
    BY <1>3, PairAssumption DEF IInv, Typed, Idle, Sides
  <2>2. QED
    BY <1>1, <1>2, <2>1 DEF IInv, Typed
<1>5. Onward
  BY <1>1, <1>2, <1>4 DEF Onward, IInv, Typed, TERMINAL
<1>6. Submits'
  BY <1>1, <1>3 DEF IInv, Typed, Submits, Idle, Sides
<1>7. OverfillStops'
  BY <1>1, <1>3 DEF IInv, OverfillStops, Both
<1>8. QED
  BY <1>5, <1>6, <1>7, OnwardInv

LEMMA LegsAreFirst == ASSUME NEW p \in Pairs, NEW r \in Pairs, NEW i \in 1..MaxRepairs
                      PROVE  At(r, i) \in Orders /\ At(r, i) \notin LegsOf(p)
<1>1. Turn[i] \notin Sides
  <2>1. MaxRepairs \in 0..2
    BY PairAssumption
  <2>2. i = 1 \/ i = 2
    BY <2>1
  <2>3. QED
    BY <2>2 DEF Turn, Sides
<1>2. \A o \in LegsOf(p) : o[2] \in Sides
  BY DEF LegsOf, EntriesOf, Entry, Stop
<1>3. QED
  BY <1>1, <1>2, Orders_Of DEF At

LEMMA Stages == ASSUME IInv, Stage PROVE IInv'
<1> DEFINE p == sending.pair
           legs == LegsOf(p)
<1>1. /\ UNCHANGED <<engine, candidate, expired, reconciled, doc, executed, filled, told, bounds>>
      /\ sending.step = "stage" /\ sending' = [sending EXCEPT !.step = "long"]
      /\ status' = [o \in Orders |-> IF o \in legs THEN "staged" ELSE status[o]]
  BY DEF Stage, ledger
<1>2. p \in Pairs /\ engine.state[p] = "reserved" /\ Unsent(p)
  BY <1>1 DEF IInv, Submits
<1>3. Typed'
  <2>1. status' \in [Orders -> Statuses]
    BY <1>1 DEF IInv, Typed, Statuses
  <2>2. sending' \in [pair : 0..MaxPairs, step : {"idle", "stage"} \cup Sides]
    BY <1>1 DEF IInv, Typed, Sides
  <2>3. QED
    BY <1>1, <2>1, <2>2 DEF IInv, Typed
<1>4. DocsAreFinal'
  <2>1. \A o \in legs : o \in Orders /\ doc[o].status \notin TERMINAL
    BY <1>2, Orders_Of DEF Unsent, IInv, DocsAreFinal, TERMINAL
  <2> HIDE DEF p
  <2>2. QED
    BY <1>1, <2>1 DEF IInv, DocsAreFinal
<1>5. \A r \in Pairs : r # p /\ Unsent(r) => Unsent(r)'
  BY <1>1, <1>2, NotBoth, Orders_Of DEF Unsent
<1>6. \A r \in Pairs, i \in 1..MaxRepairs : At(r, i) \in Orders /\ At(r, i) \notin legs
  BY <1>2, LegsAreFirst
<1>7. Engine(engine)'
  <2>1. Recorded(engine)'
    BY <1>1, <1>2, <1>5, <1>6 DEF IInv, Engine, Recorded
  <2>2. CancelledIsOver(engine)'
    BY <1>1, <1>2, <1>5 DEF IInv, Engine, CancelledIsOver, Opened, DocIdle
  <2>3. (FollowsFill(engine) /\ OrphansOnly(engine) /\ CompleteIsOver(engine) /\ Authorized(engine))'
    BY <1>1 DEF IInv, Engine, FollowsFill, Opened, OrphansOnly, CompleteIsOver, AllEnded, Authorized
  <2>4. Shape(engine)'
    BY <1>1 DEF IInv, Engine, Shape
  <2>5. QED
    BY <2>1, <2>2, <2>3, <2>4 DEF Engine
<1>8. Trade(engine)'
  BY <1>1, StillTrade DEF Still
<1>9. Submits' /\ OverfillStops'
  BY <1>1, <1>2 DEF IInv, Typed, Submits, OverfillStops, Both
<1>10. QED
  BY <1>3, <1>4, <1>7, <1>8, <1>9 DEF IInv

-----------------------------------------------------------------------------
(* Steps of the engine thread.                                             *)

\* The replacements of a step reach the broker, and nothing else does.
Arrives(f) ==
  /\ status' \in [Orders -> Statuses] /\ filled' = filled /\ told' = told
  /\ doc' = doc /\ executed' = executed
  /\ \A o \in Orders : \/ status'[o] = status[o]
                       \/ /\ status[o] = "none" /\ status'[o] = "coming"
                          /\ \E p \in Pairs, i \in 1..MaxRepairs :
                               o = At(p, i) /\ i <= Len(f.repair[p])

LEMMA SentArrives == ASSUME IInv, NEW f, NEW how, Step(engine, f), Sent(f, how), doc' = doc,
                            executed' = executed
                     PROVE  Arrives(f)
<1>1. PICK S : /\ S \subseteq {o \in Orders : \E p \in Pairs : o \in Related(f, p) \ Related(engine, p)}
               /\ status' = [o \in Orders |-> IF o \in S THEN "coming" ELSE status[o]]
               /\ filled' = filled /\ told' = told
  BY DEF Sent
<1>2. ASSUME NEW o \in S
      PROVE  status[o] = "none" /\ \E p \in Pairs, i \in 1..MaxRepairs :
                                     o = At(p, i) /\ i <= Len(f.repair[p])
  <2>1. PICK p \in Pairs : o \in Related(f, p) \ Related(engine, p)
    BY <1>1
  <2>2. /\ Len(f.repair[p]) \in Nat /\ Len(f.repair[p]) <= MaxRepairs
        /\ Len(engine.repair[p]) \in Nat /\ MaxRepairs \in Nat
    BY StepShape, PairAssumption DEF Shape
  <2>3. PICK i \in 1..Len(f.repair[p]) : o = At(p, i)
    BY <2>1 DEF Related, At
  <2>4. i \in 1..MaxRepairs /\ i <= Len(f.repair[p])
    BY <2>2
  <2>5. i > Len(engine.repair[p])
    BY <2>1, <2>2, <2>3 DEF Related, At
  <2>6. status[At(p, i)] = "none"
    BY <2>4, <2>5 DEF IInv, Engine, Recorded
  <2>7. QED
    BY <2>3, <2>4, <2>6
<1>3. status' \in [Orders -> Statuses]
  BY <1>1 DEF IInv, Typed, Statuses
<1>4. QED
  BY <1>1, <1>2, <1>3 DEF Arrives

LEMMA ArrivesDocs == ASSUME IInv, NEW f, Arrives(f)
                     PROVE  DocsAreFinal' /\ \A p \in Pairs : Unsent(p) => Unsent(p)'
<1>1. \A o \in Orders : /\ doc[o].status \in TERMINAL => status[o] = doc[o].status /\ filled[o] = doc[o].filled
                        /\ status[o] = "none" => doc[o].status = "none" /\ filled[o] = 0
  BY DEF IInv, DocsAreFinal
<1>2. DocsAreFinal'
  BY <1>1 DEF Arrives, DocsAreFinal, TERMINAL
<1>3. ASSUME NEW p \in Pairs, NEW o \in LegsOf(p) PROVE status'[o] = status[o]
  <2>1. o \in Orders
    BY Orders_Of
  <2>2. \A r \in Pairs, i \in 1..MaxRepairs : o # At(r, i)
    BY LegsAreFirst
  <2>3. QED
    BY <2>1, <2>2 DEF Arrives
<1>4. QED
  BY <1>2, <1>3 DEF Unsent

LEMMA RefreshedEngine == ASSUME IInv, NEW f, Step(engine, f), Arrives(f),
                                bounds'.candles = bounds.candles, bounds'.armed = bounds.armed
                         PROVE  Engine(f)'
<1>0. /\ Engine(engine) /\ Frame(engine, f) /\ Chosen(f) /\ Shape(engine) /\ Shape(f)
      /\ doc' = doc /\ executed' = executed
  BY StepShape DEF IInv, Step, Arrives
<1>1. \A p \in Pairs : Moves(engine, f, p) /\ (Unsent(p) => Unsent(p)')
  BY ArrivesDocs DEF Step
<1>2. Shape(f)' /\ Authorized(f)'
  <2>1. Shape(f)'
    BY <1>0 DEF Shape
  <2>2. Authorized(f)'
    BY <1>0, <1>1 DEF Engine, Authorized, Frame, Moves
  <2>3. QED
    BY <2>1, <2>2
<1>3. Recorded(f)'
  <2>1. \A p \in Pairs : f.state[p] = "none" => Unsent(p)'
    BY <1>0, <1>1 DEF Engine, Recorded, Moves
  <2>2. ASSUME NEW p \in Pairs, NEW i \in 1..MaxRepairs, i > Len(f.repair[p])
        PROVE  status'[At(p, i)] = "none"
    <3>1. /\ Len(f.repair[p]) \in Nat /\ Len(engine.repair[p]) \in Nat
          /\ Len(engine.repair[p]) <= Len(f.repair[p])
      <4>1. Len(f.repair[p]) \in Nat /\ Len(engine.repair[p]) \in Nat
        BY <1>0 DEF Shape
      <4>2. Len(engine.repair[p]) <= Len(f.repair[p])
        BY <1>1 DEF Moves
      <4>3. QED
        BY <4>1, <4>2
    <3>2. status[At(p, i)] = "none"
      BY <1>0, <2>2, <3>1 DEF Engine, Recorded
    <3>3. ASSUME NEW r \in Pairs, NEW j \in 1..MaxRepairs, At(p, i) = At(r, j), j <= Len(f.repair[r])
          PROVE  FALSE
      <4>1. MaxRepairs \in 0..2
        BY PairAssumption
      <4>2. p = r /\ Turn[i] = Turn[j]
        BY <3>3 DEF At
      <4>3. i = j
        BY <4>1, <4>2 DEF Turn
      <4>4. QED
        BY <2>2, <3>1, <3>3, <4>2, <4>3
    <3>4. At(p, i) \in Orders
      BY LegsAreFirst
    <3>5. QED
      BY <3>2, <3>3, <3>4 DEF Arrives
  <2>3. QED
    BY <2>1, <2>2 DEF Recorded
<1>4. FollowsFill(f)'
  <2>1. \A p \in Pairs : f.winner[p] # "none" \/ f.repair[p] # <<>> => Opened(p)
    BY <1>0, <1>1 DEF Chosen, Moves, Engine, FollowsFill
  <2>2. QED
    BY <1>0, <2>1 DEF FollowsFill, Opened
<1>5. OrphansOnly(f)'
  <2>1. \A p \in Pairs, s \in Sides : Stop(p, s) \in f.request => executed[Entry(p, Other(s))] > 0
    BY <1>0 DEF Step, Askable, Engine, OrphansOnly
  <2>2. QED
    BY <1>0, <2>1 DEF OrphansOnly
<1>6. CancelledIsOver(f)'
  <2>1. ASSUME NEW p \in Pairs, f.state[p] = "cancelled"
        PROVE  ~Opened(p) /\ (DocIdle(p) \/ Unsent(p)')
    BY <1>0, <1>1, <2>1 DEF Moves, Engine, CancelledIsOver
  <2>2. QED
    BY <1>0, <2>1 DEF CancelledIsOver, Opened, DocIdle
<1>7. CompleteIsOver(f)'
  <2>1. ASSUME NEW p \in Pairs, f.state[p] = "complete"
        PROVE  Opened(p) /\ AllEnded(LegsOf(p) \cup Related(f, p))
    <3>1. CASE engine.state[p] = "complete"
      <4>1. Related(f, p) = Related(engine, p)
        BY <1>1, <2>1, <3>1 DEF Moves, Related
      <4>2. QED
        BY <1>0, <3>1, <4>1 DEF Engine, CompleteIsOver
    <3>2. CASE engine.state[p] # "complete"
      BY <1>1, <2>1, <3>2 DEF Moves
    <3>3. QED
      BY <3>1, <3>2
  <2>2. QED
    BY <1>0, <2>1 DEF CompleteIsOver, Opened, AllEnded
<1>8. QED
  BY <1>2, <1>3, <1>4, <1>5, <1>6, <1>7 DEF Engine

LEMMA RefreshedTrade == ASSUME IInv, NEW f, Step(engine, f), Arrives(f),
                               bounds'.candles = bounds.candles, bounds'.armed = bounds.armed
                        PROVE  Trade(f)'
<1>0. filled' = filled /\ executed' = executed
  BY DEF Arrives
<1> SUFFICES ASSUME OneTrade PROVE (OneOpen(f) /\ FillsAlone(f) /\ Settled(f))'
  BY DEF Trade, OneTrade
<1>1. OneOpen(engine) /\ FillsAlone(engine) /\ Settled(engine)
  BY DEF IInv, Trade
<1>2. \A p \in Pairs : Moves(engine, f, p)
  BY DEF Step
<1>3. ASSUME NEW p \in Pairs, Unopened(engine, p) PROVE Unopened(f, p)
  <2>1. ~Opened(p)
    BY <1>3, UnopenedIsQuiet
  <2>2. Unsent(p) => DocUnsent(p)
    BY Orders_Of DEF IInv, DocsAreFinal, Unsent, DocUnsent
  <2>3. CASE engine.state[p] = "cancelled"
    BY <1>2, <2>1, <2>2, <2>3 DEF IInv, Engine, CancelledIsOver, Moves, Unopened
  <2>4. CASE engine.state[p] = "none"
    BY <1>2, <2>4 DEF Moves, Unopened
  <2>5. QED
    BY <1>3, <2>3, <2>4 DEF Unopened
<1>4. ASSUME NEW p \in Pairs, NEW r \in Pairs, r # p, engine.state[p] = "complete"
      PROVE  Unopened(f, r)
  <2>1. \E s \in Sides : filled[Entry(p, s)] > 0
    BY <1>1, <1>4, CompleteIsQuiet DEF Settled, Opened
  <2>2. QED
    BY <1>1, <1>3, <1>4, <2>1 DEF FillsAlone
<1>5. OneOpen(f)'
  <2>1. ASSUME NEW p \in Pairs, NEW r \in Pairs, Unfinished(f, p), Unfinished(f, r) PROVE p = r
    <3>1. ~Unopened(f, p) /\ ~Unopened(f, r)
      BY <2>1 DEF Unfinished, Unopened
    <3>2. CASE engine.state[p] = "complete" \/ engine.state[r] = "complete"
      BY <1>4, <3>1, <3>2
    <3>3. CASE engine.state[p] # "complete" /\ engine.state[r] # "complete"
      <4>1. Unfinished(engine, p) /\ Unfinished(engine, r)
        BY <1>3, <3>1, <3>3 DEF Unfinished, Unopened
      <4>2. QED
        BY <1>1, <4>1 DEF OneOpen
    <3>4. QED
      BY <3>2, <3>3
  <2>2. QED
    BY <2>1 DEF OneOpen, Unfinished
<1>6. FillsAlone(f)'
  BY <1>0, <1>1, <1>3 DEF FillsAlone, Unopened
<1>7. ASSUME NEW p \in Pairs, f.state[p] = "complete"
      PROVE  (f.armed => bounds.candles = 1) /\ executed = filled /\ Owned = 0
  <2>1. /\ f.armed => engine.armed
        /\ f.authorization = engine.authorization /\ f.current = engine.current
    BY DEF Step, Frame
  <2>2. CASE engine.state[p] = "complete"
    BY <1>1, <2>1, <2>2 DEF Settled
  <2>3. CASE engine.state[p] # "complete"
    <3>1. /\ executed = filled /\ Owned = 0
          /\ f.authorization[p] = f.current => ~f.armed
          /\ engine.state[p] # "none"
      BY <1>2, <1>7, <2>3 DEF Moves
    <3>2. bounds.armed = 1 => f.authorization[p] = f.current
      <4>1. /\ 1 <= engine.current /\ engine.current <= bounds.armed /\ engine.current \in Nat
            /\ engine.authorization[p] \in 1..engine.current
        BY <3>1 DEF IInv, Engine, Authorized, Shape
      <4>2. QED
        BY <2>1, <4>1
    <3>3. QED
      BY <3>1, <3>2 DEF OneTrade
  <2>4. QED
    BY <2>2, <2>3
<1>8. Settled(f)'
  BY <1>0, <1>7 DEF Settled, Owned
<1>9. QED
  BY <1>5, <1>6, <1>8

LEMMA Holds == ASSUME IInv PROVE Shape(engine) /\ Chosen(engine) /\ executed \in [Orders -> Nat]
BY DEF IInv, Typed, Engine, FollowsFill, Chosen

Troubled == bounds' = bounds \/ (bounds' = [bounds EXCEPT !.troubles = @ - 1])

LEMMA TroubledIs == ASSUME IInv, Troubled
                    PROVE  /\ bounds' \in [candles : 0..MaxPairs, armed : Nat \ {0}, overfills : Int,
                                           troubles : Int]
                           /\ bounds'.candles = bounds.candles /\ bounds'.armed = bounds.armed
BY DEF IInv, Typed, Troubled

\* The last candle, and the clock.
Watches ==
  /\ candidate'.pair \in 0..bounds.candles /\ DOMAIN candidate' = {"pair", "skipped", "preview"}
  /\ expired' \subseteq Pairs

LEMMA RefreshedTyped == ASSUME IInv, NEW f, Arrives(f), Troubled, Watches,
                               sending' \in [pair : 0..MaxPairs, step : {"idle", "stage"} \cup Sides]
                        PROVE  Typed'
BY TroubledIs DEF IInv, Typed, Arrives, Watches

LEMMA Named == ASSUME NEW f, engine' = f, Engine(f)', Trade(f)' PROVE Engine(engine)' /\ Trade(engine)'
BY DEF Engine, Shape, Recorded, FollowsFill, OrphansOnly, CancelledIsOver, CompleteIsOver, Authorized,
       Related, Trade, OneOpen, Unfinished, FillsAlone, Unopened, Settled

\* A refresh that reserves nothing.
LEMMA RefreshedInv == ASSUME IInv, NEW f, Step(engine, f), Arrives(f), Troubled, Watches,
                             engine' = f, sending' = Idle, OverfillStops'
                      PROVE  IInv'
<1>1. sending' \in [pair : 0..MaxPairs, step : {"idle", "stage"} \cup Sides]
  BY PairAssumption DEF Idle
<1>2. Typed' /\ DocsAreFinal'
  BY <1>1, RefreshedTyped, ArrivesDocs
<1>3. Engine(f)' /\ Trade(f)'
  BY TroubledIs, RefreshedEngine, RefreshedTrade
<1>4. Engine(engine)' /\ Trade(engine)'
  BY <1>3, Named
<1>5. Submits'
  BY DEF Submits, Idle
<1>6. QED
  BY <1>2, <1>4, <1>5 DEF IInv

\* A pair is taken up, or retired, when nothing else of the run stands.
Opening(f, g, q, v) ==
  /\ Shape(f) /\ q \in Pairs /\ q <= bounds.candles /\ v \in {"reserved", "cancelled"}
  /\ f.armed /\ f.state[q] = "none"
  /\ \A p \in Pairs : f.state[p] \in {"none", "cancelled", "complete"}
  /\ \E r : g = [f EXCEPT !.state[q] = v, !.row[q] = r, !.authorization[q] = f.current]

Opens(f, g, q, v) ==
  /\ Shape(g) /\ g.state = [f.state EXCEPT ![q] = v]
  /\ g.winner = f.winner /\ g.repair = f.repair /\ g.request = f.request
  /\ g.current = f.current /\ g.armed = f.armed /\ g.incident = f.incident
  /\ g.authorization = [f.authorization EXCEPT ![q] = f.current]

LEMMA OpeningIs == ASSUME NEW f, NEW g, NEW q, NEW v, Opening(f, g, q, v) PROVE Opens(f, g, q, v)
<1>1. PICK r : g = [f EXCEPT !.state[q] = v, !.row[q] = r, !.authorization[q] = f.current]
  BY DEF Opening
<1>2. Shape(f) /\ v \in States /\ q \in Pairs
  BY DEF Opening, States
<1>3. QED
  BY <1>1, <1>2 DEF Opens, Shape, Fields

LEMMA OpeningEngine == ASSUME IInv, NEW f, NEW g, NEW q, NEW v, Opening(f, g, q, v), Engine(f)', Typed',
                              DocsAreFinal', bounds'.candles = bounds.candles
                       PROVE  Engine(g)'
<1>1. /\ Shape(g) /\ g.state = [f.state EXCEPT ![q] = v]
      /\ g.winner = f.winner /\ g.repair = f.repair /\ g.request = f.request
      /\ g.current = f.current /\ g.authorization = [f.authorization EXCEPT ![q] = f.current]
  <2>1. Opens(f, g, q, v)
    BY OpeningIs
  <2>2. QED
    BY <2>1 DEF Opens
<1>2. q \in Pairs /\ q <= bounds.candles /\ v \in {"reserved", "cancelled"} /\ f.state[q] = "none"
      /\ Shape(f)
  BY DEF Opening
<1>3. \A p \in Pairs : /\ g.state[p] = IF p = q THEN v ELSE f.state[p]
                       /\ g.authorization[p] = IF p = q THEN f.current ELSE f.authorization[p]
  BY <1>1, <1>2 DEF Shape
<1>4. Unsent(q)'
  BY <1>2 DEF Engine, Recorded
<1>5. ~Opened(q)'
  <2>1. \A s \in Sides : Entry(q, s) \in Orders /\ filled'[Entry(q, s)] = 0
    BY <1>2, <1>4, Orders_Of DEF DocsAreFinal, Unsent
  <2>2. \A s \in Sides : executed'[Entry(q, s)] \in Nat /\ executed'[Entry(q, s)] <= 0
    BY <2>1 DEF Typed
  <2>3. QED
    BY <2>2 DEF Opened
<1>6. Shape(g)' /\ Recorded(g)'
  <2>1. Shape(g)'
    BY <1>1 DEF Shape
  <2>2. Recorded(g)'
    BY <1>1, <1>2, <1>3 DEF Engine, Recorded
  <2>3. QED
    BY <2>1, <2>2
<1>7. FollowsFill(g)' /\ OrphansOnly(g)'
  BY <1>1 DEF Engine, FollowsFill, OrphansOnly
<1>8. CancelledIsOver(g)'
  BY <1>3, <1>4, <1>5 DEF Engine, CancelledIsOver
<1>9. CompleteIsOver(g)'
  BY <1>1, <1>2, <1>3 DEF Engine, CompleteIsOver, Related
<1>10. Authorized(g)'
  <2>1. 1 <= f.current /\ f.current \in Nat
    BY <1>2 DEF Engine, Authorized, Shape
  <2>2. QED
    BY <1>1, <1>2, <1>3, <2>1 DEF Engine, Authorized
<1>11. QED
  BY <1>6, <1>7, <1>8, <1>9, <1>10 DEF Engine

LEMMA OpeningTrade == ASSUME IInv, NEW f, NEW g, NEW q, NEW v, Opening(f, g, q, v), Engine(f)', Trade(f)',
                             Typed', DocsAreFinal', bounds'.candles = bounds.candles
                      PROVE  Trade(g)'
<1> SUFFICES ASSUME OneTrade' PROVE (OneOpen(g) /\ FillsAlone(g) /\ Settled(g))'
  BY DEF Trade
<1>1. (OneOpen(f) /\ FillsAlone(f) /\ Settled(f))'
  BY DEF Trade
<1>2. /\ q \in Pairs /\ q <= bounds.candles /\ f.state[q] = "none" /\ f.armed /\ Shape(f)
      /\ v \in {"reserved", "cancelled"}
      /\ \A p \in Pairs : f.state[p] \in {"none", "cancelled", "complete"}
  BY DEF Opening
<1>3. \A p \in Pairs : g.state[p] = IF p = q THEN v ELSE f.state[p]
  <2>1. Opens(f, g, q, v)
    BY OpeningIs
  <2>2. QED
    BY <1>2, <2>1 DEF Opens, Shape
<1>4. ASSUME NEW p \in Pairs, f.state[p] = "complete" PROVE FALSE
  <2>1. bounds'.candles = 1
    BY <1>1, <1>2, <1>4 DEF Settled
  <2>2. p <= 1
    BY <1>4, <2>1 DEF Engine, Authorized
  <2>3. p = q
    BY <1>2, <2>1, <2>2, PairAssumption DEF Pairs
  <2>4. QED
    BY <1>2, <1>4, <2>3
<1>5. ASSUME NEW p \in Pairs, NEW s \in Sides PROVE ~ (filled'[Entry(p, s)] > 0)
  <2>1. f.state[p] \in {"none", "cancelled"}
    BY <1>2, <1>4
  <2>2. (DocIdle(p) \/ Unsent(p))'
    BY <2>1 DEF Engine, Recorded, CancelledIsOver
  <2>3. Entry(p, s) \in Orders /\ Entry(p, s) \in LegsOf(p)
    BY Orders_Of
  <2>4. CASE DocIdle(p)'
    BY <2>3, <2>4 DEF DocIdle, DocsAreFinal
  <2>5. CASE Unsent(p)'
    BY <2>3, <2>5 DEF Unsent, DocsAreFinal
  <2>6. QED
    BY <2>2, <2>4, <2>5
<1>6. FillsAlone(g)'
  BY <1>5 DEF FillsAlone
<1>7. OneOpen(g)'
  BY <1>2, <1>3, <1>4 DEF OneOpen, Unfinished
<1>8. Settled(g)'
  BY <1>2, <1>3, <1>4 DEF Settled
<1>9. QED
  BY <1>6, <1>7, <1>8

\* A refresh of every pair, and what it submits of the last candle.
LEMMA Passes == ASSUME IInv, sending = Idle, NEW c, NEW x, Pass(c, x), c.pair \in 0..bounds.candles,
                       DOMAIN c = {"pair", "skipped", "preview"}, expired' \subseteq Pairs
                PROVE  IInv'
<1>1. PICK how \in Ways : /\ Went(Maintained(engine, x, how), how)
                          /\ Sent(Maintained(engine, x, how), how)
                          /\ reconciled' => reconciled
                          /\ Submit(Maintained(engine, x, how), c, x)
                          /\ doc' = doc /\ executed' = executed
  BY DEF Pass
<1>2. PICK f : f = Maintained(engine, x, how)
  OBVIOUS
<1>3. Went(f, how) /\ Sent(f, how) /\ Submit(f, c, x)
  BY <1>1, <1>2
<1>4. Step(engine, f)
  BY <1>2, Holds, MaintainedSteps
<1>5. Troubled
  BY <1>3 DEF Went, Trouble, Troubled
<1>6. Arrives(f)
  BY <1>1, <1>3, <1>4, SentArrives
<1>7. bounds'.candles = bounds.candles /\ bounds'.armed = bounds.armed
  BY <1>5, TroubledIs
<1>8. /\ f.armed => engine.armed
      /\ engine.incident => f.incident
      /\ Shape(f)
  BY <1>4 DEF Step, Frame
<1>9. Watches
  <2>1. candidate' = c \/ candidate' = [c EXCEPT !.skipped = TRUE]
          \/ candidate' = [c EXCEPT !.preview = "pending"]
    BY <1>3 DEF Submit, Blocked, Skipped, Previewed, Reserved, Retired
  <2>2. candidate'.pair = c.pair /\ DOMAIN candidate' = {"pair", "skipped", "preview"}
    BY <2>1
  <2>3. QED
    BY <2>2 DEF Watches
<1>10. \/ engine' = f /\ sending' = Idle
       \/ /\ Wanted(f, c, x) /\ sending' = Idle
          /\ engine' = [f EXCEPT !.state[c.pair] = "cancelled", !.row[c.pair] = "cancelled",
                                 !.authorization[c.pair] = f.current]
       \/ /\ Wanted(f, c, x) /\ sending' = [pair |-> c.pair, step |-> "stage"]
          /\ engine' = [f EXCEPT !.state[c.pair] = "reserved", !.row[c.pair] = "dispatching",
                                 !.authorization[c.pair] = f.current]
  BY <1>3 DEF Submit, Blocked, Skipped, Previewed, Reserved, Retired
<1>11. ASSUME engine'.armed = f.armed, engine'.incident = f.incident PROVE OverfillStops'
  BY <1>1, <1>8, <1>11 DEF IInv, OverfillStops, Both
<1>12. CASE engine' = f /\ sending' = Idle
  BY <1>4, <1>5, <1>6, <1>9, <1>11, <1>12, RefreshedInv
<1>13. ASSUME NEW v \in {"reserved", "cancelled"}, Wanted(f, c, x),
              \E r : engine' = [f EXCEPT !.state[c.pair] = v, !.row[c.pair] = r,
                                         !.authorization[c.pair] = f.current],
              sending' = Idle \/ (v = "reserved" /\ sending' = [pair |-> c.pair, step |-> "stage"])
       PROVE  IInv'
  <2>1. PICK g : engine' = g
    OBVIOUS
  <2>2. c.pair \in Pairs
    <3>1. c.pair # 0 /\ bounds.candles \in 0..MaxPairs /\ MaxPairs \in Nat
      BY <1>13, PairAssumption DEF Wanted, IInv, Typed
    <3>2. QED
      BY <3>1 DEF Pairs
  <2>3. Opening(f, g, c.pair, v)
    <3>1. c.pair <= bounds.candles
      <4>1. bounds.candles \in 0..MaxPairs /\ MaxPairs \in Nat
        BY PairAssumption DEF IInv, Typed
      <4>2. QED
        BY <4>1
    <3>2. \E r : g = [f EXCEPT !.state[c.pair] = v, !.row[c.pair] = r,
                              !.authorization[c.pair] = f.current]
      BY <1>13, <2>1
    <3>3. /\ f.armed /\ f.state[c.pair] = "none"
          /\ \A p \in Pairs : f.state[p] \in {"none", "cancelled", "complete"}
      BY <1>13 DEF Wanted
    <3>4. QED
      BY <1>8, <1>13, <2>2, <3>1, <3>2, <3>3 DEF Opening
  <2>4. sending' \in [pair : 0..MaxPairs, step : {"idle", "stage"} \cup Sides]
    BY <1>13, <2>2, PairAssumption DEF Idle, Pairs
  <2>5. Typed' /\ DocsAreFinal'
    BY <1>5, <1>6, <1>9, <2>4, RefreshedTyped, ArrivesDocs
  <2>6. Engine(f)' /\ Trade(f)'
    BY <1>4, <1>6, <1>7, RefreshedEngine, RefreshedTrade
  <2>7. Engine(g)'
    BY <1>7, <2>3, <2>5, <2>6, OpeningEngine
  <2>8. Trade(g)'
    BY <1>7, <2>3, <2>5, <2>6, OpeningTrade
  <2>9. Engine(engine)' /\ Trade(engine)'
    BY <2>1, <2>7, <2>8, Named
  <2>10. Opens(f, g, c.pair, v)
    BY <2>3, OpeningIs
  <2>11. Submits'
    <3>1. CASE sending' = Idle
      BY <3>1 DEF Submits, Idle
    <3>2. CASE v = "reserved" /\ sending' = [pair |-> c.pair, step |-> "stage"]
      <4>1. Unsent(c.pair)'
        BY <2>2, <2>3, <2>6 DEF Opening, Engine, Recorded
      <4>2. engine'.state[c.pair] = "reserved"
        BY <1>8, <2>1, <2>2, <2>10, <3>2 DEF Opens, Shape
      <4>3. sending'.pair = c.pair
        BY <3>2
      <4>4. QED
        BY <2>2, <4>1, <4>2, <4>3 DEF Submits, Unsent
    <3>3. QED
      BY <1>13, <3>1, <3>2
  <2>12. OverfillStops'
    BY <1>11, <2>1, <2>10 DEF Opens
  <2>13. QED
    BY <2>5, <2>9, <2>11, <2>12 DEF IInv
<1>14. CASE /\ Wanted(f, c, x) /\ sending' = Idle
            /\ engine' = [f EXCEPT !.state[c.pair] = "cancelled", !.row[c.pair] = "cancelled",
                                   !.authorization[c.pair] = f.current]
  BY <1>13, <1>14
<1>15. CASE /\ Wanted(f, c, x) /\ sending' = [pair |-> c.pair, step |-> "stage"]
            /\ engine' = [f EXCEPT !.state[c.pair] = "reserved", !.row[c.pair] = "dispatching",
                                   !.authorization[c.pair] = f.current]
  BY <1>13, <1>15
<1>16. QED
  BY <1>10, <1>12, <1>14, <1>15

LEMMA Maintains == ASSUME IInv, Maintain PROVE IInv'
<1>1. PICK c : c = candidate
  OBVIOUS
<1>2. PICK x : x = expired
  OBVIOUS
<1>3. Pass(c, x) /\ sending = Idle /\ expired' = expired
  BY <1>1, <1>2 DEF Maintain, Pass, Submit, Wanted, Blocked, Skipped, Previewed, Reserved, Retired
<1>4. c.pair \in 0..bounds.candles /\ DOMAIN c = {"pair", "skipped", "preview"} /\ expired' \subseteq Pairs
  BY <1>1, <1>3 DEF IInv, Typed
<1>5. QED
  BY <1>3, <1>4, Passes

LEMMA Candles == ASSUME IInv, NewCandle PROVE IInv'
<1> DEFINE last == [NoCandle EXCEPT !.pair = candidate.pair + 1]
           before == 1..candidate.pair
<1>1. PICK c : c = last
  OBVIOUS
<1>2. PICK x : x = before
  OBVIOUS
<1>3. Pass(c, x) /\ sending = Idle /\ expired' = before /\ candidate.pair < bounds.candles
  <2>1. Pass(last, before) /\ sending = Idle /\ expired' = before /\ candidate.pair < bounds.candles
    BY DEF NewCandle
  <2> HIDE DEF last, before
  <2>2. QED
    BY <1>1, <1>2, <2>1
       DEF Pass, Submit, Wanted, Blocked, Skipped, Previewed, Reserved, Retired
<1>4. c.pair \in 0..bounds.candles /\ DOMAIN c = {"pair", "skipped", "preview"} /\ expired' \subseteq Pairs
  <2>1. candidate.pair \in Nat /\ bounds.candles \in 0..MaxPairs /\ MaxPairs \in Nat
    BY PairAssumption DEF IInv, Typed
  <2>2. QED
    BY <1>1, <1>3, <2>1 DEF NoCandle, Pairs
<1>5. QED
  BY <1>3, <1>4, Passes

LEMMA Reconciles == ASSUME IInv, Reconcile PROVE IInv'
<1>1. PICK how \in Ways :
        LET e == Synced(engine, how)
            known == Identified(e) /\ FillsAgree
            covered == Owned # 0 => Verified(e, Opener, Owned)
            g == IF known THEN Protect(e, how) ELSE e
            ready == known /\ covered /\ Certain(e)
            h == Finished(g, ready)
        IN engine' = h /\ reconciled' = ready /\ Went(h, how) /\ Sent(h, how)
  BY DEF Reconcile
<1> DEFINE e == Synced(engine, how)
           known == Identified(e) /\ FillsAgree
           g == IF known THEN Protect(e, how) ELSE e
<1>2. \E ready : LET h == Finished(g, ready) IN engine' = h /\ Went(h, how) /\ Sent(h, how)
  BY <1>1
<1>3. PICK ready : engine' = Finished(g, ready) /\ Went(Finished(g, ready), how) /\ Sent(Finished(g, ready), how)
  BY <1>2
<1>4. UNCHANGED <<candidate, expired, sending, doc, executed>> /\ executed = filled /\ sending = Idle
  BY DEF Reconcile
<1>5. Step(engine, e) /\ \A p \in Pairs : Stopped(engine, e, p)
  BY Holds, SyncedSteps
<1>6. Step(e, g)
  <2> HIDE DEF e
  <2>1. Shape(e) /\ Chosen(e)
    BY <1>5, StepShape
  <2>2. \A p \in Pairs : Opened(p) /\ Owned # 0 => e.state[p] # "complete"
    BY <1>5 DEF Stopped
  <2>3. Step(e, Protect(e, how))
    BY <2>1, <2>2, Holds, StepProtect
  <2>4. Step(e, e)
    BY <2>1, StepSame
  <2>5. QED
    BY <2>3, <2>4
<1>7. PICK h : h = Finished(g, ready)
  OBVIOUS
<1>8. Step(g, h)
  <2> HIDE DEF g
  <2>1. Shape(g) /\ Chosen(g)
    BY <1>6, StepShape
  <2>2. Step(g, Finished(g, ready))
    BY <1>4, <2>1, Holds, FinishedSteps
  <2>3. QED
    BY <1>7, <2>2
<1>9. engine' = h /\ Went(h, how) /\ Sent(h, how)
  BY <1>3, <1>7
<1> HIDE DEF e, g
<1>10. Step(e, h)
  BY <1>6, <1>8, StepThen
<1>11. Step(engine, h)
  BY <1>5, <1>10, StepThen
<1>12. Troubled
  BY <1>9 DEF Went, Trouble, Troubled
<1>13. Arrives(h)
  BY <1>4, <1>9, <1>11, SentArrives
<1>14. Watches
  BY <1>4 DEF IInv, Typed, Watches
<1>15. ASSUME NEW p \in Pairs, Both(p) PROVE ~h.armed /\ h.incident
  <2>1. Opened(p)
    BY <1>15 DEF Both, Opened, Sides
  <2>2. engine.state[p] # "none"
    BY <2>1, UnopenedIsQuiet DEF Unopened
  <2>3. Stopped(engine, h, p)
    BY <1>5, <1>10, StoppedThen
  <2>4. QED
    BY <1>15, <2>2, <2>3 DEF Stopped
<1>16. OverfillStops'
  BY <1>4, <1>9, <1>15 DEF OverfillStops, Both
<1>17. QED
  BY <1>4, <1>9, <1>11, <1>12, <1>13, <1>14, <1>16, RefreshedInv

LEMMA Interrupts == ASSUME IInv, Interrupted PROVE IInv'
<1>1. PICK e : e = [engine EXCEPT !.row[sending.pair] = "unknown"]
  OBVIOUS
<1>2. /\ engine' = Alarm(e) /\ sending' = Idle /\ ~reconciled'
      /\ UNCHANGED <<candidate, expired, doc, executed, status, filled, told>>
      /\ bounds' = [bounds EXCEPT !.troubles = @ - 1]
  BY <1>1 DEF Interrupted, Alarm, Returned, Trouble, broker
<1>3. /\ Rest(engine, e) /\ e.state = engine.state /\ e.request = engine.request
      /\ e.armed = engine.armed /\ e.incident = engine.incident
  BY <1>1, Holds DEF Rest, Shape, Fields
<1>4. Kept(engine, e)
  BY <1>3, Holds DEF Kept
<1>5. Step(engine, e)
  BY <1>3, <1>4, StepFlags
<1>6. PICK f : f = Alarm(e)
  OBVIOUS
<1>7. Step(engine, f)
  <2>1. Shape(e) /\ Chosen(e)
    BY <1>5, StepShape
  <2>2. Step(e, f)
    BY <1>6, <2>1, StepAlarm
  <2>3. QED
    BY <1>5, <2>2, StepThen
<1>8. Arrives(f)
  BY <1>2 DEF Arrives, IInv, Typed
<1>9. Troubled /\ Watches
  BY <1>2 DEF IInv, Typed, Troubled, Watches
<1>10. OverfillStops'
  BY <1>2 DEF OverfillStops
<1>11. QED
  BY <1>2, <1>6, <1>7, <1>8, <1>9, <1>10, RefreshedInv

LEMMA Withdraws == ASSUME IInv, Disarms PROVE IInv'
<1>1. PICK f : f = Disarm(engine)
  OBVIOUS
<1>2. /\ engine' = f /\ sending' = Idle /\ reconciled' = reconciled
      /\ UNCHANGED <<candidate, expired, doc, executed, status, filled, told>>
      /\ bounds' = [bounds EXCEPT !.troubles = @ - 1]
  BY <1>1 DEF Disarms, Trouble, ledger, broker
<1>3. Step(engine, f)
  BY <1>1, Holds, StepDisarm
<1>4. Arrives(f)
  BY <1>2 DEF Arrives, IInv, Typed
<1>5. Troubled /\ Watches
  BY <1>2 DEF IInv, Typed, Troubled, Watches
<1>6. OverfillStops'
  BY <1>2, <1>3 DEF IInv, OverfillStops, Both, Step, Frame
<1>7. QED
  BY <1>2, <1>3, <1>4, <1>5, <1>6, RefreshedInv

LEMMA Rearms == ASSUME IInv, Rearm PROVE IInv'
<1>1. PICK f : f = [engine EXCEPT !.armed = TRUE, !.current = @ + 1]
  OBVIOUS
<1>2. /\ engine' = f /\ sending' = Idle /\ reconciled' = reconciled /\ reconciled /\ ~engine.incident
      /\ candidate' = [candidate EXCEPT !.skipped = TRUE] /\ engine.current < bounds.armed
      /\ UNCHANGED <<expired, doc, executed, status, filled, told, bounds>>
  BY <1>1 DEF Rearm, ledger, broker
<1>3. /\ Shape(f) /\ f.state = engine.state /\ f.winner = engine.winner /\ f.repair = engine.repair
      /\ f.request = engine.request /\ f.authorization = engine.authorization
      /\ f.current = engine.current + 1
  BY <1>1, Holds DEF Shape, Fields
<1>4. Typed'
  <2>1. sending' \in [pair : 0..MaxPairs, step : {"idle", "stage"} \cup Sides]
    BY <1>2, PairAssumption DEF Idle
  <2>2. candidate'.pair = candidate.pair /\ DOMAIN candidate' = DOMAIN candidate
    BY <1>2
  <2>3. QED
    BY <1>2, <2>1, <2>2 DEF IInv, Typed
<1>5. DocsAreFinal'
  BY <1>2 DEF IInv, DocsAreFinal
<1>6. Engine(f)'
  <2>1. Shape(f)'
    BY <1>3 DEF Shape
  <2>2. Authorized(f)'
    <3>1. /\ 1 <= engine.current /\ engine.current \in Nat /\ bounds.armed \in Nat
          /\ \A p \in Pairs : engine.state[p] # "none" => /\ p <= bounds.candles
                                                          /\ engine.authorization[p] \in 1..engine.current
      BY DEF IInv, Typed, Engine, Authorized, Shape
    <3>2. 1 <= f.current /\ f.current <= bounds.armed
      BY <1>2, <1>3, <3>1
    <3>3. \A p \in Pairs : f.state[p] # "none" => p <= bounds.candles /\ f.authorization[p] \in 1..f.current
      BY <1>3, <3>1
    <3>4. QED
      BY <1>2, <3>2, <3>3 DEF Authorized
  <2>3. Recorded(f)' /\ CancelledIsOver(f)'
    BY <1>2, <1>3 DEF IInv, Engine, Recorded, CancelledIsOver, Unsent, Opened, DocIdle
  <2>4. FollowsFill(f)' /\ OrphansOnly(f)' /\ CompleteIsOver(f)'
    BY <1>2, <1>3 DEF IInv, Engine, FollowsFill, OrphansOnly, CompleteIsOver, Opened, AllEnded, Related
  <2>5. QED
    BY <2>1, <2>2, <2>3, <2>4 DEF Engine
<1>7. Trade(f)'
  <2>1. OneTrade => bounds.candles = 1
    <3>1. 1 <= engine.current /\ engine.current \in Nat
      BY DEF IInv, Engine, Authorized, Shape
    <3>2. bounds.armed # 1
      BY <1>2, <3>1
    <3>3. QED
      BY <3>2 DEF OneTrade
  <2>2. OneTrade' => OneTrade
    BY <1>2 DEF OneTrade
  <2>3. OneTrade => (OneOpen(f) /\ FillsAlone(f) /\ Settled(f))'
    BY <1>2, <1>3, <2>1 DEF IInv, Trade, OneOpen, Unfinished, FillsAlone, Unopened, Settled, Owned
  <2>4. QED
    BY <2>2, <2>3 DEF Trade
<1>8. Engine(engine)' /\ Trade(engine)'
  BY <1>2, <1>6, <1>7, Named
<1>9. Submits'
  BY <1>2 DEF Submits, Idle
<1>10. OverfillStops'
  BY <1>2 DEF IInv, OverfillStops, Both
<1>11. QED
  BY <1>4, <1>5, <1>8, <1>9, <1>10 DEF IInv

-----------------------------------------------------------------------------

LEMMA Initially == ASSUME Init PROVE IInv
<1>0. /\ MaxPairs \in Nat \ {0} /\ MaxRepairs \in Nat
      /\ bounds \in [candles : 0..MaxPairs, armed : Nat \ {0}, overfills : Nat, troubles : Nat]
  BY PairAssumption DEF Init
<1>1. /\ engine.state = [p \in Pairs |-> "none"] /\ engine.winner = [p \in Pairs |-> "none"]
      /\ engine.counted = {} /\ engine.authorization = [p \in Pairs |-> 0]
      /\ engine.repair = [p \in Pairs |-> <<>>] /\ engine.request = {} /\ engine.current = 1
      /\ DOMAIN engine = Fields
  BY DEF Init, Fields
<1>2. /\ candidate.pair = 0 /\ DOMAIN candidate = {"pair", "skipped", "preview"} /\ expired = {}
      /\ sending = Idle /\ told = {}
      /\ DOMAIN doc = Orders /\ \A o \in Orders : doc[o].status = "none"
      /\ executed = [o \in Orders |-> 0] /\ filled = [o \in Orders |-> 0]
      /\ status = [o \in Orders |-> "none"]
  BY DEF Init, NoCandle, Unseen
<1>3. Typed
  BY <1>0, <1>2 DEF Typed, Idle, Statuses
<1>4. DocsAreFinal
  BY <1>2 DEF DocsAreFinal, TERMINAL
<1>5. Shape(engine)
  <2>1. <<>> \in Seq(Int) /\ Len(<<>>) = 0
    OBVIOUS
  <2>2. engine.repair \in [Pairs -> Seq(Int)] /\ \A p \in Pairs : Len(engine.repair[p]) <= MaxRepairs
    BY <1>0, <1>1, <2>1
  <2>3. QED
    BY <1>1, <2>2 DEF Shape, States
<1>6. \A p \in Pairs : engine.state[p] = "none" /\ engine.winner[p] = "none" /\ engine.repair[p] = <<>>
  BY <1>1
<1>7. Engine(engine)
  <2>1. Recorded(engine)
    <3>1. \A p \in Pairs : Unsent(p)
      BY <1>2, Orders_Of DEF Unsent
    <3>2. \A p \in Pairs : \A i \in 1..MaxRepairs : At(p, i) \in Orders
      BY LegsAreFirst
    <3>3. QED
      BY <1>2, <3>1, <3>2 DEF Recorded
  <2>2. FollowsFill(engine) /\ OrphansOnly(engine) /\ CancelledIsOver(engine) /\ CompleteIsOver(engine)
    BY <1>1, <1>6 DEF FollowsFill, OrphansOnly, CancelledIsOver, CompleteIsOver
  <2>3. Authorized(engine)
    BY <1>0, <1>1, <1>6 DEF Authorized
  <2>4. QED
    BY <1>5, <2>1, <2>2, <2>3 DEF Engine
<1>8. Submits
  BY <1>2 DEF Submits, Idle
<1>9. OverfillStops
  <2>1. \A p \in Pairs, s \in Sides : executed[Entry(p, s)] = 0
    BY <1>2, Orders_Of
  <2>2. QED
    BY <2>1 DEF OverfillStops, Both, Sides
<1>10. Trade(engine)
  <2>1. \A p \in Pairs, s \in Sides : filled[Entry(p, s)] = 0
    BY <1>2, Orders_Of
  <2>2. QED
    BY <1>6, <2>1 DEF Trade, OneOpen, Unfinished, FillsAlone, Settled
<1>11. QED
  BY <1>3, <1>4, <1>7, <1>8, <1>9, <1>10 DEF IInv

LEMMA Stutters == ASSUME IInv, UNCHANGED vars PROVE IInv'
<1>1. /\ UNCHANGED <<engine, candidate, expired, sending, reconciled, doc, executed, status, filled, told,
                     bounds>>
  BY DEF vars, ledger, broker
<1>2. Typed' /\ Submits' /\ OverfillStops'
  BY <1>1 DEF IInv, Typed, Submits, Unsent, OverfillStops, Both
<1>3. Onward
  BY <1>1, <1>2 DEF IInv, Typed, Onward
<1>4. QED
  BY <1>2, <1>3, OnwardInv

\* The invariant is inductive.
LEMMA Inductive == ASSUME IInv, [Next]_vars PROVE IInv'
<1>1. CASE BrokerNext
  BY <1>1, Broker
<1>2. ASSUME NEW o \in Orders, ObserveOrder(o) \/ ObserveExecution(o) PROVE IInv'
  BY <1>2, Observes
<1>3. CASE ObservePosition \/ Expire \/ CreditPreview
  BY <1>3, Waits
<1>4. CASE Maintain
  BY <1>4, Maintains
<1>5. CASE NewCandle
  BY <1>5, Candles
<1>6. CASE Stage
  BY <1>6, Stages
<1>7. ASSUME NEW s \in Sides, Release(s) PROVE IInv'
  BY <1>7, Releases
<1>8. CASE Interrupted
  BY <1>8, Interrupts
<1>9. CASE Reconcile
  BY <1>9, Reconciles
<1>10. CASE Rearm
  BY <1>10, Rearms
<1>11. CASE Disarms
  BY <1>11, Withdraws
<1>12. CASE UNCHANGED vars
  BY <1>12, Stutters
<1>13. QED
  BY <1>1, <1>2, <1>3, <1>4, <1>5, <1>6, <1>7, <1>8, <1>9, <1>10, <1>11, <1>12 DEF Next

\* The invariant holds of every behaviour.
THEOREM PairInvariant == Spec => []IInv
<1>1. Init => IInv
  BY Initially
<1>2. IInv /\ [Next]_vars => IInv'
  BY Inductive
<1>3. QED
  BY <1>1, <1>2, PTL DEF Spec

\* Every variable keeps its type, and nothing is executed that was not filled.
THEOREM TypeCorrect == Spec => []TypeOK
<1>1. IInv => TypeOK
  BY Types
<1>2. QED
  BY <1>1, PairInvariant, PTL

\* However fills, cancellations and reports cross, the engine asks for the cancellation of a stop
\* (oca_engine.py, the orphan of the losing entry) only when its own entry bought or sold nothing,
\* or both entries did.
THEOREM StopsAreKept == Spec => []ProtectionIsKept
<1>1. IInv => ProtectionIsKept
  BY Protects
<1>2. QED
  BY <1>1, PairInvariant, PTL

\* When both entries of a pair executed, the run is not armed at any later moment it is reconciled.
THEOREM OverfillsDisarm == Spec => []OverfillDisarms
<1>1. IInv => OverfillDisarms
  BY Disarmed
<1>2. QED
  BY <1>1, PairInvariant, PTL

\* As long as the run is authorized once, or for one candle, one pair at a time has orders that can
\* still trade.  A second authorization and a second candle together break it (MCPair_rearmed).
THEOREM OnePairOnly == Spec => [](OneTrade => OnePairAtWork)
<1>1. IInv => (OneTrade => OnePairAtWork)
  BY OneAtWork
<1>2. QED
  BY <1>1, PairInvariant, PTL

\* Within the same bound, a pair the engine calls cancelled or complete has no order at work and
\* holds no shares at the broker.
THEOREM OverIsFlat == Spec => [](OneTrade => CompleteIsFlat)
<1>1. IInv => (OneTrade => CompleteIsFlat)
  BY Flat
<1>2. QED
  BY <1>1, PairInvariant, PTL

\* Within the same bound the stops of two pairs never work together.
THEOREM ExitsStandAlone == Spec => [](OneTrade => ExitsDoNotCompete)
<1>1. IInv => (OneTrade => ExitsDoNotCompete)
  BY OneAtWork, NoCompetition
<1>2. QED
  BY <1>1, PairInvariant, PTL
=============================================================================
