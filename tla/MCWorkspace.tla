----------------------------- MODULE MCWorkspace -----------------------------
(* The bounds of each machine for TLC: a few small worlds, in each of which something else happens. *)
EXTENDS Workspace, Sequences, FiniteSets, TLC

Sn(b, c, r, f) == [begins |-> b, changes |-> c, retries |-> r, faults |-> f]
MCSnap == {Sn(2, 1, 0, 0), Sn(1, 0, 1, 0), Sn(2, 0, 0, 1)}
Sc(c, r, n, t) == [codes |-> c, raises |-> r, contexts |-> n, troubles |-> t]
MCInc == {Sc({"watchdog", "service"}, 2, 0, 0), Sc({"feed"}, 1, 0, 1)}
         \cup {Sc({"watchdog"}, 1, 1, 0), Sc({"fault"}, 2, 1, 0)}
         \cup {Sc({c}, 1, 1, 1) : c \in {"position", "overflow"}}
Cr(a, r, f) == [arms |-> a, restarts |-> r, refusals |-> f]
MCCrypto == {Cr(2, 0, 0), Cr(1, 1, 0), Cr(1, 0, 1)}
Fx(a, r, x, l, q, e, c, u) == [arms |-> a, restarts |-> r, raises |-> x, late |-> l, quiet |-> q, exits |-> e,
                             local |-> c, units |-> u]
MCFx == {Fx(1, 1, 0, 0, 0, 1, TRUE, 1), Fx(1, 1, 0, 0, 0, 0, FALSE, 1), Fx(1, 0, 0, 0, 0, 1, FALSE, 1),
         Fx(1, 0, 0, 0, 0, 0, FALSE, 2), Fx(1, 0, 0, 1, 0, 1, TRUE, 1), Fx(1, 0, 0, 0, 0, 1, TRUE, 2),
         Fx(2, 0, 0, 0, 1, 0, TRUE, 1), Fx(1, 0, 1, 0, 0, 0, FALSE, 1)}
Dec(v, t) == [verdict |-> v, at |-> t]
Exe(t, k, p, o) == [at |-> t, known |-> k, protected |-> p, own |-> o]
Wfb(c, s, x, f, rs, d, e) == [crashes |-> c, stops |-> s, raises |-> x, refusals |-> f, shared |-> Cardinality(rs) = 1,
                              runs |-> rs, decisions |-> d, executions |-> e]
MCWf == {Wfb(1, 0, 0, 0, {"r1"}, {Dec("approved", 2), Dec("rejected", 0)}, {Exe(2, TRUE, TRUE, TRUE)}),
         Wfb(0, 1, 1, 0, {"r1"}, {Dec("approved", 2)}, {Exe(2, TRUE, FALSE, TRUE)}),
         Wfb(0, 0, 0, 1, {"r1"}, {Dec("approved", 1), Dec("rejected", 3)},
             {Exe(1, TRUE, TRUE, TRUE), Exe(5, FALSE, TRUE, TRUE), Exe(3, TRUE, TRUE, FALSE)}),
         Wfb(0, 0, 0, 0, {"r1", "r2"}, {Dec("approved", 2)}, {Exe(2, TRUE, TRUE, TRUE)})}
St(a, c, r, q) == [arms |-> a, changes |-> c, raises |-> r, waiting |-> 2, qualified |-> q, raised |-> FALSE]
MCStock == {St(2, 0, 0, FALSE), St(1, 2, 0, FALSE), St(1, 0, 1, TRUE)}
Ad(c, x, r) == [calls |-> c, raises |-> x, restarts |-> r]
MCAdapter == {Ad(4, 0, 0), Ad(3, 1, 1)}
Srb(c, k, e, s, u, rs, a) == [calls |-> c, crashes |-> k, edits |-> e, stops |-> s, uploads |-> u, runs |-> rs, armed |-> a]
MCStrat == {Srb(3, 0, 1, 0, 0, {"r1", "r2"}, {"r1"}), Srb(2, 1, 0, 2, 0, {"r1"}, {"r1"}), Srb(2, 1, 0, 1, 0, {"r1", "r2"}, {"r1", "r2"}),
         Srb(2, 0, 1, 0, 0, {"r1", "r2"}, {"r1", "r2"}), Srb(1, 2, 0, 0, 2, {"r1"}, {})}
Sl(d, p) == [day |-> d, part |-> p]
TwoDays == <<Sl(1, "opening"), Sl(1, "open"), Sl(2, "opening"), Sl(2, "open")>>
OneDay == [slots |-> <<Sl(1, "opening"), Sl(1, "open"), Sl(1, "closed")>>, due |-> 0, prices |-> 1..3, most |-> 5, lifetime |-> "DAY",
  lastday |-> 1, expiry |-> 9, live |-> FALSE, slippage |-> 0, chase |-> 1, loss |-> 4, risk |-> 4, shares |-> 4, notional |-> 9,
  power |-> 9, exposure |-> 9, held |-> 0, open |-> 0, positions |-> 1, daily |-> 4, lost |-> 0, valid |-> TRUE, late |-> 0]
MCBrk == {[OneDay EXCEPT !.slots = <<Sl(1, "opening"), Sl(1, "open")>>, !.slippage = 1, !.notional = 6],
  [OneDay EXCEPT !.slots = TwoDays, !.prices = {1, 2}, !.lifetime = "GTC", !.lastday = 2, !.due = 4, !.live = TRUE, !.expiry = 3],
  [OneDay EXCEPT !.most = 4, !.chase = 0, !.loss = 3, !.risk = 3, !.prices = {1, 3, 4}, !.late = 1]}
Ev(t, p, v) == [at |-> t, price |-> p, volume |-> v]
Ex(i, o, k, d, t, r) == [id |-> i, order |-> o, ticket |-> k, decision |-> d, at |-> t, outcome |-> r, reference |-> d]
Bnd(r, c, s) == [raises |-> r, calls |-> c, stops |-> s]
BreakoutDay == <<Ev(0, 2, 1), Ev(3, 1, 1), Ev(5, 2, 0), Ev(11, 3, 1)>>
Replay == [events |-> BreakoutDay, sessions |-> {<<1, 1, 1>>, <<2, 1, 0>>}, multiplier |-> 1, domain |-> "request", requested |-> 15,
        evaluated |-> 16, expires |-> 20, allowed |-> TRUE, duplicate |-> FALSE, known |-> TRUE, age |-> 2, quantity |-> 2,
        most |-> 2, notional |-> 6, requests |-> {}, bounds |-> Bnd(0, 1, 0)]
MCSim ==
  {[Replay EXCEPT !.requests = {Ex("e1", "a", "a", "d1", 20, r)}, !.bounds = Bnd(1, 3, 0)] : r \in {"reject", "acknowledge_only"}}
  \cup {[Replay EXCEPT !.requests = {Ex("e1", "a", "a", "d1", 20, "cancel"), Ex("e2", "a", "a", "d1", 20, "fill")}, !.bounds = Bnd(1, 3, 0)],
        [Replay EXCEPT !.requests = {Ex("e1", "a", "b", "d1", 18, "fill"), Ex("e2", "b", "b", "d1", 18, "fill")}, !.bounds = Bnd(0, 4, 0)],
        [Replay EXCEPT !.requests = {Ex("e3", "b", "b", "d2", 21, "fill"), Ex("e4", "b", "b", "d3", 15, "fill")}, !.bounds = Bnd(0, 2, 1)],
        [Replay EXCEPT !.evaluated = 14, !.domain = "replay"], [Replay EXCEPT !.expires = 16, !.bounds = Bnd(0, 2, 0)],
        [Replay EXCEPT !.notional = 5], [Replay EXCEPT !.age = 0], [Replay EXCEPT !.multiplier = 2], [Replay EXCEPT !.sessions = {<<1, 1>>}]}
MayBe == [trades |-> 1, errors |-> 0, outages |-> 0, asks |-> 0, raises |-> 0, removals |-> 0, bad |-> 0, arms |-> 0]
Followed == [attempts |-> 1, patience |-> 1, capacity |-> 1, last |-> 4, routine |-> {"transient"}, causes |-> {}, outages |-> {}, silent |-> {},
  queue |-> 1, warm |-> TRUE, slow |-> FALSE, bounds |-> MayBe]
MCFeeds ==
  {[Followed EXCEPT !.warm = FALSE, !.last = 3, !.silent = {"session"}],
   [Followed EXCEPT !.bounds.trades = 2, !.bounds.errors = 1, !.causes = {<<"trade", "transient">>}, !.bounds.arms = 1],
   [Followed EXCEPT !.bounds.trades = 0, !.bounds.errors = 1, !.bounds.arms = 1, !.causes = {<<"quote", "permissions">>}, !.bounds.asks = 1, !.bounds.raises = 1, !.last = 2],
   [Followed EXCEPT !.bounds.outages = 1, !.outages = {"1101", "1102", "lost"}, !.bounds.arms = 1, !.bounds.trades = 0],
   [Followed EXCEPT !.bounds.trades = 2, !.bounds.outages = 1, !.outages = {"1101"}, !.queue = 2],
   [Followed EXCEPT !.bounds.arms = 1, !.bounds.bad = 1, !.queue = 2, !.slow = TRUE, !.last = 3],
   [Followed EXCEPT !.warm = FALSE, !.queue = 2, !.bounds.removals = 1, !.silent = {"session"}, !.last = 2, !.bounds.trades = 0]}
Ones(n) == [k \in 1..n |-> 1]
Taped == [day |-> 10, session |-> 8, minute |-> 2, timeframe |-> 2, opening |-> 2, times |-> <<0, 1, 2, 3, 4, 5, 6, 7>>, sizes |-> Ones(12),
  prices |-> {2, 3}, intrabar |-> FALSE, level |-> "opening_high", multiple |-> 0, distance |-> 1, target |-> 0, floor |-> 0,
  history |-> 1, gap |-> 1, timeout |-> 2, margin |-> 1, before |-> 1, entries |-> 1, shares |-> 5, notional |-> 9, risk |-> 4,
  slip |-> 0, funds |-> 9]
MCTapes ==
  {[Taped EXCEPT !.prices = {2, 3, 4}, !.times = <<0, 1, 2, 3, 4, 5>>],
   [Taped EXCEPT !.intrabar = TRUE, !.level = "rolling_high", !.entries = 2, !.target = 1],
   [Taped EXCEPT !.times = <<0, 1, 2, 3, 4, 5, 10, 11, 12>>, !.session = 6, !.sizes = <<1, 1, 2, 1, 1, 1, 2, 2, 1, 1>>, !.multiple = 1, !.intrabar = TRUE],
   [Taped EXCEPT !.timeframe = 4, !.day = 12, !.level = "sma", !.times = <<0, 1, 2, 3, 4, 5, 6, 7, 12, 13>>, !.floor = 3],
   [Taped EXCEPT !.times = <<1, 2, 3, 5, 6>>], [Taped EXCEPT !.times = <<0, 1, 3, 4, 6, 7, 8, 9>>, !.gap = 2, !.slip = 1]}
Crb(t, g, u, e, o, f) == [ticks |-> t, begins |-> g, updates |-> u, ends |-> e, outages |-> o, refusals |-> f]
Costs == ("r1" :> 3) @@ ("r2" :> 2)
OnMargin == [power |-> FALSE, total |-> 3, cash |-> 1, need |-> ("r1" :> 2) @@ ("r2" :> 1), cost |-> Costs, armed |-> {"r1", "r2"}, lifetime |-> 1,
  slow |-> FALSE, bounds |-> Crb(3, 2, 0, 0, 0, 0)]
MCCredit ==
  {[OnMargin EXCEPT !.total = 2, !.bounds = Crb(0, 2, 0, 0, 0, 0)], [OnMargin EXCEPT !.cash = 3, !.total = 4, !.bounds = Crb(0, 3, 1, 1, 0, 0)],
   [OnMargin EXCEPT !.power = TRUE, !.total = 4, !.bounds = Crb(1, 2, 0, 1, 0, 0)], [OnMargin EXCEPT !.lifetime = 6],
   [OnMargin EXCEPT !.armed = {"r1"}, !.slow = TRUE, !.bounds = Crb(3, 1, 0, 0, 0, 1)],
   [OnMargin EXCEPT !.armed = {"r2"}, !.bounds = Crb(3, 2, 0, 0, 1, 0)]}
Arb(v, c, t, i, s, k) == [reviews |-> v, changes |-> c, trades |-> t, incidents |-> i, stops |-> s, takeovers |-> k]
Two(f, g) == [r \in {"r1", "r2"} |-> IF r = "r1" THEN f ELSE g]
Ars(f, g, c, k, b) == [family |-> Two(f, g), contract |-> Two("c1", c), capacity |-> k, bounds |-> b]
MCArms ==
  {Ars("modern", "modern", "c1", <<2>>, Arb(2, 0, 0, 1, 0, 0)), Ars("modern", "modern", "c1", <<1>>, Arb(2, 1, 0, 0, 1, 1)),
   Ars("modern", "modern", "c1", <<1>>, Arb(1, 0, 1, 1, 1, 1)), Ars("legacy", "flexible", "c2", <<1>>, Arb(2, 0, 0, 1, 0, 0)),
   Ars("legacy", "legacy", "c2", <<1, 2>>, Arb(2, 1, 1, 0, 0, 0)), Ars("flexible", "modern", "c1", <<1, 2>>, Arb(2, 1, 0, 0, 0, 0))}
=============================================================================
