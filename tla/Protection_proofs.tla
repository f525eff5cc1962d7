------------------------- MODULE Protection_proofs -------------------------
(***************************************************************************)
(* What the engine has been told about an order that ended is final, so    *)
(* decisions taken from late reports agree with the broker: a replacement  *)
(* stop is sent alone, at most one exit can fill, and the reservation is   *)
(* given back when nothing is left.  For every quantity, every set of      *)
(* orders and every number of failures.                                    *)
(***************************************************************************)
EXTENDS Protection, Sums

LEMMA NetIs == ASSUME NEW shares PROVE Net(shares) = shares["entry"] - Total(shares, Sells)
  BY Zenon DEF Net, Total

-----------------------------------------------------------------------------
(* The invariant.                                                          *)

Ends      == {"filled", "cancelled", "rejected"}
RowStates == {"none", "sent", "unknown", "working", "cancel_pending"} \cup Ends

\* The types that the argument needs.
Typed ==
  /\ row \in [Sent -> RowStates] /\ kind \in [Later -> {"none", "exit", "protection"}]
  /\ executed \in [Orders -> Nat] /\ filled \in [Orders -> Nat] /\ DOMAIN size = Orders
  /\ state \in [Orders -> {"none", "coming", "active"} \cup TERMINAL]

\* A document of an order that ended is what the broker has.
FinalDoc(o) == doc[o].status \in TERMINAL => state[o] = doc[o].status /\ doc[o].filled = filled[o]
Final       == \A o \in Orders : FinalDoc(o)

\* A row ends with its document.
RowEnd == \A o \in Sent : row[o] \in Ends => doc[o].status \in TERMINAL

\* An identifier that was not used names nothing, and one that was used has a row.
Unused(x) == kind[x] = "none" => /\ state[x] = "none" /\ row[x] = "none"
                                 /\ doc[x].status = "none" /\ filled[x] = executed[x]
Used(x)   == kind[x] # "none" => row[x] # "none"
Names     == \A x \in Later : Unused(x) /\ Used(x)

\* Every order ended, and every fill is in an execution.
EndedAll == /\ \A o \in Orders : doc[o].status \in TERMINAL \/ (o \in Later /\ kind[o] = "none")
            /\ executed = filled
Over     == ~reserved => EndedAll /\ Owned = 0

\* Exits: one that follows another follows its end.
Alone == \A x, y \in Exits : row[x] \notin Ends /\ row[y] \notin Ends => x = y

IInv == Typed /\ Final /\ RowEnd /\ Names /\ Over /\ Alone

LEMMA Distinct == "entry" \notin Later /\ "stop" \notin Later /\ Sent = {"entry"} \cup Later
                  /\ Later \subseteq Orders /\ Sent \subseteq Orders /\ Sells \subseteq Orders
  BY ProtectionAssumption DEF ProtectionAssumption, Sent, Orders, Sells

\* Once every order ended no order is live and the account holds what the executions say.
LEMMA Quiet == ASSUME Typed, Final, Names, EndedAll
               PROVE  Held = Owned /\ \A o \in Orders : ~Live(o)
<1>1. Held = Owned
  BY DEF EndedAll, Held, Owned
<1>2. ASSUME NEW o \in Orders PROVE ~Live(o)
  <2>1. CASE doc[o].status \in TERMINAL
    BY <2>1 DEF Final, FinalDoc, Live, TERMINAL
  <2>2. CASE o \in Later /\ kind[o] = "none"
    BY <2>2 DEF Names, Unused, Live
  <2>3. QED
    BY <2>1, <2>2 DEF EndedAll
<1>3. QED
  BY <1>1, <1>2

\* Where reports and executions agree, an order that ended has all its executions.
LEMMA AllCounted == ASSUME Typed, Final, RowEnd, Names, EntryOver, ~FillsDisagree,
                           \A o \in Related : Ended(o)
                    PROVE  EndedAll
<1>1. doc["entry"].status \in TERMINAL
  BY Distinct DEF EntryOver, RowEnd, Ends
<1>2. ASSUME NEW o \in Orders
      PROVE  doc[o].status \in TERMINAL \/ (o \in Later /\ kind[o] = "none")
  BY <1>1 DEF Related, Ended, Orders
<1>3. ASSUME NEW o \in Orders PROVE executed[o] = filled[o]
  <2>1. CASE doc[o].status \in TERMINAL
    <3>1. doc[o].status # "none"
      BY <2>1 DEF TERMINAL
    <3>2. doc[o].filled = executed[o]
      BY <3>1 DEF FillsDisagree
    <3>3. QED
      BY <2>1, <3>2 DEF Final, FinalDoc
  <2>2. CASE o \in Later /\ kind[o] = "none"
    BY <2>2 DEF Names, Unused
  <2>3. QED
    BY <1>2, <2>1, <2>2
<1>4. executed = filled
  BY <1>3 DEF Typed
<1>5. QED
  BY <1>2, <1>4 DEF EndedAll

-----------------------------------------------------------------------------
(* The ways a step can touch what the invariant speaks of.                 *)

\* The broker moves orders that are coming or active.
LEMMA BrokerMoves ==
  ASSUME IInv, UNCHANGED <<row, doc, executed, kind, reserved>>, Typed',
         \A o \in Orders : state[o] \in TERMINAL \/ (o \in Later /\ state[o] = "none")
            => state'[o] = state[o] /\ filled'[o] = filled[o]
  PROVE  IInv'
<1> USE DEF IInv
<1>1. Final'
  BY DEF Final, FinalDoc
<1>2. RowEnd'
  BY DEF RowEnd
<1>3. Names'
  BY Distinct DEF Names, Unused, Used
<1>4. Over'
  <2>1. ASSUME EndedAll PROVE filled' = filled
    <3>1. \A o \in Orders : state[o] \in TERMINAL \/ (o \in Later /\ state[o] = "none")
      BY <2>1 DEF EndedAll, Final, FinalDoc, Names, Unused
    <3>2. QED
      BY <3>1 DEF Typed
  <2>2. QED
    BY <2>1 DEF Over, EndedAll, Owned
<1>5. Alone'
  BY DEF Alone, Exits
<1>6. QED
  BY <1>1, <1>2, <1>3, <1>4, <1>5

\* The engine moves rows, without ending or starting one.
LEMMA RowsMove ==
  ASSUME IInv, UNCHANGED <<doc, executed, kind, state, filled, size>>, Over',
         row' \in [Sent -> RowStates],
         \A o \in Sent : /\ (row'[o] \in Ends) = (row[o] \in Ends)
                         /\ (row'[o] = "none") = (row[o] = "none")
  PROVE  IInv'
<1> USE DEF IInv
<1>1. Typed' /\ Final' /\ RowEnd'
  BY DEF Typed, Final, FinalDoc, RowEnd
<1>2. Names'
  BY Distinct DEF Names, Unused, Used
<1>3. Alone'
  BY Distinct DEF Alone, Exits
<1>4. QED
  BY <1>1, <1>2, <1>3

\* The engine learns what the broker has.
LEMMA LearnedMoves ==
  ASSUME IInv, NEW S \in SUBSET Orders, Learned(S),
         UNCHANGED <<executed, kind, reserved, state, filled, size>>
  PROVE  IInv'
<1> USE DEF IInv
<1> SUFFICES Typed' /\ Final' /\ RowEnd' /\ Names' /\ Over' /\ Alone'
  OBVIOUS
<1>1. ASSUME NEW o \in Orders
      PROVE  doc'[o] = IF o \in Known(S) THEN Reported(o) ELSE doc[o]
  BY DEF Learned
<1>2. ASSUME NEW o \in Sent
      PROVE  /\ row'[o] = IF o \in S THEN RowAfter(o) ELSE row[o]
             /\ row'[o] \in RowStates
             /\ row'[o] \in Ends => row[o] \in Ends \/ o \in Known(S)
             /\ row[o] # "none" => row'[o] # "none"
             /\ state[o] \in {"none", "coming"} => row'[o] = row[o]
  BY Distinct DEF Learned, RowAfter, Known, Typed, RowStates, Ends, TERMINAL
<1>3. Typed'
  BY <1>2 DEF Typed, Learned
<1>4. ASSUME NEW o \in Orders
      PROVE  FinalDoc(o)' /\ (doc[o].status \in TERMINAL => doc'[o].status \in TERMINAL)
  <2>1. CASE o \in Known(S)
    <3>1. doc'[o] = Reported(o)
      BY <1>1, <2>1
    <3>2. doc'[o].status = state[o] /\ doc'[o].filled = filled[o]
      BY <3>1 DEF Reported
    <3>3. QED
      BY <3>2 DEF Final, FinalDoc
  <2>2. CASE o \notin Known(S)
    BY <1>1, <2>2 DEF Final, FinalDoc
  <2>3. QED
    BY <2>1, <2>2
<1>5. Final'
  BY <1>4 DEF Final
<1>6. RowEnd'
  <2>1. ASSUME NEW o \in Sent, row'[o] \in Ends PROVE doc'[o].status \in TERMINAL
    <3>1. CASE row[o] \in Ends
      BY <1>4, <3>1, Distinct DEF RowEnd
    <3>2. CASE row[o] \notin Ends
      <4>1. o \in Known(S) /\ row'[o] = RowAfter(o) /\ doc'[o] = Reported(o)
        BY <1>1, <1>2, <2>1, <3>2, Distinct DEF Known
      <4>2. state[o] # "active"
        BY <4>1, <2>1 DEF RowAfter, Known, Ends
      <4>3. state[o] \in TERMINAL
        BY <4>1, <4>2, Distinct DEF Known, Typed
      <4>4. QED
        BY <4>1, <4>3 DEF Reported
    <3>3. QED
      BY <3>1, <3>2
  <2>2. QED
    BY <2>1 DEF RowEnd
<1>7. Names'
  BY <1>1, <1>2, Distinct DEF Names, Unused, Used, Known
<1>8. Over'
  BY <1>4 DEF Over, EndedAll, Owned
<1>9. Alone'
  <2>1. ASSUME NEW x \in Later, row'[x] \notin Ends PROVE row[x] \notin Ends
    <3>1. SUFFICES ASSUME row[x] \in Ends PROVE FALSE
      OBVIOUS
    <3>2. state[x] \in TERMINAL /\ x \in Sent
      BY <3>1, Distinct DEF RowEnd, Final, FinalDoc
    <3>3. state[x] # "active" /\ (x \in S => x \in Known(Sent))
      BY <3>2 DEF Known, TERMINAL
    <3>4. QED
      BY <1>2, <2>1, <3>1, <3>2, <3>3 DEF RowAfter, Ends, TERMINAL
  <2>2. QED
    BY <2>1 DEF Alone, Exits
<1>10. QED
  BY <1>3, <1>5, <1>6, <1>7, <1>8, <1>9

\* The engine sends an order under an identifier that names nothing.
LEMMA DispatchMoves ==
  ASSUME IInv, NEW x \in Later, kind[x] = "none", NEW purpose \in {"exit", "protection"},
         Dispatched(x, purpose), UNCHANGED <<doc, executed, filled>>, reserved',
         purpose = "exit" => \A y \in Exits : ~Open(y)
  PROVE  IInv'
<1> USE DEF IInv
<1>1. /\ kind' = [kind EXCEPT ![x] = purpose]
      /\ row' = [row EXCEPT ![x] = row'[x]] /\ row'[x] \in {"sent", "unknown"}
      /\ state' = [state EXCEPT ![x] = state'[x]] /\ state'[x] \in {"none", "coming"}
      /\ DOMAIN size' = Orders
  BY Distinct DEF Dispatched, Typed, Names, Unused
<1>2. Typed'
  BY <1>1, Distinct DEF Typed, RowStates
<1>3. Final' /\ RowEnd' /\ Names'
  BY <1>1, Distinct DEF Typed, Final, FinalDoc, RowEnd, Names, Unused, Used, Ends, TERMINAL
<1>4. Alone'
  <2>1. CASE purpose = "exit"
    <3>1. \A y \in Exits : row[y] \in Ends
      BY <2>1, Distinct DEF Open, Names, Used, Exits, Ends
    <3>2. QED
      BY <1>1, <2>1, <3>1, Distinct DEF Typed, Alone, Exits, Ends
  <2>2. CASE purpose = "protection"
    BY <1>1, <2>2, Distinct DEF Typed, Alone, Exits
  <2>3. QED
    BY <2>1, <2>2
<1>5. QED
  BY <1>2, <1>3, <1>4 DEF Over

\* The reservation goes only when every order ended and every fill is counted.
LEMMA ReleaseIsOver ==
  ASSUME IInv, Finished, UNCHANGED <<doc, executed, kind, filled>>
  PROVE  Over'
<1>1. CASE ~Released
  BY <1>1 DEF Finished, IInv, Over, EndedAll, Owned
<1>2. CASE Released
  <2>1. EntryOver /\ ~FillsDisagree /\ Owned = 0 /\ \A o \in Related : Ended(o)
    BY <1>2 DEF Released, Settled, Identified, FlatSell
  <2>2. EndedAll
    BY <2>1, AllCounted DEF IInv
  <2>3. QED
    BY <2>1, <2>2 DEF Over, EndedAll, Owned
<1>3. QED
  BY <1>1, <1>2

-----------------------------------------------------------------------------
(* The invariant is inductive.                                             *)

LEMMA InitHolds == Init => IInv
<1> SUFFICES ASSUME Init PROVE IInv
  OBVIOUS
<1>1. Typed
  BY Distinct DEF Init, Typed, RowStates, Orders
<1>2. Final /\ RowEnd /\ Names /\ Over /\ Alone
  BY Distinct DEF Init, Final, FinalDoc, RowEnd, Names, Unused, Used, Over, Alone, Exits,
     Nothing, Ends, TERMINAL
<1>3. QED
  BY <1>1, <1>2 DEF IInv

LEMMA BrokerKeeps == IInv /\ Broker => IInv'
<1> SUFFICES ASSUME IInv, Broker PROVE IInv'
  OBVIOUS
<1> USE DEF durable, engine, TERMINAL
<1>1. ASSUME NEW o \in Orders, BrokerAccepts(o) PROVE IInv'
  BY <1>1, BrokerMoves DEF BrokerAccepts, IInv, Typed
<1>2. ASSUME NEW o \in Orders, BrokerRejects(o) PROVE IInv'
  <2>1. /\ UNCHANGED <<row, doc, executed, kind, reserved, filled, size>> /\ state[o] = "coming"
        /\ \/ state' = [state EXCEPT ![o] = "Rejected"]
           \/ o = "entry" /\ state' = [state EXCEPT !["entry"] = "Rejected", !["stop"] = Closed(@)]
    BY <1>2 DEF BrokerRejects
  <2>2. "stop" \in Orders /\ "stop" # "entry" /\ "stop" \notin Later
    BY Distinct DEF Orders
  <2>3. Typed'
    BY <2>1, <2>2 DEF IInv, Typed, Closed
  <2>4. QED
    BY <2>1, <2>2, <2>3, BrokerMoves DEF IInv, Typed, Closed
<1>3. ASSUME EntryFills PROVE IInv'
  <2>1. /\ UNCHANGED <<row, doc, executed, kind, reserved, size>> /\ state["entry"] = "active"
        /\ filled' = [filled EXCEPT !["entry"] = @ + 1]
        /\ \E status \in {"active", "Filled"} : state' = [state EXCEPT !["entry"] = status]
    BY <1>3 DEF EntryFills
  <2>2. filled' \in [Orders -> Nat]
    BY <2>1 DEF IInv, Typed, Orders
  <2>3. state' \in [Orders -> {"none", "coming", "active"} \cup TERMINAL]
    BY <2>1 DEF IInv, Typed, Orders
  <2>4. Typed'
    BY <2>1, <2>2, <2>3 DEF IInv, Typed
  <2>5. QED
    BY <2>1, <2>4, BrokerMoves DEF IInv, Typed
<1>4. ASSUME EntryEnds PROVE IInv'
  <2>1. /\ UNCHANGED <<row, doc, executed, kind, reserved, filled>> /\ state["entry"] = "active"
        /\ \/ state' = [state EXCEPT !["entry"] = "Cancelled"]
           \/ state' = [state EXCEPT !["entry"] = "Cancelled", !["stop"] = Closed(@)]
        /\ DOMAIN size' = DOMAIN size
    BY <1>4 DEF EntryEnds
  <2>2. "entry" \in Orders /\ "stop" \in Orders /\ "stop" # "entry"
    BY DEF Orders
  <2>3. "stop" \notin Later
    BY Distinct
  <2>4. Typed'
    BY <2>1, <2>2 DEF IInv, Typed, Closed
  <2>5. QED
    BY <2>1, <2>2, <2>3, <2>4, BrokerMoves DEF IInv, Typed, Closed
<1>5. ASSUME NEW o \in Sells, SellFills(o) PROVE IInv'
  <2>1. /\ UNCHANGED <<row, doc, executed, kind, reserved>> /\ state[o] = "active"
        /\ filled' = [filled EXCEPT ![o] = @ + 1] /\ DOMAIN size' = Orders
    BY <1>5 DEF SellFills
  <2>2. \A p \in Orders : /\ state'[p] \in {state[p], "Filled", "Cancelled"}
                          /\ state[p] # "active" => state'[p] = state[p]
    BY <1>5 DEF SellFills
  <2>3. state' = [p \in Orders |-> state'[p]]
    BY <1>5 DEF SellFills
  <2>4. filled' \in [Orders -> Nat]
    BY <2>1, Distinct DEF IInv, Typed
  <2>5. state' \in [Orders -> {"none", "coming", "active"} \cup TERMINAL]
    BY <2>2, <2>3 DEF IInv, Typed
  <2>6. Typed'
    BY <2>1, <2>4, <2>5 DEF IInv, Typed
  <2>7. QED
    BY <2>1, <2>2, <2>6, BrokerMoves, Distinct DEF IInv, Typed
<1>6. ASSUME NEW o \in Sells, SellEnds(o) PROVE IInv'
  BY <1>6, BrokerMoves, Distinct DEF SellEnds, IInv, Typed
<1>7. QED
  BY <1>1, <1>2, <1>3, <1>4, <1>5, <1>6 DEF Broker

LEMMA ObserveKeeps == IInv /\ Observe => IInv'
<1> SUFFICES ASSUME IInv, Observe PROVE IInv'
  OBVIOUS
<1> USE DEF broker
<1>1. ASSUME NEW o \in Orders, ObserveOrder(o) PROVE IInv'
  <2>1. Learned({o})
    BY <1>1 DEF ObserveOrder
  <2>2. UNCHANGED <<executed, kind, reserved, state, filled, size>>
    BY <1>1 DEF ObserveOrder
  <2>3. {o} \in SUBSET Orders
    OBVIOUS
  <2>4. QED
    BY <2>1, <2>2, <2>3, LearnedMoves
<1>2. ASSUME NEW o \in Orders, ObserveExecution(o) PROVE IInv'
  <2>1. executed[o] < filled[o] /\ executed' = [executed EXCEPT ![o] = @ + 1]
        /\ UNCHANGED <<row, doc, kind, reserved, state, filled, size>>
    BY <1>2 DEF ObserveExecution
  <2>2. executed[o] # filled[o] /\ reserved
    BY <2>1 DEF IInv, Typed, Over, EndedAll
  <2>3. Typed' /\ Over'
    BY <2>1, <2>2 DEF IInv, Typed, Over
  <2>4. Final' /\ RowEnd' /\ Alone'
    BY <2>1 DEF IInv, Final, FinalDoc, RowEnd, Alone, Exits
  <2>5. Names'
    BY <2>1, <2>2, Distinct DEF IInv, Typed, Names, Unused, Used
  <2>6. QED
    BY <2>3, <2>4, <2>5 DEF IInv
<1>3. ASSUME ObservePosition PROVE IInv'
  BY <1>3, RowsMove DEF ObservePosition, durable, IInv, Typed, Over, EndedAll, Owned
<1>4. QED
  BY <1>1, <1>2, <1>3 DEF Observe

\* An unused identifier that is dispatched: what was reserved is reserved still.
LEMMA OwnsReserved == ASSUME IInv, Owned > 0 PROVE reserved
<1>1. Owned # 0
  OBVIOUS
<1>2. QED
  BY <1>1 DEF IInv, Over

LEMMA ActKeeps == IInv /\ Act => IInv'
<1> SUFFICES ASSUME IInv, Act PROVE IInv'
  OBVIOUS
<1> USE DEF broker, engine
<1>1. ASSUME CancelEntry PROVE IInv'
  BY <1>1, RowsMove, Distinct DEF CancelEntry, IInv, Typed, Over, EndedAll, Owned, RowStates, Ends
<1>2. ASSUME RequestExit PROVE IInv'
  BY <1>2, RowsMove DEF RequestExit, IInv, Typed, Over, EndedAll, Owned
<1>3. ASSUME NEW x \in Later, RefreshExit(x) PROVE IInv'
  BY <1>3, RowsMove, Distinct DEF RefreshExit, IInv, Typed, Over, EndedAll, Owned, RowStates, Ends
<1>4. ASSUME NEW x \in Later, ClosePosition(x) PROVE IInv'
  <2>1. reserved'
    BY <1>4, OwnsReserved DEF ClosePosition
  <2>2. QED
    BY <1>4, <2>1, DispatchMoves DEF ClosePosition
<1>5. QED
  BY <1>1, <1>2, <1>3, <1>4 DEF Act

LEMMA ReconcileKeeps == IInv /\ Reconcile => IInv'
<1> SUFFICES ASSUME IInv, Reconcile PROVE IInv'
  OBVIOUS
<1> USE DEF broker
<1>1. ASSUME BeginReconcile \/ FinishSuperseded PROVE IInv'
  BY <1>1, RowsMove DEF BeginReconcile, FinishSuperseded, durable, IInv, Typed, Over, EndedAll,
     Owned
<1>2. ASSUME TakeOrders PROVE IInv'
  <2>1. PICK seen \in SUBSET Known(Orders) : Learned(seen)
    BY <1>2 DEF TakeOrders
  <2>2. seen \in SUBSET Orders
    BY DEF Known
  <2>3. UNCHANGED <<executed, kind, reserved, state, filled, size>>
    BY <1>2 DEF TakeOrders
  <2>4. QED
    BY <2>1, <2>2, <2>3, LearnedMoves
<1>3. ASSUME TakeExecutions PROVE IInv'
  <2>1. executed' = filled /\ UNCHANGED <<row, doc, kind, reserved, state, filled, size>>
    BY <1>3 DEF TakeExecutions
  <2>2. Typed' /\ Final' /\ RowEnd' /\ Alone'
    BY <2>1 DEF IInv, Typed, Final, FinalDoc, RowEnd, Alone, Exits
  <2>3. Names' /\ Over'
    BY <2>1 DEF IInv, Names, Unused, Used, Over, EndedAll, Owned
  <2>4. QED
    BY <2>2, <2>3 DEF IInv
<1>4. ASSUME Finish PROVE IInv'
  <2>1. Over'
    BY <1>4, ReleaseIsOver DEF Finish
  <2>2. QED
    BY <1>4, <2>1, RowsMove DEF Finish, Missing, Absent, IInv, Typed, RowStates, Ends
<1>5. ASSUME RepairCancelsEntry PROVE IInv'
  <2>1. Over'
    BY <1>5, ReleaseIsOver DEF RepairCancelsEntry, Repair
  <2>2. QED
    BY <1>5, <2>1, RowsMove, Distinct DEF RepairCancelsEntry, IInv, Typed, RowStates, Ends
<1>6. ASSUME RepairCancelsSells PROVE IInv'
  <2>1. Over'
    BY <1>6, ReleaseIsOver DEF RepairCancelsSells, Repair
  <2>2. QED
    BY <1>6, <2>1, RowsMove DEF RepairCancelsSells, IInv, Typed
<1>7. ASSUME NEW x \in Later, RepairSubmits(x) PROVE IInv'
  <2>1. Owned > 0 /\ Owned # 0
    BY <1>7 DEF RepairSubmits, Repair
  <2>2. reserved'
    BY <1>7, <2>1, OwnsReserved DEF RepairSubmits, Repair, Finished, Released
  <2>3. QED
    BY <1>7, <2>2, DispatchMoves DEF RepairSubmits
<1>8. QED
  BY <1>1, <1>2, <1>3, <1>4, <1>5, <1>6, <1>7 DEF Reconcile

LEMMA StepKeeps == IInv /\ [Next]_vars => IInv'
<1> SUFFICES ASSUME IInv, [Next]_vars PROVE IInv'
  OBVIOUS
<1>1. ASSUME Restart PROVE IInv'
  BY <1>1, RowsMove DEF Restart, broker, IInv, Typed, Over, EndedAll, Owned, RowStates, Ends
<1>2. CASE UNCHANGED vars
  BY <1>2, RowsMove DEF vars, durable, engine, broker, IInv, Typed, Over, EndedAll, Owned
<1>3. QED
  BY <1>1, <1>2, BrokerKeeps, ObserveKeeps, ActKeeps, ReconcileKeeps DEF Next

-----------------------------------------------------------------------------
(* While the account is reconciled nothing that was reported changes, so    *)
(* the stop that the snapshot showed is still the one that is recorded.     *)

\* Only an order that the broker has is documented, and a filled entry is documented so.
DocKnown == /\ \A o \in Orders : doc[o].status # "none" => state[o] \notin {"none", "coming"}
            /\ row["entry"] = "filled" => doc["entry"].status = "Filled"

\* Covers, without the snapshot that showed it.
Shown(o) == /\ doc[o].status = "active" /\ doc[o].size - doc[o].filled = Owned
            /\ IF o = "stop" THEN row["entry"] = "filled" ELSE kind[o] = "protection"
Steady == ready => Owned = position /\ (Owned # 0 => \E o \in Sells : Shown(o))

\* An order the broker has stays one, and so do the documents.
LEMMA BrokerKnows == ASSUME IInv, DocKnown, Broker PROVE DocKnown' /\ (Steady => Steady')
<1> USE DEF durable, engine, TERMINAL
<1>1. UNCHANGED <<row, doc, executed, kind, position, ready>>
  BY DEF Broker, BrokerAccepts, BrokerRejects, EntryFills, EntryEnds, SellFills, SellEnds
<1>2. ASSUME NEW o \in Orders, state[o] \notin {"none", "coming"}
      PROVE  state'[o] \notin {"none", "coming"}
  <2>1. "entry" \in Orders /\ "stop" \in Orders /\ state \in [Orders -> {"none", "coming", "active"} \cup TERMINAL]
    BY DEF IInv, Typed, Orders
  <2>2. ASSUME NEW p \in Orders, BrokerAccepts(p) \/ BrokerRejects(p)
        PROVE  state'[o] \notin {"none", "coming"}
    BY <1>2, <2>1, <2>2 DEF BrokerAccepts, BrokerRejects, Closed
  <2>3. CASE EntryFills \/ EntryEnds
    BY <1>2, <2>1, <2>3 DEF EntryFills, EntryEnds, Closed
  <2>4. ASSUME NEW p \in Sells, SellFills(p) PROVE state'[o] \in {state[o], "Filled", "Cancelled"}
    BY <2>4 DEF SellFills
  <2>5. ASSUME NEW p \in Sells, SellEnds(p) PROVE state'[o] \in {state[o], "Cancelled"}
    BY <2>1, <2>5 DEF SellEnds
  <2>6. QED
    BY <1>2, <2>2, <2>3, <2>4, <2>5 DEF Broker
<1>3. DocKnown'
  BY <1>1, <1>2 DEF DocKnown
<1>4. Steady => Steady'
  BY <1>1 DEF Steady, Shown, Owned
<1>5. QED
  BY <1>3, <1>4

\* What the engine learns it learns of orders that the broker has.
LEMMA LearnedKnows == ASSUME IInv, DocKnown, NEW S \in SUBSET Orders, Learned(S), UNCHANGED state
                      PROVE  DocKnown'
<1>1. ASSUME NEW o \in Orders PROVE doc'[o].status # "none" => state[o] \notin {"none", "coming"}
  BY DEF Learned, Known, DocKnown
<1>2. ASSUME row'["entry"] = "filled" PROVE doc'["entry"].status = "Filled"
  <2>1. "entry" \in Sent /\ "entry" \in Orders
    BY Distinct
  <2>2. CASE "entry" \in Known(S)
    <3>1. doc'["entry"].status = state["entry"] /\ row'["entry"] = RowAfter("entry")
      BY <2>1, <2>2 DEF Learned, Known, Reported
    <3>2. state["entry"] = "Filled"
      BY <1>2, <2>1, <2>2, <3>1 DEF RowAfter, Known, IInv, Typed, TERMINAL
    <3>3. QED
      BY <3>1, <3>2
  <2>3. CASE "entry" \notin Known(S)
    <3>1. doc'["entry"] = doc["entry"] /\ row'["entry"] = row["entry"]
      BY <2>1, <2>3 DEF Learned, Known, RowAfter
    <3>2. QED
      BY <1>2, <3>1 DEF DocKnown
  <2>4. QED
    BY <2>2, <2>3
<1>3. QED
  BY <1>1, <1>2 DEF DocKnown

\* A dispatch takes an identifier of which nothing was reported.
LEMMA DispatchKnows ==
  ASSUME IInv, DocKnown, NEW x \in Later, kind[x] = "none", NEW purpose,
         Dispatched(x, purpose), UNCHANGED doc
  PROVE  DocKnown'
<1>1. /\ doc[x].status = "none" /\ \A o \in Orders \ {x} : state'[o] = state[o]
      /\ row'["entry"] = row["entry"]
  BY Distinct DEF Dispatched, IInv, Typed, Names, Unused
<1>2. QED
  BY <1>1 DEF DocKnown

\* A position to repair is not settled.
LEMMA RepairUnsettles == Repair => ~ready'
  BY DEF Repair, Finished, Settled

\* What a completed reconciliation settles is steady.
LEMMA FinishSteadies ==
  ASSUME IInv, Finished, UNCHANGED <<doc, executed, kind, position>>,
         ready' => row' = Missing
  PROVE  Steady'
<1> SUFFICES ASSUME ready' PROVE Steady'
  BY DEF Steady
<1>1. Settled /\ row' = Missing
  BY DEF Finished
<1>2. row' = row
  BY <1>1 DEF Settled, Identified, Missing, IInv, Typed
<1>3. Owned = position /\ (Owned # 0 => \E o \in Sells : Covers(o))
  BY <1>1 DEF Settled, Agrees, Protected
<1>4. QED
  BY <1>2, <1>3 DEF Steady, Shown, Covers, Owned

LEMMA StepSteadies == IInv /\ DocKnown /\ Steady /\ [Next]_vars => DocKnown' /\ Steady'
<1> SUFFICES ASSUME IInv, DocKnown, Steady, [Next]_vars PROVE DocKnown' /\ Steady'
  OBVIOUS
<1> USE DEF durable, broker, engine
<1>1. ASSUME ~ready', UNCHANGED <<doc, state>>, row'["entry"] = "filled" => row["entry"] = "filled"
      PROVE  DocKnown' /\ Steady'
  BY <1>1 DEF DocKnown, Steady
<1>2. ASSUME ~ready', NEW S \in SUBSET Orders, Learned(S), UNCHANGED state
      PROVE  DocKnown' /\ Steady'
  BY <1>2, LearnedKnows DEF Steady
<1>3. ASSUME UNCHANGED <<row, doc, executed, kind, position, ready, state>>
      PROVE  DocKnown' /\ Steady'
  BY <1>3 DEF DocKnown, Steady, Shown, Owned
<1>4. CASE Broker
  BY <1>4, BrokerKnows
<1>5. CASE Observe
  <2>1. ASSUME NEW o \in Orders, ObserveOrder(o) PROVE DocKnown' /\ Steady'
    <3>1. ~ready' /\ Learned({o}) /\ UNCHANGED state /\ {o} \in SUBSET Orders
      BY <2>1 DEF ObserveOrder
    <3>2. QED
      BY <3>1, <1>2
  <2>2. ASSUME NEW o \in Orders, ObserveExecution(o) PROVE DocKnown' /\ Steady'
    BY <1>1, <2>2 DEF ObserveExecution, Invalidated
  <2>3. CASE ObservePosition
    <3>1. ~ready' /\ UNCHANGED <<row, doc, state>>
      BY <2>3 DEF ObservePosition, Invalidated
    <3>2. QED
      BY <3>1, <1>1
  <2>4. QED
    BY <1>5, <2>1, <2>2, <2>3 DEF Observe
<1>6. CASE Act
  <2>1. CASE CancelEntry
    BY <1>1, <2>1, Distinct DEF CancelEntry, Invalidated, IInv, Typed
  <2>2. CASE RequestExit
    BY <1>3, <2>2 DEF RequestExit
  <2>3. ASSUME NEW x \in Later, RefreshExit(x) PROVE DocKnown' /\ Steady'
    BY <1>1, <2>3, Distinct DEF RefreshExit, Invalidated, IInv, Typed
  <2>4. ASSUME NEW x \in Later, ClosePosition(x) PROVE DocKnown' /\ Steady'
    <3>1. DocKnown'
      BY <2>4, DispatchKnows DEF ClosePosition
    <3>2. ~ready'
      BY <2>4 DEF ClosePosition, Invalidated
    <3>3. QED
      BY <3>1, <3>2 DEF Steady
  <2>5. QED
    BY <1>6, <2>1, <2>2, <2>3, <2>4 DEF Act
<1>7. CASE Reconcile
  <2>1. CASE BeginReconcile
    <3>1. UNCHANGED <<row, doc, executed, kind, position, state>> /\ ready' \in {ready, FALSE}
      BY <2>1 DEF BeginReconcile
    <3>2. QED
      BY <1>1, <1>3, <3>1
  <2>2. CASE TakeOrders
    <3>1. PICK seen \in SUBSET Known(Orders) :
            /\ Learned(seen)
            /\ IF ready /\ \E o \in seen : doc[o] # Reported(o) THEN ready' = FALSE ELSE ready' = ready
      BY <2>2 DEF TakeOrders
    <3>2. seen \in SUBSET Orders /\ UNCHANGED <<executed, kind, position, state>>
      BY <2>2 DEF TakeOrders, Known
    <3>3. DocKnown'
      BY <3>1, <3>2, LearnedKnows
    <3>4. Steady'
      <4> SUFFICES ASSUME ready' PROVE Steady'
        BY DEF Steady
      <4>1. ready /\ \A o \in seen : doc[o] = Reported(o)
        BY <3>1
      <4>2. \A o \in Orders : doc'[o] = doc[o]
        BY <3>1, <4>1 DEF Learned, Known
      <4>3. row["entry"] = "filled" => row'["entry"] = "filled"
        <5> SUFFICES ASSUME row["entry"] = "filled" PROVE row'["entry"] = "filled"
          OBVIOUS
        <5>1. "entry" \in Sent /\ "entry" \in Orders
          BY Distinct
        <5>2. doc["entry"].status = "Filled"
          BY DEF DocKnown
        <5>3. state["entry"] = "Filled"
          BY <5>1, <5>2 DEF IInv, Final, FinalDoc, TERMINAL
        <5>4. RowAfter("entry") = "filled"
          BY <5>1, <5>3 DEF RowAfter, Known
        <5>5. QED
          BY <3>1, <5>1, <5>4 DEF Learned
      <4>4. Sells \subseteq Orders
        BY Distinct
      <4>5. QED
        BY <3>2, <4>1, <4>2, <4>3, <4>4 DEF Steady, Shown, Owned
    <3>5. QED
      BY <3>3, <3>4
  <2>3. CASE TakeExecutions
    <3>1. UNCHANGED <<row, doc, kind, position, state>> /\ ((executed' = executed /\ ready' = ready) \/ ~ready')
      BY <2>3 DEF TakeExecutions
    <3>2. QED
      BY <1>1, <1>3, <3>1
  <2>4. CASE FinishSuperseded
    BY <1>1, <2>4 DEF FinishSuperseded
  <2>5. CASE Finish
    <3>1. Finished /\ row' = Missing /\ UNCHANGED <<doc, executed, kind, position, state>>
      BY <2>5 DEF Finish
    <3>2. row'["entry"] = "filled" => row["entry"] = "filled"
      BY <3>1, Distinct DEF Missing
    <3>3. QED
      BY <3>1, <3>2, FinishSteadies DEF DocKnown
  <2>6. CASE RepairCancelsEntry \/ RepairCancelsSells
    <3>1. Repair /\ UNCHANGED <<doc, state>> /\ (row'["entry"] = "filled" => row["entry"] = "filled")
      BY <2>6, Distinct DEF RepairCancelsEntry, RepairCancelsSells, IInv, Typed
    <3>2. ~ready'
      BY <3>1, RepairUnsettles
    <3>3. QED
      BY <1>1, <3>1, <3>2
  <2>7. ASSUME NEW x \in Later, RepairSubmits(x) PROVE DocKnown' /\ Steady'
    <3>1. DocKnown'
      BY <2>7, DispatchKnows DEF RepairSubmits
    <3>2. ~ready'
      BY <2>7, RepairUnsettles DEF RepairSubmits
    <3>3. QED
      BY <3>1, <3>2 DEF Steady
  <2>8. QED
    BY <1>7, <2>1, <2>2, <2>3, <2>4, <2>5, <2>6, <2>7 DEF Reconcile
<1>8. CASE Restart
  BY <1>1, <1>8, Distinct DEF Restart, IInv, Typed
<1>9. CASE UNCHANGED vars
  BY <1>3, <1>9 DEF vars
<1>10. QED
  BY <1>4, <1>5, <1>6, <1>7, <1>8, <1>9 DEF Next

-----------------------------------------------------------------------------
(* The types, and the bounds of what the orders hold.                      *)

\* What the documents of the engine, its flags and its snapshot are made of.
Documents == [status : {"none", "active"} \cup TERMINAL, filled : 0..Quantity, size : 0..Quantity]
Snapshots == [parts : SUBSET (Parts \cup {"none"}), current : BOOLEAN, seen : SUBSET Orders]
Records   == /\ doc \in [Orders -> Documents] /\ request \in [Orders -> {"none", "pending", "confirmed"}]
             /\ reserved \in BOOLEAN /\ wanted \in BOOLEAN /\ ready \in BOOLEAN
             /\ snapshot \in Snapshots

\* What the orders hold.
Books ==
  /\ executed \in [Orders -> 0..Quantity] /\ filled \in [Orders -> 0..Quantity]
  /\ \A o \in Orders : executed[o] <= filled[o]
  /\ position \in 0..Quantity
  /\ state \in [Orders -> {"none", "coming", "active"} \cup TERMINAL]
  /\ size \in [Orders -> 0..Quantity]

\* A live order has shares to fill, an identifier without a use has none, the stop of an
\* entry that works has sold nothing, and the account is never short.
Limits ==
  /\ Live("entry") => filled["entry"] < Quantity
  /\ \A o \in Sells : filled[o] <= size[o] /\ (Live(o) => filled[o] < size[o])
  /\ \A x \in Later : kind[x] = "none" => filled[x] = 0
  /\ state["entry"] \notin TERMINAL => filled["stop"] = 0
  /\ state["stop"] # "none" /\ Held >= 0

LEMMA SellsAre == /\ IsFiniteSet(Sells) /\ "entry" \notin Sells /\ "stop" \in Sells
                  /\ Later \subseteq Sells /\ Orders = {"entry"} \cup Sells
<1>1. Sells = {"stop"} \cup Later
  BY Distinct DEF Sells, Orders
<1>2. IsFiniteSet({"stop"} \cup Later)
  BY ProtectionAssumption, FS_Singleton, FS_Union DEF ProtectionAssumption
<1>3. QED
  BY <1>1, <1>2, Distinct DEF Orders

\* What is held or owned is at most what was bought.
LEMMA NetIsBounded ==
  ASSUME NEW shares \in [Orders -> 0..Quantity]
  PROVE  Net(shares) \in Int /\ Net(shares) <= Quantity
<1>1. \A x \in Sells : shares[x] \in Nat
  BY SellsAre, ProtectionAssumption DEF ProtectionAssumption
<1>2. Total(shares, Sells) \in Nat
  BY <1>1, SellsAre, SumIsNat
<1>3. shares["entry"] \in 0..Quantity
  BY SellsAre
<1>4. QED
  BY <1>2, <1>3, NetIs, ProtectionAssumption DEF ProtectionAssumption

\* One more share of an order is one more, or one less, that is held.
LEMMA OneMore ==
  ASSUME NEW shares \in [Orders -> Nat], NEW o \in Orders, NEW more,
         more = [shares EXCEPT ![o] = @ + 1]
  PROVE  Net(more) = IF o = "entry" THEN Net(shares) + 1 ELSE Net(shares) - 1
<1>1. Net(shares) = shares["entry"] - Total(shares, Sells)
      /\ Net(more) = more["entry"] - Total(more, Sells)
  BY NetIs
<1>2. \A x \in Sells : shares[x] \in Nat
  BY SellsAre
<1>3. Total(shares, Sells) \in Nat /\ shares["entry"] \in Nat
  BY <1>2, SellsAre, SumIsNat
<1>4. CASE o = "entry"
  <2>1. Grown(more, shares, Sells, "stop", 0)
    BY <1>2, <1>4, SellsAre DEF Grown
  <2>2. Total(more, Sells) = Total(shares, Sells) + 0
    BY <2>1, SellsAre, SumGrows
  <2>3. more["entry"] = shares["entry"] + 1
    BY <1>4
  <2>4. QED
    BY <1>1, <1>3, <1>4, <2>2, <2>3
<1>5. CASE o # "entry"
  <2>1. Grown(more, shares, Sells, o, 1)
    BY <1>2, <1>5, SellsAre DEF Grown
  <2>2. Total(more, Sells) = Total(shares, Sells) + 1
    BY <2>1, SellsAre, SumGrows
  <2>3. more["entry"] = shares["entry"]
    BY <1>5, SellsAre
  <2>4. QED
    BY <1>1, <1>3, <1>5, <2>2, <2>3
<1>6. QED
  BY <1>4, <1>5

-----------------------------------------------------------------------------
Sized == Books /\ Limits

\* What the account holds is between nothing and the quantity of the entry.
LEMMA HeldIsBounded == ASSUME Sized PROVE Held \in 0..Quantity
<1>1. filled \in [Orders -> 0..Quantity] /\ Held >= 0
  BY DEF Sized, Books, Limits
<1>2. Held \in Int /\ Held <= Quantity
  BY <1>1, NetIsBounded DEF Held
<1>3. QED
  BY <1>1, <1>2, ProtectionAssumption DEF ProtectionAssumption

LEMMA OwnedIsBounded == ASSUME Sized PROVE Owned \in Int /\ Owned <= Quantity
<1>1. executed \in [Orders -> 0..Quantity]
  BY DEF Sized, Books
<1>2. QED
  BY <1>1, NetIsBounded DEF Owned

\* The engine learns executions and positions.
LEMMA CountsMove ==
  ASSUME Sized, UNCHANGED <<kind, state, size, filled>>, position' \in {position, Held},
         \A o \in Orders : executed'[o] \in {executed[o], executed[o] + 1, filled[o]}
                           /\ executed'[o] <= filled[o],
         executed' = [o \in Orders |-> executed'[o]]
  PROVE  Sized'
<1>1. position' \in 0..Quantity
  BY HeldIsBounded DEF Sized, Books
<1>2. executed' \in [Orders -> 0..Quantity]
  BY ProtectionAssumption DEF Sized, Books, ProtectionAssumption
<1>3. Books'
  BY <1>1, <1>2 DEF Sized, Books
<1>4. Limits'
  BY DEF Sized, Limits, Live, Held
<1>5. QED
  BY <1>3, <1>4 DEF Sized

\* An order ends without a fill.
LEMMA EndsMove ==
  ASSUME Sized, UNCHANGED <<kind, executed, position, filled>>,
         \A o \in Orders : state'[o] = state[o] \/ (Live(o) /\ state'[o] \in {"active"} \cup TERMINAL),
         state' = [o \in Orders |-> state'[o]],
         \/ size' = size
         \/ /\ filled["entry"] > 0 /\ state["entry"] = "active" /\ state'["entry"] = "Cancelled"
            /\ size' = [size EXCEPT !["stop"] = Min({@, filled["entry"]})]
  PROVE  Sized'
<1> USE SellsAre, ProtectionAssumption DEF ProtectionAssumption
<1>1. ASSUME NEW o \in Orders
      PROVE  /\ state'[o] \in {"none", "coming", "active"} \cup TERMINAL
             /\ Live(o)' => Live(o)
             /\ state[o] \in TERMINAL => state'[o] = state[o]
             /\ state[o] # "none" => state'[o] # "none"
  BY DEF Sized, Books, Live, TERMINAL
<1>2. CASE size' = size
  <2>1. Books'
    BY <1>1, <1>2 DEF Sized, Books
  <2>2. Limits'
    BY <1>1, <1>2 DEF Sized, Limits, Held
  <2>3. QED
    BY <2>1, <2>2 DEF Sized
<1>3. ASSUME filled["entry"] > 0, state["entry"] = "active", state'["entry"] = "Cancelled",
             size' = [size EXCEPT !["stop"] = Min({@, filled["entry"]})]
      PROVE  Sized'
  <2>1. size["stop"] \in Nat /\ filled["entry"] \in Nat /\ size["stop"] <= Quantity /\ filled["stop"] = 0
    BY <1>3 DEF Sized, Books, Limits, TERMINAL
  <2>2. Min({size["stop"], filled["entry"]}) = IF size["stop"] <= filled["entry"] THEN size["stop"] ELSE filled["entry"]
    BY <2>1 DEF Min
  <2>3. size'["stop"] \in 0..Quantity /\ (size["stop"] > 0 => size'["stop"] > 0)
        /\ \A o \in Orders \ {"stop"} : size'[o] = size[o]
    BY <1>3, <2>1, <2>2 DEF Sized, Books
  <2>4. Books'
    BY <1>1, <1>3, <2>3 DEF Sized, Books
  <2>5. \A o \in Sells : filled[o] <= size'[o] /\ (Live(o)' => filled[o] < size'[o])
    BY <1>1, <2>1, <2>3 DEF Sized, Books, Limits
  <2>6. Limits'
    BY <1>1, <1>3, <2>5 DEF Sized, Limits, Held, TERMINAL
  <2>7. QED
    BY <2>4, <2>6 DEF Sized
<1>4. QED
  BY <1>2, <1>3

LEMMA EntryFillsSized == ASSUME IInv, Sized, EntryFills PROVE Sized'
<1> USE SellsAre, ProtectionAssumption DEF ProtectionAssumption
<1>1. /\ state["entry"] = "active" /\ filled' = [filled EXCEPT !["entry"] = @ + 1]
      /\ state' = [state EXCEPT !["entry"] = IF filled'["entry"] = Quantity THEN "Filled" ELSE @]
      /\ UNCHANGED <<executed, kind, position, size>>
  BY DEF EntryFills, durable, engine
<1>2. filled["entry"] \in 0..Quantity /\ filled["entry"] < Quantity
  BY <1>1 DEF Sized, Books, Limits, Live
<1>3. filled' \in [Orders -> 0..Quantity] /\ filled'["entry"] = filled["entry"] + 1
      /\ \A o \in Sells : filled'[o] = filled[o] /\ state'[o] = state[o]
  BY <1>1, <1>2 DEF Sized, Books
<1>4. state' \in [Orders -> {"none", "coming", "active"} \cup TERMINAL]
  BY <1>1 DEF Sized, Books, TERMINAL
<1>5. Books'
  BY <1>1, <1>3, <1>4 DEF Sized, Books
<1>6. Held' = Held + 1 /\ Held \in Int
  <2>1. filled \in [Orders -> Nat]
    BY DEF Sized, Books
  <2>2. Net(filled') = Net(filled) + 1
    BY <1>1, <2>1, OneMore
  <2>3. QED
    BY <2>2, HeldIsBounded DEF Held
<1>7. Live("entry")' => filled'["entry"] < Quantity
  <2>1. state'["entry"] = IF filled'["entry"] = Quantity THEN "Filled" ELSE "active"
    BY <1>1, <1>4 DEF Sized, Books
  <2>2. QED
    BY <1>2, <1>3, <2>1 DEF Live
<1>8. Limits'
  BY <1>1, <1>3, <1>6, <1>7 DEF Sized, Limits, Live, TERMINAL
<1>9. QED
  BY <1>5, <1>8 DEF Sized

LEMMA SellFillsSized == ASSUME IInv, Sized, NEW o \in Sells, SellFills(o) PROVE Sized'
<1> USE SellsAre, ProtectionAssumption DEF ProtectionAssumption
<1> DEFINE group == {p \in Sells \ {o} : state[p] = "active"}
<1>1. /\ state[o] = "active" /\ filled[o] < size[o] /\ Held > 0
      /\ (o = "stop" => state["entry"] \in TERMINAL)
      /\ filled' = [filled EXCEPT ![o] = @ + 1]
      /\ size' = [p \in Orders |-> IF p \in group THEN size[p] - 1 ELSE size[p]]
      /\ state' = [p \in Orders |-> IF p = o /\ filled'[o] = size[o] THEN "Filled"
                                    ELSE IF p \in group /\ size'[p] <= filled[p] THEN "Cancelled"
                                    ELSE state[p]]
      /\ UNCHANGED <<executed, kind, position>>
  BY DEF SellFills, durable, engine
<1>2. filled'[o] = filled[o] + 1 /\ \A p \in Orders \ {o} : filled'[p] = filled[p]
  BY <1>1 DEF Sized, Books
<1>3. ASSUME NEW p \in Orders
      PROVE  /\ filled'[p] \in 0..Quantity /\ size'[p] \in 0..Quantity /\ filled[p] <= filled'[p]
             /\ state'[p] \in {"none", "coming", "active"} \cup TERMINAL
             /\ state[p] \in TERMINAL => state'[p] = state[p]
  <2>1. filled[p] \in 0..Quantity /\ size[p] \in 0..Quantity /\ state[p] \in {"none", "coming", "active"} \cup TERMINAL
    BY DEF Sized, Books
  <2>2. p \in group => filled[p] < size[p]
    BY DEF Sized, Limits, Live
  <2>3. p = o => filled[p] < size[p]
    BY <1>1
  <2>4. size'[p] \in 0..Quantity
    BY <1>1, <2>1, <2>2
  <2>5. state'[p] \in {"none", "coming", "active"} \cup TERMINAL
    BY <1>1, <2>1 DEF TERMINAL
  <2>6. state[p] \in TERMINAL => state'[p] = state[p]
    BY <1>1 DEF TERMINAL
  <2>7. QED
    BY <1>2, <2>1, <2>3, <2>4, <2>5, <2>6
<1>4. ASSUME NEW p \in Sells PROVE filled'[p] <= size'[p] /\ (Live(p)' => filled'[p] < size'[p])
  <2>1. filled[p] \in 0..Quantity /\ size[p] \in 0..Quantity /\ filled[p] <= size[p]
        /\ (Live(p) => filled[p] < size[p])
    BY DEF Sized, Books, Limits
  <2>2. CASE p = o
    BY <1>1, <1>2, <2>1, <2>2 DEF Live
  <2>3. CASE p \in group
    <3>1. filled[p] < size[p] /\ size'[p] = size[p] - 1 /\ filled'[p] = filled[p]
      BY <1>1, <1>2, <2>1, <2>3 DEF Live
    <3>2. state'[p] = IF size'[p] <= filled[p] THEN "Cancelled" ELSE state[p]
      BY <1>1, <2>3
    <3>3. QED
      BY <2>1, <3>1, <3>2 DEF Live
  <2>4. CASE p # o /\ p \notin group
    BY <1>1, <1>2, <2>1, <2>4 DEF Live
  <2>5. QED
    BY <2>2, <2>3, <2>4
<1>5. Books'
  <2>1. filled' \in [Orders -> 0..Quantity]
    BY <1>1, <1>3 DEF Sized, Books
  <2>2. size' \in [Orders -> 0..Quantity]
    BY <1>1, <1>3
  <2>3. state' \in [Orders -> {"none", "coming", "active"} \cup TERMINAL]
    BY <1>1, <1>3
  <2>4. \A p \in Orders : executed'[p] <= filled'[p]
    BY <1>1, <1>3 DEF Sized, Books
  <2>5. QED
    BY <1>1, <2>1, <2>2, <2>3, <2>4 DEF Sized, Books
<1>6. Held' = Held - 1 /\ Held \in Nat
  <2>1. filled \in [Orders -> Nat]
    BY DEF Sized, Books
  <2>2. Net(filled') = Net(filled) - 1
    BY <1>1, <2>1, OneMore
  <2>3. QED
    BY <2>2, HeldIsBounded DEF Held
<1>7. "entry" # o /\ "entry" \notin group /\ filled'["entry"] = filled["entry"] /\ state'["entry"] = state["entry"]
  BY <1>1, <1>2
<1>8. \A x \in Later : kind'[x] = "none" => filled'[x] = 0
  <2>1. \A x \in Later : kind[x] = "none" => x # o
    BY <1>1 DEF IInv, Names, Unused
  <2>2. QED
    BY <1>1, <1>2, <2>1 DEF Sized, Limits
<1>9. Limits'
  BY <1>1, <1>2, <1>4, <1>6, <1>7, <1>8 DEF Sized, Limits, Live
<1>10. QED
  BY <1>5, <1>9 DEF Sized

LEMMA BrokerSized == ASSUME IInv, Sized, Broker PROVE Sized'
<1> USE DEF durable, engine
<1>1. ASSUME NEW o \in Orders, BrokerAccepts(o) PROVE Sized'
  <2>1. UNCHANGED <<kind, executed, position, filled, size>> /\ state[o] = "coming"
        /\ state' = [state EXCEPT ![o] = "active"]
    BY <1>1 DEF BrokerAccepts
  <2>2. QED
    BY <2>1, EndsMove DEF Sized, Books, Live
<1>2. ASSUME NEW o \in Orders, BrokerRejects(o) PROVE Sized'
  <2>1. /\ UNCHANGED <<kind, executed, position, filled, size>> /\ state[o] = "coming"
        /\ \/ state' = [state EXCEPT ![o] = "Rejected"]
           \/ o = "entry" /\ state' = [state EXCEPT !["entry"] = "Rejected", !["stop"] = Closed(@)]
    BY <1>2 DEF BrokerRejects
  <2>2. "stop" \in Orders /\ state \in [Orders -> {"none", "coming", "active"} \cup TERMINAL]
    BY SellsAre DEF Sized, Books
  <2>3. QED
    BY <2>1, <2>2, EndsMove DEF Live, Closed, TERMINAL, Sized, Limits
<1>3. ASSUME EntryEnds PROVE Sized'
  <2>1. /\ UNCHANGED <<kind, executed, position, filled>> /\ state["entry"] = "active"
        /\ \/ /\ state' = [state EXCEPT !["entry"] = "Cancelled", !["stop"] = Closed(@)]
              /\ size' = size
           \/ /\ state' = [state EXCEPT !["entry"] = "Cancelled", !["stop"] = @]
              /\ filled["entry"] > 0
              /\ size' = [size EXCEPT !["stop"] = Min({@, filled["entry"]})]
    BY <1>3 DEF EntryEnds
  <2>2. "stop" \in Orders /\ "entry" \in Orders /\ state \in [Orders -> {"none", "coming", "active"} \cup TERMINAL]
    BY SellsAre DEF Sized, Books
  <2>3. \A o \in Orders : state'[o] = state[o] \/ (Live(o) /\ state'[o] \in {"active"} \cup TERMINAL)
    BY <2>1, <2>2 DEF Live, Closed, TERMINAL, Sized, Limits
  <2>4. state' = [o \in Orders |-> state'[o]] /\ state'["entry"] = "Cancelled"
    BY <2>1, <2>2
  <2>5. QED
    BY <2>1, <2>3, <2>4, EndsMove
<1>4. ASSUME NEW o \in Sells, SellEnds(o) PROVE Sized'
  <2>1. UNCHANGED <<kind, executed, position, filled, size>> /\ state[o] = "active"
        /\ state' = [state EXCEPT ![o] = "Cancelled"]
    BY <1>4 DEF SellEnds
  <2>2. QED
    BY <2>1, EndsMove, SellsAre DEF Sized, Books, Live, TERMINAL
<1>5. QED
  BY <1>1, <1>2, <1>3, <1>4, EntryFillsSized, SellFillsSized DEF Broker

\* The engine sends an order for what it owns.
LEMMA DispatchSized ==
  ASSUME IInv, Sized, NEW x \in Later, kind[x] = "none", NEW purpose, Owned > 0,
         Dispatched(x, purpose), purpose # "none", UNCHANGED <<executed, position, filled>>
  PROVE  Sized'
<1> USE SellsAre, Distinct, ProtectionAssumption DEF ProtectionAssumption
<1>1. /\ kind' = [kind EXCEPT ![x] = purpose] /\ size' = [size EXCEPT ![x] = Owned]
      /\ state' \in {state, [state EXCEPT ![x] = "coming"]}
  BY DEF Dispatched
<1>2. Owned \in 1..Quantity /\ filled[x] = 0 /\ state[x] = "none"
  BY OwnedIsBounded DEF Sized, Limits, IInv, Names, Unused
<1>3. Books'
  BY <1>1, <1>2 DEF Sized, Books
<1>4. x # "entry" /\ x # "stop" /\ \A o \in Orders \ {x} : size'[o] = size[o] /\ state'[o] = state[o]
  BY <1>1 DEF Sized, Books
<1>5. size'[x] = Owned
  BY <1>1 DEF Sized, Books
<1>6. \A y \in Later : kind'[y] = "none" => kind[y] = "none"
  BY <1>1 DEF IInv, Typed
<1>7. Limits'
  BY <1>2, <1>4, <1>5, <1>6 DEF Sized, Limits, Live, Held
<1>8. QED
  BY <1>3, <1>7 DEF Sized

LEMMA StepSized == ASSUME IInv, Sized, [Next]_vars PROVE Sized'
<1> USE DEF durable, engine, broker
<1>1. ASSUME UNCHANGED <<executed, kind, state, size, filled>>, position' \in {position, Held}
      PROVE  Sized'
  BY <1>1, CountsMove DEF Sized, Books
<1>2. CASE Broker
  BY <1>2, BrokerSized
<1>3. CASE Observe
  <2>1. ASSUME NEW o \in Orders, ObserveExecution(o) PROVE Sized'
    <3>1. executed[o] < filled[o] /\ executed' = [executed EXCEPT ![o] = @ + 1]
          /\ UNCHANGED <<kind, position, state, size, filled>>
      BY <2>1 DEF ObserveExecution
    <3>2. executed \in [Orders -> Nat] /\ filled \in [Orders -> Nat]
          /\ \A p \in Orders : executed[p] <= filled[p]
      BY DEF Sized, Books
    <3>3. \A p \in Orders : executed'[p] \in {executed[p], executed[p] + 1, filled[p]}
                            /\ executed'[p] <= filled[p]
      BY <3>1, <3>2
    <3>4. executed' = [p \in Orders |-> executed'[p]]
      BY <3>1, <3>2
    <3>5. QED
      BY <3>1, <3>3, <3>4, CountsMove
  <2>2. QED
    BY <1>1, <1>3, <2>1 DEF Observe, ObserveOrder, ObservePosition
<1>4. CASE Act
  <2>1. ASSUME NEW x \in Later, ClosePosition(x) PROVE Sized'
    BY <2>1, DispatchSized DEF ClosePosition
  <2>2. QED
    BY <1>1, <1>4, <2>1 DEF Act, CancelEntry, RequestExit, RefreshExit
<1>5. CASE Reconcile
  <2>1. ASSUME NEW x \in Later, RepairSubmits(x) PROVE Sized'
    BY <2>1, DispatchSized DEF RepairSubmits, Repair
  <2>2. CASE TakeExecutions
    <3>1. executed' = filled /\ UNCHANGED <<kind, position, state, size, filled>>
      BY <2>2 DEF TakeExecutions
    <3>2. QED
      BY <3>1, CountsMove DEF Sized, Books
  <2>3. QED
    BY <1>1, <1>5, <2>1, <2>2 DEF Reconcile, BeginReconcile, TakeOrders, FinishSuperseded, Finish,
       RepairCancelsEntry, RepairCancelsSells
<1>6. CASE Restart \/ UNCHANGED vars
  BY <1>1, <1>6 DEF Restart, vars
<1>7. QED
  BY <1>2, <1>3, <1>4, <1>5, <1>6 DEF Next

-----------------------------------------------------------------------------
\* The ways the snapshot moves.
LEMMA SnapshotMoves ==
  ASSUME snapshot \in Snapshots
  PROVE  /\ Idle \in Snapshots /\ [parts |-> {}, current |-> TRUE, seen |-> {}] \in Snapshots
         /\ Superseded(snapshot) \in Snapshots
         /\ \A S \in SUBSET Orders, part \in SUBSET Parts :
              Staged(S, part) \in Snapshots /\ Superseded(Staged(S, part)) \in Snapshots
<1>1. snapshot \in [parts : SUBSET (Parts \cup {"none"}), current : BOOLEAN, seen : SUBSET Orders]
  BY DEF Snapshots
<1>2. Idle \in Snapshots /\ [parts |-> {}, current |-> TRUE, seen |-> {}] \in Snapshots
  BY DEF Snapshots, Idle
<1>3. ASSUME NEW s \in Snapshots PROVE Superseded(s) \in Snapshots
  BY DEF Snapshots, Superseded
<1>4. ASSUME NEW S \in SUBSET Orders, NEW part \in SUBSET Parts PROVE Staged(S, part) \in Snapshots
  <2> DEFINE parts == snapshot.parts \cup part
             seen  == IF snapshot = Idle THEN snapshot.seen ELSE snapshot.seen \cup S
  <2>1. parts \in SUBSET (Parts \cup {"none"}) /\ seen \in SUBSET Orders
    BY <1>1
  <2>2. Staged(S, part) = [snapshot EXCEPT !.seen = seen, !.parts = parts]
    BY Zenon DEF Staged
  <2> HIDE DEF parts, seen
  <2>3. QED
    BY <1>1, <2>1, <2>2 DEF Snapshots
<1>5. QED
  BY <1>2, <1>3, <1>4

LEMMA SnapshotStep == ASSUME snapshot \in Snapshots, [Next]_vars PROVE snapshot' \in Snapshots
<1> USE SnapshotMoves DEF engine
<1>1. CASE Broker \/ UNCHANGED vars
  BY <1>1 DEF Broker, BrokerAccepts, BrokerRejects, EntryFills, EntryEnds, SellFills, SellEnds, vars
<1>2. CASE Observe
  <2>1. ASSUME NEW o \in Orders, ObserveOrder(o) PROVE snapshot' \in Snapshots
    <3>1. snapshot' \in {Staged({o}, {}), Superseded(Staged({o}, {}))}
      BY <2>1 DEF ObserveOrder
    <3>2. QED
      BY <3>1
  <2>2. ASSUME snapshot' \in {snapshot, Superseded(snapshot)} PROVE snapshot' \in Snapshots
    BY <2>2
  <2>3. QED
    BY <1>2, <2>1, <2>2 DEF Observe, ObserveExecution, ObservePosition, Invalidated, Superseded
<1>3. CASE Act
  BY <1>3 DEF Act, CancelEntry, RequestExit, RefreshExit, ClosePosition, Invalidated, Superseded
<1>4. CASE TakeOrders
  <2>1. PICK seen \in SUBSET Known(Orders) :
          snapshot' \in {Staged(seen, {"orders"}), Superseded(Staged(seen, {"orders"}))}
    BY <1>4 DEF TakeOrders
  <2>2. seen \in SUBSET Orders /\ {"orders"} \in SUBSET Parts
    BY DEF Known, Parts
  <2>3. QED
    BY <2>1, <2>2
<1>5. CASE TakeExecutions
  <2>1. snapshot' \in {Staged({}, {"executions"}), Superseded(Staged({}, {"executions"}))}
    BY <1>5 DEF TakeExecutions
  <2>2. {} \in SUBSET Orders /\ {"executions"} \in SUBSET Parts
    BY DEF Parts
  <2>3. QED
    BY <2>1, <2>2
<1>6. CASE Reconcile /\ ~TakeOrders /\ ~TakeExecutions
  <2>1. snapshot' \in {Idle, [parts |-> {}, current |-> TRUE, seen |-> {}]}
    BY <1>6 DEF Reconcile, BeginReconcile, FinishSuperseded, Finish, RepairCancelsEntry,
       RepairCancelsSells, RepairSubmits, Repair, Finished
  <2>2. QED
    BY <2>1
<1>7. CASE Restart
  BY <1>7 DEF Restart
<1>8. QED
  BY <1>1, <1>2, <1>3, <1>4, <1>5, <1>6, <1>7 DEF Next

\* The flags of the engine are truth values.
Flags == reserved \in BOOLEAN /\ wanted \in BOOLEAN /\ ready \in BOOLEAN

LEMMA FlagsStep == ASSUME Flags, [Next]_vars PROVE Flags'
<1> USE DEF Flags, durable, engine
<1>1. CASE Broker \/ UNCHANGED vars
  BY <1>1 DEF Broker, BrokerAccepts, BrokerRejects, EntryFills, EntryEnds, SellFills, SellEnds, vars
<1>2. CASE Observe
  BY <1>2 DEF Observe, ObserveOrder, ObserveExecution, ObservePosition, Invalidated
<1>3. CASE Act
  BY <1>3 DEF Act, CancelEntry, RequestExit, RefreshExit, ClosePosition, Invalidated
<1>4. CASE BeginReconcile \/ TakeOrders \/ TakeExecutions \/ FinishSuperseded \/ Restart
  BY <1>4 DEF BeginReconcile, TakeOrders, TakeExecutions, FinishSuperseded, Restart
<1>5. ASSUME Finished PROVE Flags'
  <2>1. ready' = Settled /\ reserved' = (reserved /\ ~Released) /\ wanted' = (wanted /\ Owned # 0)
    BY <1>5 DEF Finished
  <2>2. Settled \in BOOLEAN
    BY Zenon DEF Settled
  <2>3. QED
    BY <2>1, <2>2, Zenon
<1>6. QED
  BY <1>1, <1>2, <1>3, <1>4, <1>5 DEF Next, Reconcile, Finish, RepairCancelsEntry,
     RepairCancelsSells, RepairSubmits, Repair

\* A request is asked, or confirmed.
LEMMA RequestStep == ASSUME request \in [Orders -> {"none", "pending", "confirmed"}], [Next]_vars
                     PROVE  request' \in [Orders -> {"none", "pending", "confirmed"}]
<1> USE DEF durable, engine
<1>1. ASSUME NEW S
      PROVE  /\ Confirmed \in [Orders -> {"none", "pending", "confirmed"}]
             /\ Asked(S) \in [Orders -> {"none", "pending", "confirmed"}]
             /\ Cancelled(S) \in [Orders -> {"none", "pending", "confirmed"}]
  BY DEF Confirmed, Asked, Cancelled
<1>2. request' = request \/ request' = Confirmed
      \/ \E S : request' = Asked(S) \/ request' = Cancelled(S)
  <2>1. CASE Broker \/ Observe \/ Restart \/ UNCHANGED vars
    BY <2>1 DEF Broker, BrokerAccepts, BrokerRejects, EntryFills, EntryEnds, SellFills, SellEnds,
       Observe, ObserveOrder, ObserveExecution, ObservePosition, Restart, vars
  <2>2. CASE Act
    BY <2>2 DEF Act, CancelEntry, RequestExit, RefreshExit, ClosePosition
  <2>3. CASE Reconcile
    BY <2>3 DEF Reconcile, BeginReconcile, TakeOrders, TakeExecutions, FinishSuperseded, Finish,
       RepairCancelsEntry, RepairCancelsSells, RepairSubmits
  <2>4. QED
    BY <2>1, <2>2, <2>3 DEF Next
<1>3. QED
  BY <1>1, <1>2

\* A document is what the broker had.
LEMMA DocStep == ASSUME Books, doc \in [Orders -> Documents], [Next]_vars
                 PROVE  doc' \in [Orders -> Documents]
<1> USE DEF durable, engine
<1>1. ASSUME NEW S, Learned(S) PROVE doc' \in [Orders -> Documents]
  <2>1. ASSUME NEW o \in Orders, o \in Known(S) PROVE Reported(o) \in Documents
    BY <2>1 DEF Books, Reported, Known, Documents
  <2>2. QED
    BY <1>1, <2>1 DEF Learned
<1>2. doc' = doc \/ \E S : Learned(S)
  <2>1. CASE Broker \/ Observe \/ Restart \/ UNCHANGED vars
    BY <2>1 DEF Broker, BrokerAccepts, BrokerRejects, EntryFills, EntryEnds, SellFills, SellEnds,
       Observe, ObserveOrder, ObserveExecution, ObservePosition, Restart, vars
  <2>2. CASE Act
    BY <2>2 DEF Act, CancelEntry, RequestExit, RefreshExit, ClosePosition
  <2>3. CASE Reconcile
    BY <2>3 DEF Reconcile, BeginReconcile, TakeOrders, TakeExecutions, FinishSuperseded, Finish,
       RepairCancelsEntry, RepairCancelsSells, RepairSubmits
  <2>4. QED
    BY <2>1, <2>2, <2>3 DEF Next
<1>3. QED
  BY <1>1, <1>2

-----------------------------------------------------------------------------
(* The theorems.                                                           *)

LEMMA Invariance == Spec => []IInv
BY InitHolds, StepKeeps, PTL DEF Spec

\* The types hold, and what an order fills, an execution reports and the account holds stays
\* between nothing and the quantity of the entry (the OCA group of protection.py).
THEOREM TypeCorrect == Spec => []TypeOK
<1>1. Init => IInv /\ Sized /\ Records
  <2> SUFFICES ASSUME Init PROVE Sized /\ Records
    BY InitHolds
  <2> USE SellsAre, Distinct, ProtectionAssumption DEF ProtectionAssumption
  <2>1. Books
    BY DEF Init, Books, TERMINAL
  <2>2. \A x \in Sells : filled[x] \in {0}
    BY DEF Init
  <2>3. Held = 0
    <3>1. Total(filled, Sells) = 0
      BY <2>2, SumIsZero
    <3>2. filled["entry"] = 0
      BY DEF Init
    <3>3. QED
      BY <3>1, <3>2, NetIs DEF Held
  <2>4. Limits
    BY <2>3 DEF Init, Limits, Live, TERMINAL
  <2>5. Nothing \in Documents /\ Idle \in Snapshots
    BY DEF Nothing, Documents, Idle, Snapshots
  <2>6. Records
    BY <2>5, Zenon DEF Init, Records
  <2>7. QED
    BY <2>1, <2>4, <2>6 DEF Sized
<1>2. IInv /\ Sized /\ Records /\ [Next]_vars => (IInv /\ Sized /\ Records)'
  <2> SUFFICES ASSUME IInv, Sized, Records, [Next]_vars PROVE Records'
    BY StepKeeps, StepSized
  <2>1. QED
    BY DocStep, RequestStep, FlagsStep, SnapshotStep DEF Records, Flags, Sized
<1>3. IInv /\ Sized /\ Records => TypeOK
  BY DEF IInv, Typed, RowStates, Ends, Sized, Books, Records, Documents, Snapshots, TypeOK
<1>4. QED
  BY <1>1, <1>2, <1>3, PTL DEF Spec

\* Once the reservation of an entry is given back (_finish_reconcile), the account holds
\* nothing of it and none of its orders can still trade.
THEOREM ReleasedIsFlat == Spec => []FlatRelease
<1>1. IInv => FlatRelease
  <2> SUFFICES ASSUME IInv, ~reserved PROVE Held = 0 /\ \A o \in Orders : ~Live(o)
    BY DEF FlatRelease
  <2>1. QED
    BY Quiet DEF IInv, Over
<1>2. QED
  BY <1>1, Invariance, PTL

\* At most one exit of a position is live at the broker (close_position).
THEOREM ExitIsAlone == Spec => []OneExit
<1>1. IInv => OneExit
  <2> SUFFICES ASSUME IInv, NEW x \in Exits, NEW y \in Exits, Live(x), Live(y) PROVE x = y
    BY DEF OneExit
  <2>1. ASSUME NEW o \in Exits, Live(o) PROVE row[o] \notin Ends
    BY <2>1, Distinct DEF IInv, RowEnd, Final, FinalDoc, Live, TERMINAL, Exits
  <2>2. QED
    BY <2>1 DEF IInv, Alone
<1>2. QED
  BY <1>1, Invariance, PTL

\* _repair_protection sends a replacement only when the entry and every other sell have
\* ended at the broker, and for exactly what the account holds.
THEOREM ReplacementIsAlone == Spec => ReplacementWaits
<1> DEFINE Waits(x) == kind[x] = "none" /\ kind'[x] = "protection"
                       => (\A o \in Orders \ {x} : ~Live(o)) /\ size'[x] = Held
<1>1. IInv /\ [Next]_vars => [\A x \in Later : Waits(x)]_vars
  <2> SUFFICES ASSUME IInv, Next, NEW x \in Later, kind[x] = "none", kind'[x] = "protection"
               PROVE  (\A o \in Orders \ {x} : ~Live(o)) /\ size'[x] = Held
    BY DEF vars
  <2>1. RepairSubmits(x)
    <3> USE DEF durable, broker, engine
    <3>1. ASSUME Broker \/ Observe \/ Restart PROVE FALSE
      BY <3>1 DEF Broker, BrokerAccepts, BrokerRejects, EntryFills, EntryEnds, SellFills,
         SellEnds, Observe, ObserveOrder, ObserveExecution, ObservePosition, Restart
    <3>2. ASSUME Act PROVE FALSE
      BY <3>2 DEF Act, CancelEntry, RequestExit, RefreshExit, ClosePosition, Dispatched, IInv, Typed
    <3>3. ASSUME BeginReconcile \/ TakeOrders \/ TakeExecutions \/ FinishSuperseded
                 \/ Finish \/ RepairCancelsEntry \/ RepairCancelsSells
          PROVE  FALSE
      BY <3>3 DEF BeginReconcile, TakeOrders, TakeExecutions, FinishSuperseded, Finish,
         RepairCancelsEntry, RepairCancelsSells
    <3>4. ASSUME NEW y \in Later, RepairSubmits(y) PROVE RepairSubmits(x)
      BY <3>4 DEF RepairSubmits, Dispatched, IInv, Typed
    <3>5. QED
      BY <3>1, <3>2, <3>3, <3>4 DEF Next, Reconcile
  <2>2. EndedAll
    BY <2>1, AllCounted DEF RepairSubmits, Repair, Replaceable, Identified, IInv
  <2>3. Held = Owned /\ \A o \in Orders : ~Live(o)
    BY <2>2, Quiet DEF IInv
  <2>4. size'[x] = Owned
    BY <2>1, Distinct DEF RepairSubmits, Dispatched, IInv, Typed
  <2>5. QED
    BY <2>3, <2>4
<1>2. QED
  BY <1>1, Invariance, PTL DEF Spec, ReplacementWaits

\* A reconciled account with a position has a stop at the broker for exactly that position,
\* unless the broker has changed something that it has yet to report (_finish_reconcile).
THEOREM ReadyCovered == Spec => []ReadyIsCovered
<1>1. Init => IInv /\ DocKnown /\ Steady
  <2>1. Init => DocKnown /\ Steady
    BY Distinct DEF Init, DocKnown, Steady, Nothing
  <2>2. QED
    BY <2>1, InitHolds
<1>2. IInv /\ DocKnown /\ Steady /\ [Next]_vars => (IInv /\ DocKnown /\ Steady)'
  BY StepKeeps, StepSteadies
<1>3. IInv /\ DocKnown /\ Steady => ReadyIsCovered
  <2> SUFFICES ASSUME IInv, DocKnown, Steady, ready, Reports, Held # 0 PROVE Covered
    BY DEF ReadyIsCovered
  <2>1. Owned = Held
    BY DEF Steady, Reports
  <2>2. PICK o \in Sells : Shown(o)
    BY <2>1 DEF Steady
  <2>3. o \in Orders /\ "entry" \in Orders
    BY Distinct DEF Orders
  <2>4. o \in Known(Orders)
    BY <2>2, <2>3 DEF DocKnown, Known, Shown
  <2>5. doc[o] = Reported(o)
    BY <2>3, <2>4 DEF Reports
  <2>6. state[o] = "active" /\ size[o] - filled[o] = Held
    BY <2>1, <2>2, <2>5 DEF Shown, Reported
  <2>7. o = "stop" => state["entry"] \in TERMINAL
    BY <2>2, <2>3 DEF Shown, DocKnown, IInv, Final, FinalDoc, TERMINAL
  <2>8. o # "stop" => kind[o] = "protection"
    BY <2>2 DEF Shown
  <2>9. QED
    BY <2>6, <2>7, <2>8 DEF Covered
<1>4. QED
  BY <1>1, <1>2, <1>3, PTL DEF Spec
=============================================================================
