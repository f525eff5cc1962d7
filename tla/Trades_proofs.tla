-------------------------- MODULE Trades_proofs --------------------------
(***************************************************************************)
(* Proofs about machines of the workspace, each through its instance: what *)
(* is sold is owned, for any number of orders, units, shares, restarts and *)
(* late answers; identifiers name one order; and restrictions are released *)
(* and snapshots published on current evidence only.                       *)
(***************************************************************************)
EXTENDS Trades, Sequences, Sums, SequenceTheorems

-----------------------------------------------------------------------------
(* Identifiers.                                                            *)

\* The largest of a set of natural numbers that is bounded: it exists, since the distance to the
\* bound has a least value.
LEMMA BoundedHasMax ==
  ASSUME NEW S \in SUBSET Nat, S # {}, NEW b \in Nat, \A x \in S : x <= b
  PROVE  Ids!Max(S) \in S /\ \A x \in S : x <= Ids!Max(S)
<1> DEFINE T == {n \in Nat : b - n \in S}
<1>1. T # {}
  <2>1. PICK x \in S : TRUE
    OBVIOUS
  <2>2. b - x \in Nat /\ b - (b - x) = x
    BY <2>1
  <2> QED BY <2>1, <2>2
<1>2. PICK n \in T : \A m \in T : n <= m
  <2> HIDE DEF T
  <2>1. T \subseteq Nat
    BY DEF T
  <2> QED BY <1>1, <2>1, Least
<1>4. b - n \in S /\ \A x \in S : b - n >= x
  <2>1. ASSUME NEW x \in S PROVE b - n >= x
    <3>1. b - x \in Nat /\ b - (b - x) = x
      OBVIOUS
    <3>2. b - x \in T
      BY <3>1
    <3>3. n <= b - x
      BY <1>2, <3>2
    <3> QED BY <3>3
  <2> QED BY <2>1
<1> QED BY <1>4 DEF Ids!Max

LEMMA MaxOfThree ==
  ASSUME NEW x \in Nat, NEW y \in Nat, NEW z \in Nat
  PROVE  Ids!Max({x, y, z}) \in Nat /\ Ids!Max({x, y, z}) >= x /\ Ids!Max({x, y, z}) >= y /\ Ids!Max({x, y, z}) >= z
<1> DEFINE S == {x, y, z}
<1>1. S \in SUBSET Nat /\ S # {} /\ x + y + z \in Nat /\ \A w \in S : w <= x + y + z
  OBVIOUS
<1>2. Ids!Max(S) \in S /\ \A w \in S : w <= Ids!Max(S)
  <2> HIDE DEF S
  <2> QED BY <1>1, BoundedHasMax
<1> QED BY <1>2

\* What the identifiers rest on: the allocator is above every identifier of a row and above every
\* preview.  The identifiers of a row are below the allocator and not only its base, so that the
\* width of a pair matters.
IdsTyped ==
  /\ ids_allocator \in Nat /\ ids_next_id \in Nat /\ ids_offered \in Nat /\ ids_previews \subseteq Nat
  /\ \A k \in DOMAIN ids_outbox : ids_outbox[k].base \in Nat /\ ids_outbox[k].kind \in Ids!KINDS
IdsBelow ==
  /\ \A k \in DOMAIN ids_outbox : \A i \in Ids!Owner(k) : i < ids_allocator
  /\ \A i \in ids_previews : i < ids_allocator
IdsInv == IdsTyped /\ IdsBelow /\ Ids!IdsAreDistinct

LEMMA OwnerBounds ==
  ASSUME IdsTyped, NEW k \in DOMAIN ids_outbox
  PROVE  /\ ids_outbox[k].base \in Ids!Owner(k) /\ Ids!Owner(k) \subseteq Nat
         /\ \A i \in Ids!Owner(k) : ids_outbox[k].base <= i /\ i <= ids_outbox[k].base + 3
BY DEF IdsTyped, Ids!Owner, Ids!Ids, Ids!KINDS

\* The base that is allocated is at or above the allocator.
LEMMA BaseIsAbove ==
  ASSUME IdsTyped, IdsBelow, NEW gap \in Nat
  PROVE  Ids!Base(gap) \in Nat /\ Ids!Base(gap) >= ids_allocator /\ Ids!Base(gap) >= ids_next_id
<1> DEFINE S == {0} \cup {ids_outbox[k].base : k \in DOMAIN ids_outbox}
<1>1. S \in SUBSET Nat /\ S # {}
  BY DEF IdsTyped
<1>2. \A x \in S : x <= ids_allocator
  BY OwnerBounds DEF IdsTyped, IdsBelow
<1>3. Ids!Max(S) \in Nat
  <2> HIDE DEF S
  <2>1. ids_allocator \in Nat
    BY DEF IdsTyped
  <2>2. Ids!Max(S) \in S
    BY <1>1, <1>2, <2>1, BoundedHasMax
  <2> QED BY <1>1, <2>2
<1>4. Ids!Highest + gap \in Nat
  BY <1>3 DEF Ids!Highest
<1> QED BY <1>4, MaxOfThree DEF Ids!Base, IdsTyped

\* No row, leg or preview ever shares an identifier with another (store.py: reserve_order and
\* allocate_broker_id), for any number of orders, restarts and offers of the broker.
THEOREM IdsInductive == IdsInv /\ [Ids!Next]_ids => IdsInv'
<1> SUFFICES ASSUME IdsInv, [Ids!Next]_ids PROVE IdsInv'
  OBVIOUS
<1>0. IdsTyped /\ IdsBelow /\ Ids!IdsAreDistinct
  BY DEF IdsInv
<1>1. ASSUME NEW k \in IdsKeys, NEW kind \in Ids!KINDS, Ids!ReserveOrder(k, kind) PROVE IdsInv'
  <2>1. Ids!Base(3) \in Nat /\ Ids!Base(3) >= ids_allocator
    BY <1>0, BaseIsAbove
  <2> DEFINE b == Ids!Base(3)
  <2>2. /\ k \notin DOMAIN ids_outbox /\ DOMAIN ids_outbox' = DOMAIN ids_outbox \cup {k}
        /\ ids_outbox'[k] = [base |-> b, kind |-> kind]
        /\ \A j \in DOMAIN ids_outbox : ids_outbox'[j] = ids_outbox[j]
        /\ ids_allocator' = b + (IF kind = "pair" THEN 4 ELSE 3)
        /\ UNCHANGED <<ids_previews, ids_next_id, ids_offered>>
    BY <1>1 DEF Ids!ReserveOrder
  <2> HIDE DEF b
  <2>3. b \in Nat /\ b >= ids_allocator
    BY <2>1 DEF b
  <2>4. \A j \in DOMAIN ids_outbox : Ids!Owner(j)' = Ids!Owner(j) /\ j # k
    BY <2>2 DEF Ids!Owner
  <2>5. Ids!Owner(k)' = Ids!Ids(b, kind)
    BY <2>2 DEF Ids!Owner
  <2>6. \A i \in Ids!Ids(b, kind) : i \in Nat /\ b <= i /\ i < ids_allocator'
    BY <2>2, <2>3 DEF Ids!Ids, Ids!KINDS
  <2>7. IdsTyped'
    BY <1>0, <2>2, <2>3 DEF IdsTyped
  <2>8. ids_allocator' \in Nat /\ ids_allocator \in Nat /\ ids_allocator' > ids_allocator /\ ids_previews' = ids_previews /\ ids_previews \subseteq Nat
    BY <1>0, <2>2, <2>3 DEF IdsTyped
  <2>9. IdsBelow'
    <3>1. ASSUME NEW j \in DOMAIN ids_outbox', NEW i \in Ids!Owner(j)' PROVE i < ids_allocator'
      <4>1. CASE j = k
        BY <4>1, <2>5, <2>6, <3>1
      <4>2. CASE j # k
        <5>1. j \in DOMAIN ids_outbox /\ i \in Ids!Owner(j)
          BY <4>2, <2>2, <2>4, <3>1
        <5>2. i \in Nat /\ i < ids_allocator
          BY <5>1, <1>0, OwnerBounds DEF IdsBelow
        <5> QED BY <5>2, <2>8
      <4> QED BY <4>1, <4>2
    <3>2. ASSUME NEW i \in ids_previews' PROVE i < ids_allocator'
      BY <1>0, <2>8, <3>2 DEF IdsBelow
    <3> QED BY <3>1, <3>2 DEF IdsBelow
  <2>10. \A i \in Ids!Ids(b, kind) : (\A j \in DOMAIN ids_outbox : i \notin Ids!Owner(j)) /\ i \notin ids_previews
    BY <1>0, <2>3, <2>6, <2>8, OwnerBounds DEF IdsBelow
  <2>11. Ids!IdsAreDistinct'
    <3>1. ASSUME NEW j \in DOMAIN ids_outbox', NEW l \in DOMAIN ids_outbox', j # l PROVE Ids!Owner(j)' \cap Ids!Owner(l)' = {}
      <4>1. CASE j = k
        BY <4>1, <2>2, <2>4, <2>5, <2>10, <3>1
      <4>2. CASE l = k
        BY <4>2, <2>2, <2>4, <2>5, <2>10, <3>1
      <4>3. CASE j # k /\ l # k
        BY <4>3, <1>0, <2>2, <2>4, <3>1 DEF Ids!IdsAreDistinct
      <4> QED BY <4>1, <4>2, <4>3
    <3>2. ASSUME NEW j \in DOMAIN ids_outbox' PROVE Ids!Owner(j)' \cap ids_previews' = {}
      <4>1. CASE j = k
        BY <4>1, <2>5, <2>8, <2>10
      <4>2. CASE j # k
        BY <4>2, <1>0, <2>2, <2>4, <2>8, <3>2 DEF Ids!IdsAreDistinct
      <4> QED BY <4>1, <4>2
    <3> QED BY <3>1, <3>2 DEF Ids!IdsAreDistinct
  <2> QED BY <2>7, <2>9, <2>11 DEF IdsInv
<1>2. CASE Ids!AllocateBrokerId
  <2>1. Ids!Base(4) \in Nat /\ Ids!Base(4) >= ids_allocator
    BY <1>0, BaseIsAbove
  <2>2. /\ ids_previews' = ids_previews \cup {Ids!Base(4)} /\ ids_allocator' = Ids!Base(4) + 1
        /\ UNCHANGED <<ids_outbox, ids_next_id, ids_offered>>
    BY <1>2 DEF Ids!AllocateBrokerId
  <2>3. \A j \in DOMAIN ids_outbox : Ids!Owner(j)' = Ids!Owner(j) /\ Ids!Owner(j) \subseteq Nat
    BY <1>0, <2>2, OwnerBounds DEF Ids!Owner
  <2>4. IdsTyped'
    <3>1. ids_previews' \subseteq Nat
      BY <1>0, <2>1, <2>2 DEF IdsTyped
    <3>2. ids_allocator' \in Nat
      BY <2>1, <2>2
    <3> QED BY <1>0, <2>2, <3>1, <3>2 DEF IdsTyped
  <2>5. ids_allocator \in Nat /\ ids_previews \subseteq Nat
    BY <1>0 DEF IdsTyped
  <2>6. IdsBelow'
    BY <1>0, <2>1, <2>2, <2>3, <2>5 DEF IdsBelow
  <2>7. \A j \in DOMAIN ids_outbox : Ids!Base(4) \notin Ids!Owner(j)
    BY <1>0, <2>1, <2>3, <2>5 DEF IdsBelow
  <2>8. Ids!IdsAreDistinct'
    BY <1>0, <2>2, <2>3, <2>7 DEF Ids!IdsAreDistinct
  <2> QED BY <2>4, <2>6, <2>8 DEF IdsInv
<1>3. ASSUME UNCHANGED <<ids_outbox, ids_allocator, ids_previews>>, ids_next_id' \in Nat, ids_offered' \in Nat PROVE IdsInv'
  BY <1>0, <1>3 DEF IdsInv, IdsTyped, IdsBelow, Ids!IdsAreDistinct, Ids!Owner
<1>4. ASSUME NEW k \in IdsKeys, Ids!Dispatch(k) PROVE IdsInv'
  <2> DEFINE I == Ids!Owner(k)
             S == {ids_offered} \cup {i + 1 : i \in I}
             b == ids_outbox[k].base + 4 + ids_offered
  <2>1. k \in DOMAIN ids_outbox /\ ids_offered' = Ids!Max(S) /\ UNCHANGED <<ids_outbox, ids_allocator, ids_previews, ids_next_id>>
    BY <1>4 DEF Ids!Dispatch, Ids!Owner
  <2>2. ids_offered \in Nat /\ ids_outbox[k].base \in Nat /\ ids_next_id \in Nat
    BY <1>0, <2>1 DEF IdsTyped
  <2>3. I \subseteq Nat /\ \A i \in I : i <= ids_outbox[k].base + 3
    BY <1>0, <2>1, OwnerBounds
  <2> HIDE DEF I
  <2>4. S \in SUBSET Nat /\ S # {} /\ b \in Nat /\ \A x \in S : x <= b
    <3>1. ASSUME NEW i \in I PROVE i \in Nat /\ i + 1 \in Nat /\ i + 1 <= b
      <4>1. i \in Nat /\ i <= ids_outbox[k].base + 3
        BY <2>3
      <4> QED BY <4>1, <2>2
    <3>2. ids_offered <= b /\ b \in Nat
      BY <2>2
    <3> HIDE DEF b
    <3> QED BY <2>2, <3>1, <3>2
  <2> HIDE DEF S, b
  <2>5. Ids!Max(S) \in S
    BY <2>4, BoundedHasMax
  <2>6. ids_offered' \in Nat /\ ids_next_id' \in Nat
    BY <2>1, <2>2, <2>4, <2>5
  <2> QED BY <1>3, <2>1, <2>6
<1>5. CASE Ids!Handshake
  <2>1. PICK n \in {ids_offered, 1} : ids_next_id' = Ids!Max({ids_next_id, n})
    BY <1>5 DEF Ids!Handshake
  <2>2. n \in Nat /\ ids_next_id \in Nat /\ ids_offered \in Nat
    BY <1>0 DEF IdsTyped
  <2>3. ids_next_id' \in Nat
    <3>1. {ids_next_id, n} = {ids_next_id, n, n}
      OBVIOUS
    <3> QED BY <2>1, <2>2, <3>1, MaxOfThree
  <2> QED BY <1>3, <1>5, <2>2, <2>3 DEF Ids!Handshake
<1>6. CASE Ids!Restart
  BY <1>0, <1>3, <1>6 DEF Ids!Restart, IdsTyped
<1>7. CASE UNCHANGED ids
  BY <1>0, <1>3, <1>7 DEF ids, IdsTyped
<1> QED BY <1>1, <1>2, <1>4, <1>5, <1>6, <1>7 DEF Ids!Next, ids

-----------------------------------------------------------------------------
(* Spot FX.  A sell is sent when every sell before it has ended and the    *)
(* executions agree with what the ended ones filled, so that what is owned *)
(* by the records is owned at the broker, or less than that.               *)

FXAt     == {"idle", "enter", "guard", "submit", "sync", "intend", "finish"}
FXStates == {"reserved", "dispatching", "unknown", "working", "cancel_pending"} \cup FX!TERMINAL
FXRow    == [purpose : {"entry", "protection", "exit"}, auth : Nat, quantity : Nat, state : FXStates]
FXSeen   == [ended : BOOLEAN, filled : Nat]
FXBroker == [status : {"absent", "live", "filled", "cancelled"}, filled : Nat]
FXBounds == [arms : Int, restarts : Int, raises : Int, late : Int, quiet : Int, exits : Int,
             local : BOOLEAN, units : Nat]

FXTables ==
  /\ fx_orders \in Seq(FXRow) /\ fx_known \in Seq(Nat)
  /\ fx_seen \in Seq(FXSeen) /\ fx_broker \in Seq(FXBroker)
  /\ Len(fx_known) = Len(fx_orders) /\ Len(fx_seen) = Len(fx_orders) /\ Len(fx_broker) = Len(fx_orders)
FXTyped ==
  /\ FXTables
  /\ fx_run \in [armed : BOOLEAN, auth : Nat, entries : Nat] /\ fx_pending \in Nat
  /\ fx_task \in [at : FXAt, order : Nat, then : {"idle", "finish"}] /\ fx_bounds \in FXBounds

FXSells == FX!Orders \ FX!Entries

\* What the engine knows of an order the broker has; a sell fills no more than it offers, and the
\* document of one that ended is final.
FXRecorded(i) ==
  /\ fx_known[i] <= fx_broker[i].filled
  /\ fx_broker[i].status = "absent" => fx_broker[i].filled = 0
  /\ i \in FXSells =>
       /\ fx_broker[i].filled <= fx_orders[i].quantity
       /\ FX!Ended(i) => /\ fx_broker[i].status \in {"filled", "cancelled"}
                         /\ fx_seen[i].filled = fx_broker[i].filled
FXRecords == \A i \in FX!Orders : FXRecorded(i)

FXOneSell == \A i, j \in FX!ActiveSells : i = j

\* An order that is on its way to the broker is not there yet.
FXCalls ==
  /\ fx_task.at \in {"guard", "submit"} =>
       fx_task.order \in FX!Orders /\ fx_broker[fx_task.order].status = "absent"
  /\ fx_task.at = "guard" => fx_task.order \in FX!Entries
  /\ fx_task.at = "enter" => fx_task.order = fx_run.auth

FXLeft  == FX!Net(FX!Filled)
FXOpen  == {i \in FX!ActiveSells : fx_broker[i].status \in {"absent", "live"}}
FXCover == FXLeft >= 0 /\ \A i \in FXOpen : FXLeft >= fx_orders[i].quantity - fx_broker[i].filled

FXInv == FXTyped /\ FXRecords /\ FXOneSell /\ FXCalls /\ FXCover

LEMMA FXNetIs == ASSUME NEW f
                 PROVE  FX!Net(f) = Total(f, FX!Entries) - Total(f, FXSells)
  BY DEF FX!Net, FXSells, FX!SumOver, Total, FX!MapThenSumSet, FX!MapThenFoldSet, MapThenSumSet, MapThenFoldSet

LEMMA FXLeftIs == /\ FXLeft = Total(FX!Filled, FX!Entries) - Total(FX!Filled, FXSells)
                  /\ FXLeft' = Total(FX!Filled', FX!Entries') - Total(FX!Filled', FXSells')
<1>1. FXLeft = Total(FX!Filled, FX!Entries) - Total(FX!Filled, FXSells)
  BY FXNetIs DEF FXLeft
<1>2. FXLeft' = Total(FX!Filled', FX!Entries') - Total(FX!Filled', FXSells')
  BY DEF FXLeft, FX!Net, FXSells, FX!SumOver, Total, FX!MapThenSumSet, FX!MapThenFoldSet, MapThenSumSet, MapThenFoldSet
<1>3. QED
  BY <1>1, <1>2

LEMMA FXSets == ASSUME FXTables
                PROVE  /\ FX!Orders = 1..Len(fx_orders) /\ Len(fx_orders) \in Nat
                       /\ DOMAIN fx_known = FX!Orders /\ DOMAIN fx_seen = FX!Orders /\ DOMAIN fx_broker = FX!Orders
                       /\ IsFiniteSet(FX!Entries) /\ IsFiniteSet(FXSells) /\ IsFiniteSet(FX!Orders)
                       /\ FX!Entries \subseteq FX!Orders /\ FXSells \subseteq FX!Orders
<1>1. /\ FX!Orders = 1..Len(fx_orders) /\ Len(fx_orders) \in Nat
      /\ DOMAIN fx_known = FX!Orders /\ DOMAIN fx_seen = FX!Orders /\ DOMAIN fx_broker = FX!Orders
  BY DEF FXTables, FX!Orders
<1>2. FX!Entries \subseteq FX!Orders /\ FXSells \subseteq FX!Orders
  BY DEF FX!Entries, FXSells
<1>3. IsFiniteSet(FX!Orders)
  BY <1>1, FS_Interval
<1>4. QED
  BY <1>1, <1>2, <1>3, FS_Subset

\* The types of one order.
FXOne(i) == /\ fx_orders[i] \in FXRow /\ fx_known[i] \in Nat /\ fx_seen[i] \in FXSeen /\ fx_broker[i] \in FXBroker
            /\ FX!Filled[i] = fx_broker[i].filled

LEMMA FXEach == ASSUME FXTables, NEW i \in FX!Orders PROVE FXOne(i)
  BY FXSets DEF FXTables, FXOne, FX!Filled

\* What is left at the broker is counted by the purposes and the fills alone.
FXFillsKept == /\ fx_orders' \in Seq(FXRow) /\ Len(fx_orders') = Len(fx_orders)
               /\ \A i \in FX!Orders : fx_orders'[i].purpose = fx_orders[i].purpose
               /\ \A i \in FX!Orders : fx_broker'[i].filled = fx_broker[i].filled

LEMMA FXLeftKept == ASSUME FXTables, FXFillsKept
                    PROVE  /\ FX!Orders' = FX!Orders /\ FX!Entries' = FX!Entries /\ FXSells' = FXSells
                           /\ FXLeft' = FXLeft
<1>1. FX!Orders' = FX!Orders
  BY DEF FX!Orders, FXTables, FXFillsKept
<1>2. FX!Entries' = FX!Entries /\ FXSells' = FXSells
  BY <1>1 DEF FX!Entries, FXSells, FXFillsKept
<1>3. FX!Filled' = FX!Filled
  BY <1>1 DEF FX!Filled, FXFillsKept
<1>4. FXLeft' = Total(FX!Filled', FX!Entries') - Total(FX!Filled', FXSells')
  BY FXLeftIs
<1>5. FXLeft = Total(FX!Filled, FX!Entries) - Total(FX!Filled, FXSells)
  BY FXLeftIs
<1>6. QED
  BY <1>1, <1>2, <1>3, <1>4, <1>5

LEMMA FXCoverKept ==
  ASSUME FXTables, FXOneSell, FXCover, FXFillsKept,
         \A i \in FX!Orders : fx_orders'[i].quantity = fx_orders[i].quantity,
         FX!ActiveSells' \subseteq FX!ActiveSells, FXOpen' \subseteq FXOpen
  PROVE  FXOneSell' /\ FXCover'
<1>1. FXLeft' = FXLeft /\ FX!Orders' = FX!Orders
  BY FXLeftKept
<1>2. FXOneSell'
  BY DEF FXOneSell
<1>3. FXOpen \subseteq FX!Orders
  BY DEF FXOpen, FX!ActiveSells
<1>4. FXCover'
  BY <1>1, <1>3 DEF FXCover, FXFillsKept
<1>5. QED
  BY <1>2, <1>4

\* A table in which one row, or every row, is written.
FXStatesSet(states) ==
  /\ fx_orders' \in Seq(FXRow) /\ Len(fx_orders') = Len(fx_orders)
  /\ \A i \in FX!Orders : /\ fx_orders'[i].purpose = fx_orders[i].purpose
                          /\ fx_orders'[i].quantity = fx_orders[i].quantity
                          /\ fx_orders'[i].state = states[i]

LEMMA FXSetState ==
  ASSUME FXTables, NEW i \in FX!Orders, NEW s \in FXStates, FX!SetState(i, s)
  PROVE  FXStatesSet([j \in FX!Orders |-> IF j = i THEN s ELSE fx_orders[j].state])
<1> DEFINE row == [purpose |-> fx_orders[i].purpose, auth |-> fx_orders[i].auth,
                   quantity |-> fx_orders[i].quantity, state |-> s]
<1>1. fx_orders \in Seq(FXRow) /\ FX!Orders = 1..Len(fx_orders)
  BY FXSets DEF FXTables
<1>2. \A j \in FX!Orders : fx_orders[j] \in FXRow
  BY <1>1
<1>3. [fx_orders[i] EXCEPT !.state = s] = row
  BY <1>2 DEF FXRow
<1>4. row \in FXRow
  BY <1>2 DEF FXRow
<1>5. fx_orders' = [fx_orders EXCEPT ![i] = row]
  BY <1>3 DEF FX!SetState
<1> HIDE DEF row
<1>6. /\ fx_orders' \in Seq(FXRow) /\ Len(fx_orders') = Len(fx_orders)
      /\ \A j \in FX!Orders : fx_orders'[j] = IF j = i THEN row ELSE fx_orders[j]
  BY <1>1, <1>4, <1>5
<1>7. row.purpose = fx_orders[i].purpose /\ row.quantity = fx_orders[i].quantity /\ row.state = s
  BY DEF row
<1>8. QED
  BY <1>6, <1>7 DEF FXStatesSet

LEMMA FXRowsUnchanged ==
  ASSUME FXTables, FXRecords, FXOneSell, FXCover, UNCHANGED <<fx_orders, fx_known, fx_seen, fx_broker>>
  PROVE  /\ FXTables' /\ FXRecords' /\ FXOneSell' /\ FXCover' /\ FX!Orders' = FX!Orders /\ FX!Entries' = FX!Entries
<1>1. FXTables'
  BY DEF FXTables
<1>2. FX!Orders' = FX!Orders /\ FX!Entries' = FX!Entries /\ FXSells' = FXSells
  BY DEF FX!Orders, FX!Entries, FXSells
<1>3. FXRecords'
  BY <1>2 DEF FXRecords, FXRecorded, FX!Ended
<1>4. FX!ActiveSells' = FX!ActiveSells /\ FXOpen' = FXOpen
  BY <1>2 DEF FX!ActiveSells, FXOpen, FX!Ended
<1>5. FXFillsKept
  BY DEF FXFillsKept, FXTables
<1>6. FXOneSell' /\ FXCover'
  BY <1>4, <1>5, FXCoverKept
<1>7. QED
  BY <1>1, <1>2, <1>3, <1>6

\* The broker's part of a table when a status is set.
FXStatusSet(i, s) ==
  /\ fx_broker' \in Seq(FXBroker) /\ Len(fx_broker') = Len(fx_broker)
  /\ \A j \in FX!Orders : /\ fx_broker'[j].filled = fx_broker[j].filled
                          /\ fx_broker'[j].status = IF j = i THEN s ELSE fx_broker[j].status

LEMMA FXSetStatus ==
  ASSUME FXTables, NEW i \in FX!Orders, NEW s \in {"absent", "live", "filled", "cancelled"},
         fx_broker' = [fx_broker EXCEPT ![i].status = s]
  PROVE  FXStatusSet(i, s)
<1> DEFINE b == [status |-> s, filled |-> fx_broker[i].filled]
<1>1. fx_broker \in Seq(FXBroker) /\ FX!Orders = 1..Len(fx_broker)
  BY FXSets DEF FXTables
<1>2. \A j \in FX!Orders : fx_broker[j] \in FXBroker
  BY <1>1
<1>3. [fx_broker[i] EXCEPT !.status = s] = b /\ b \in FXBroker
  BY <1>2 DEF FXBroker
<1>4. fx_broker' = [fx_broker EXCEPT ![i] = b]
  BY <1>3
<1> HIDE DEF b
<1>5. /\ fx_broker' \in Seq(FXBroker) /\ Len(fx_broker') = Len(fx_broker)
      /\ \A j \in FX!Orders : fx_broker'[j] = IF j = i THEN b ELSE fx_broker[j]
  BY <1>1, <1>3, <1>4
<1>6. b.status = s /\ b.filled = fx_broker[i].filled
  BY DEF b
<1>7. QED
  BY <1>5, <1>6 DEF FXStatusSet


\* A step that writes no row, by what it makes of the call in progress.
FXAside == /\ fx_run' \in [armed : BOOLEAN, auth : Nat, entries : Nat] /\ fx_pending' \in Nat
           /\ fx_bounds' \in FXBounds
           /\ fx_task' \in [at : FXAt, order : Nat, then : {"idle", "finish"}]
           /\ fx_task'.at \notin {"guard", "submit"}
           /\ fx_task'.at = "enter" => fx_task'.order = fx_run'.auth

LEMMA FXAsideKeeps == ASSUME FXInv, FXAside, UNCHANGED <<fx_orders, fx_known, fx_seen, fx_broker>>
                      PROVE  FXInv'
<1>1. FXTables' /\ FXRecords' /\ FXOneSell' /\ FXCover'
  BY FXRowsUnchanged DEF FXInv, FXTyped
<1>2. FXCalls'
  BY DEF FXAside, FXCalls
<1>3. FXTyped'
  BY <1>1 DEF FXTyped, FXAside
<1>4. QED
  BY <1>1, <1>2, <1>3 DEF FXInv

FXQuiet == FX!Arm \/ FX!Disarm \/ FX!Signal \/ FX!RetrySignal \/ FX!RequestExit \/ FX!Intend
           \/ FX!BeginReconcile \/ FX!Finish \/ FX!Quotes

LEMMA FXQuietKeeps == ASSUME FXInv, FXQuiet PROVE FXInv'
<1> USE DEF FXInv, FXTyped, FXAt, FX!Free, FX!Idle
<1>0. UNCHANGED <<fx_orders, fx_known, fx_seen, fx_broker>>
  BY DEF FXQuiet, FX!Arm, FX!Disarm, FX!Signal, FX!RetrySignal, FX!RequestExit, FX!Intend,
         FX!BeginReconcile, FX!Finish, FX!Quotes, FX!world
<1>a. fx_run.armed \in BOOLEAN /\ fx_run.auth \in Nat /\ fx_run.entries \in Nat
  OBVIOUS
<1>b. /\ [fx_run EXCEPT !.armed = FALSE] \in [armed : BOOLEAN, auth : Nat, entries : Nat]
      /\ [fx_run EXCEPT !.armed = FALSE].auth = fx_run.auth
  OBVIOUS
<1>c. \A n \in Nat : LET t == [FX!Idle EXCEPT !.at = "enter", !.order = n]
                    IN  t \in [at : FXAt, order : Nat, then : {"idle", "finish"}] /\ t.at = "enter" /\ t.order = n
  OBVIOUS
<1>d. LET t == [FX!Idle EXCEPT !.at = "intend"]
      IN  t \in [at : FXAt, order : Nat, then : {"idle", "finish"}] /\ t.at = "intend"
  OBVIOUS
<1>1. FX!Arm => FXAside
  BY DEF FX!Arm, FXAside, FXBounds
<1>2. FX!Disarm => FXAside
  BY <1>a, <1>b DEF FX!Disarm, FXAside, FXBounds
<1>3. FX!Signal => FXAside
  <2>1. SUFFICES ASSUME FX!Signal PROVE FXAside
    OBVIOUS
  <2>2. fx_task' = fx_task \/ fx_task' = [FX!Idle EXCEPT !.at = "enter", !.order = fx_run.auth]
    BY <2>1 DEF FX!Signal
  <2>3. /\ fx_task' \in [at : FXAt, order : Nat, then : {"idle", "finish"}]
        /\ fx_task'.at \notin {"guard", "submit"} /\ (fx_task'.at = "enter" => fx_task'.order = fx_run.auth)
    <3>1. CASE fx_task' = fx_task
      BY <2>1, <3>1 DEF FX!Signal
    <3>2. CASE fx_task' = [FX!Idle EXCEPT !.at = "enter", !.order = fx_run.auth]
      BY <1>a, <1>c, <3>2
    <3>3. QED
      BY <2>2, <3>1, <3>2
  <2>4. fx_pending' \in Nat /\ UNCHANGED <<fx_run, fx_bounds>>
    BY <2>1, <1>a DEF FX!Signal
  <2>5. QED
    BY <2>3, <2>4 DEF FXAside
<1>4. FX!RetrySignal => FXAside
  <2>1. SUFFICES ASSUME FX!RetrySignal PROVE FXAside
    OBVIOUS
  <2>2. fx_task' = fx_task \/ fx_task' = [FX!Idle EXCEPT !.at = "enter", !.order = fx_run.auth]
    BY <2>1 DEF FX!RetrySignal
  <2>3. /\ fx_task' \in [at : FXAt, order : Nat, then : {"idle", "finish"}]
        /\ fx_task'.at \notin {"guard", "submit"} /\ (fx_task'.at = "enter" => fx_task'.order = fx_run.auth)
    <3>1. CASE fx_task' = fx_task
      BY <2>1, <3>1 DEF FX!RetrySignal
    <3>2. CASE fx_task' = [FX!Idle EXCEPT !.at = "enter", !.order = fx_run.auth]
      BY <1>a, <1>c, <3>2
    <3>3. QED
      BY <2>2, <3>1, <3>2
  <2>4. fx_pending' \in Nat /\ UNCHANGED <<fx_run, fx_bounds>>
    BY <2>1, <1>a DEF FX!RetrySignal
  <2>5. QED
    BY <2>3, <2>4 DEF FXAside
<1>5. FX!RequestExit => FXAside
  BY <1>a, <1>b, <1>d DEF FX!RequestExit, FXAside, FXBounds
<1>6. FX!Intend => FXAside
  BY DEF FX!Intend, FX!world, FXAside
<1>7. FX!BeginReconcile => FXAside
  BY DEF FX!BeginReconcile, FX!world, FXAside
<1>8. FX!Finish => FXAside
  BY DEF FX!Finish, FX!world, FXAside
<1>9. FX!Quotes => FXAside
  BY DEF FX!Quotes, FXAside, FXBounds
<1>10. FXAside
  BY <1>1, <1>2, <1>3, <1>4, <1>5, <1>6, <1>7, <1>8, <1>9 DEF FXQuiet
<1>11. QED
  BY <1>0, <1>10, FXAsideKeeps

-----------------------------------------------------------------------------
(* What the engine is told: executions, and what the document of an order  *)
(* says of its end.                                                        *)

LEMMA FXExecution == ASSUME FXInv, FX!Execution PROVE FXInv'
<1> USE DEF FXInv, FXTyped
<1>1. PICK i \in FX!Orders : /\ fx_known[i] < fx_broker[i].filled
                             /\ fx_known' = [fx_known EXCEPT ![i] = fx_broker[i].filled]
  BY DEF FX!Execution, FX!Recorded
<1>2. UNCHANGED <<fx_orders, fx_seen, fx_broker, fx_run, fx_pending, fx_bounds>> /\ fx_task' = [FX!Idle EXCEPT !.at = "sync"]
  BY DEF FX!Execution
<1>3. fx_known \in Seq(Nat) /\ fx_broker[i].filled \in Nat /\ DOMAIN fx_known = FX!Orders
  BY FXSets, FXEach DEF FXOne, FXBroker, FXTables
<1>4. /\ fx_known' \in Seq(Nat) /\ Len(fx_known') = Len(fx_known)
      /\ \A j \in FX!Orders : fx_known'[j] = IF j = i THEN fx_broker[i].filled ELSE fx_known[j]
  BY <1>1, <1>3
<1>5. FX!Orders' = FX!Orders /\ FX!Entries' = FX!Entries /\ FXSells' = FXSells /\ FX!ActiveSells' = FX!ActiveSells
  BY <1>2 DEF FX!Orders, FX!Entries, FXSells, FX!ActiveSells, FX!Ended
<1>6. FXTables'
  BY <1>2, <1>4 DEF FXTables
<1>7. FXTyped' /\ FXCalls'
  BY <1>2, <1>6 DEF FX!Idle, FXAt, FXCalls
<1>8. FXRecords'
  <2>1. SUFFICES ASSUME NEW j \in FX!Orders PROVE FXRecorded(j)'
    BY <1>5 DEF FXRecords
  <2>2. FXRecorded(j) /\ FXOne(j)
    BY FXEach DEF FXRecords
  <2>3. QED
    BY <1>2, <1>4, <1>5, <2>2 DEF FXRecorded, FX!Ended, FXOne, FXBroker
<1>9. FXFillsKept
  BY <1>2 DEF FXFillsKept, FXTables
<1>10. FXOpen' = FXOpen
  BY <1>2, <1>5 DEF FXOpen
<1>11. FXOneSell' /\ FXCover'
  BY <1>2, <1>5, <1>9, <1>10, FXCoverKept
<1>12. QED
  BY <1>7, <1>8, <1>11

LEMMA FXCollect == ASSUME FXInv, FX!Collect PROVE FXInv'
<1> USE DEF FXInv, FXTyped
<1>1. fx_known' = FX!Filled
  BY DEF FX!Collect
<1>2. /\ UNCHANGED <<fx_orders, fx_seen, fx_broker, fx_run, fx_pending, fx_bounds>>
      /\ fx_task' = [FX!Idle EXCEPT !.at = "sync", !.then = "finish"]
  BY DEF FX!Collect
<1>3. \A j \in FX!Orders : fx_broker[j].filled \in Nat
  BY FXEach DEF FXOne, FXBroker
<1>4. /\ fx_known' \in Seq(Nat) /\ Len(fx_known') = Len(fx_orders)
      /\ \A j \in FX!Orders : fx_known'[j] = fx_broker[j].filled
  BY <1>1, <1>3, FXSets DEF FX!Filled
<1>5. FX!Orders' = FX!Orders /\ FX!Entries' = FX!Entries /\ FXSells' = FXSells /\ FX!ActiveSells' = FX!ActiveSells
  BY <1>2 DEF FX!Orders, FX!Entries, FXSells, FX!ActiveSells, FX!Ended
<1>6. FXTables'
  BY <1>2, <1>4 DEF FXTables
<1>7. FXTyped' /\ FXCalls'
  BY <1>2, <1>6 DEF FX!Idle, FXAt, FXCalls
<1>8. FXRecords'
  <2>1. SUFFICES ASSUME NEW j \in FX!Orders PROVE FXRecorded(j)'
    BY <1>5 DEF FXRecords
  <2>2. FXRecorded(j) /\ FXOne(j)
    BY FXEach DEF FXRecords
  <2>3. QED
    BY <1>2, <1>4, <1>5, <2>2 DEF FXRecorded, FX!Ended, FXOne, FXBroker
<1>9. FXFillsKept
  BY <1>2 DEF FXFillsKept, FXTables
<1>10. FXOpen' = FXOpen
  BY <1>2, <1>5 DEF FXOpen
<1>11. FXOneSell' /\ FXCover'
  BY <1>2, <1>5, <1>9, <1>10, FXCoverKept
<1>12. QED
  BY <1>7, <1>8, <1>11

LEMMA FXStatus == ASSUME FXInv, FX!Status PROVE FXInv'
<1> USE DEF FXInv, FXTyped
<1>1. PICK i \in FX!Orders : /\ fx_broker[i].status # "absent"
                             /\ FX!SetState(i, FX!Projected(i)) /\ fx_seen' = [fx_seen EXCEPT ![i] = FX!Shown(i)]
  BY DEF FX!Status
<1>2. UNCHANGED <<fx_known, fx_broker, fx_run, fx_pending, fx_bounds, fx_task>> /\ fx_task = FX!Idle
  BY DEF FX!Status, FX!Free
<1> DEFINE s == FX!Projected(i)
           d == FX!Shown(i)
<1>3. FXOne(i) /\ FXRecorded(i)
  BY FXEach DEF FXRecords
<1>4. s \in FXStates /\ (s \in FX!TERMINAL => fx_broker[i].status = s)
      /\ (fx_broker[i].status \in {"filled", "cancelled"} => s \in FX!TERMINAL)
  BY <1>1, <1>3 DEF FX!Projected, FXStates, FX!TERMINAL, FXOne, FXBroker
<1>5. d \in FXSeen /\ d.filled = fx_broker[i].filled
  BY <1>3 DEF FX!Shown, FXSeen, FXOne, FXBroker
<1> HIDE DEF s, d
<1>6. FXStatesSet([j \in FX!Orders |-> IF j = i THEN s ELSE fx_orders[j].state])
  BY <1>1, <1>4, FXSetState DEF s
<1>7. /\ fx_orders' \in Seq(FXRow) /\ Len(fx_orders') = Len(fx_orders)
      /\ \A j \in FX!Orders : /\ fx_orders'[j].purpose = fx_orders[j].purpose
                              /\ fx_orders'[j].quantity = fx_orders[j].quantity
                              /\ fx_orders'[j].state = IF j = i THEN s ELSE fx_orders[j].state
  BY <1>6 DEF FXStatesSet
<1>8. /\ fx_seen' \in Seq(FXSeen) /\ Len(fx_seen') = Len(fx_seen)
      /\ \A j \in FX!Orders : fx_seen'[j] = IF j = i THEN d ELSE fx_seen[j]
  <2>1. fx_seen \in Seq(FXSeen) /\ FX!Orders = 1..Len(fx_seen) /\ fx_seen' = [fx_seen EXCEPT ![i] = d]
    BY <1>1, FXSets DEF FXTables, d
  <2>2. QED
    BY <1>5, <2>1
<1>9. FXFillsKept
  BY <1>2, <1>7 DEF FXFillsKept
<1>10. FX!Orders' = FX!Orders /\ FX!Entries' = FX!Entries /\ FXSells' = FXSells
  BY <1>9, FXLeftKept
<1>11. FXTables'
  BY <1>2, <1>7, <1>8 DEF FXTables
<1>12. FXTyped' /\ FXCalls'
  BY <1>2, <1>11 DEF FX!Idle, FXAt, FXCalls
<1>13. FXRecords'
  <2>1. SUFFICES ASSUME NEW j \in FX!Orders PROVE FXRecorded(j)'
    BY <1>10 DEF FXRecords
  <2>2. FXRecorded(j) /\ FXOne(j)
    BY FXEach DEF FXRecords
  <2>3. fx_known'[j] <= fx_broker'[j].filled /\ (fx_broker'[j].status = "absent" => fx_broker'[j].filled = 0)
    BY <1>2, <2>2 DEF FXRecorded
  <2>4. ASSUME j \in FXSells
        PROVE  fx_broker'[j].filled <= fx_orders'[j].quantity
    BY <1>2, <1>7, <2>2, <2>4 DEF FXRecorded
  <2>5. ASSUME j \in FXSells, FX!Ended(j)'
        PROVE  fx_broker'[j].status \in {"filled", "cancelled"} /\ fx_seen'[j].filled = fx_broker'[j].filled
    <3>1. fx_orders'[j].state \in FX!TERMINAL
      BY <2>5 DEF FX!Ended
    <3>2. CASE j = i
      <4>1. s \in FX!TERMINAL /\ fx_seen'[j] = d
        BY <3>1, <3>2, <1>7, <1>8
      <4>2. fx_broker[i].status = s /\ fx_broker[i].status \in {"absent", "live", "filled", "cancelled"}
        BY <4>1, <1>4, <1>3 DEF FXOne, FXBroker
      <4>3. QED
        BY <4>1, <4>2, <3>2, <1>2, <1>5 DEF FX!TERMINAL
    <3>3. CASE j # i
      <4>1. FX!Ended(j) /\ fx_seen'[j] = fx_seen[j]
        BY <3>1, <3>3, <1>7, <1>8 DEF FX!Ended
      <4>2. QED
        BY <4>1, <2>2, <2>5, <1>2 DEF FXRecorded
    <3>4. QED
      BY <3>2, <3>3
  <2>6. QED
    BY <1>10, <2>3, <2>4, <2>5 DEF FXRecorded
<1>14. FX!ActiveSells' \subseteq FX!ActiveSells
  \* A sell that has ended keeps the status it ended with.
  <2>1. SUFFICES ASSUME NEW j \in FX!Orders \ FX!Entries, FX!Ended(j) PROVE FX!Ended(j)'
    BY <1>10 DEF FX!ActiveSells
  <2>2. fx_orders[j].state \in FX!TERMINAL /\ j \in FX!Orders /\ j \in FXSells
    BY <2>1 DEF FX!Ended, FXSells
  <2>3. fx_orders'[j].state \in FX!TERMINAL
    <3>1. CASE j = i
      <4>1. fx_broker[i].status \in {"filled", "cancelled"}
        BY <2>1, <2>2, <3>1, <1>3 DEF FXRecorded
      <4>2. QED
        BY <4>1, <1>4, <1>7, <3>1
    <3>2. CASE j # i
      BY <2>2, <3>2, <1>7
    <3>3. QED
      BY <3>1, <3>2
  <2>4. QED
    BY <2>3 DEF FX!Ended
<1>15. FXOpen' \subseteq FXOpen
  BY <1>2, <1>14 DEF FXOpen
<1>16. FXOneSell' /\ FXCover'
  BY <1>7, <1>9, <1>14, <1>15, FXCoverKept
<1>17. QED
  BY <1>12, <1>13, <1>16

-----------------------------------------------------------------------------
(* Steps that fill nothing, end no sell and send none: a submission, its   *)
(* loss, a cancellation at the broker, and a restart.                      *)

FXMoved ==
  /\ fx_orders' \in Seq(FXRow) /\ Len(fx_orders') = Len(fx_orders)
  /\ \A i \in FX!Orders : /\ fx_orders'[i].purpose = fx_orders[i].purpose
                          /\ fx_orders'[i].quantity = fx_orders[i].quantity
  /\ \A i \in FXSells : fx_orders'[i].state \in FX!TERMINAL <=> fx_orders[i].state \in FX!TERMINAL
  /\ fx_broker' \in Seq(FXBroker) /\ Len(fx_broker') = Len(fx_broker)
  /\ \A i \in FX!Orders : /\ fx_broker'[i].filled = fx_broker[i].filled
                          /\ fx_broker'[i].status = "absent" => fx_broker[i].status = "absent"
  /\ \A i \in FXSells : /\ fx_broker'[i].status = "filled" <=> fx_broker[i].status = "filled"
                        /\ fx_broker[i].status = "cancelled" => fx_broker'[i].status = "cancelled"
  /\ UNCHANGED <<fx_known, fx_seen>>

LEMMA FXMovedKeeps ==
  ASSUME FXTables, FXRecords, FXOneSell, FXCover, FXMoved
  PROVE  /\ FXTables' /\ FXRecords' /\ FXOneSell' /\ FXCover' /\ FX!Orders' = FX!Orders /\ FX!Entries' = FX!Entries
<1>1. FXFillsKept
  BY DEF FXMoved, FXFillsKept
<1>2. FX!Orders' = FX!Orders /\ FX!Entries' = FX!Entries /\ FXSells' = FXSells
  BY <1>1, FXLeftKept
<1>3. FXTables'
  BY DEF FXTables, FXMoved
<1>4. \A i \in FXSells : FX!Ended(i)' <=> FX!Ended(i)
  BY DEF FXMoved, FX!Ended
<1>5. FX!ActiveSells' = FX!ActiveSells
  BY <1>2, <1>4 DEF FX!ActiveSells, FXSells
<1>6. FXOpen' \subseteq FXOpen
  <2>1. SUFFICES ASSUME NEW i \in FX!ActiveSells, fx_broker'[i].status \in {"absent", "live"}
                 PROVE  fx_broker[i].status \in {"absent", "live"}
    BY <1>5 DEF FXOpen
  <2>2. i \in FXSells /\ i \in FX!Orders
    BY <2>1 DEF FX!ActiveSells, FXSells
  <2>3. fx_broker[i].status \in {"absent", "live", "filled", "cancelled"}
    BY <2>2, FXEach DEF FXOne, FXBroker
  <2>4. QED
    BY <2>1, <2>2, <2>3 DEF FXMoved
<1>7. \A i \in FX!Orders : fx_orders'[i].quantity = fx_orders[i].quantity
  BY DEF FXMoved
<1>8. FXOneSell' /\ FXCover'
  BY <1>1, <1>5, <1>6, <1>7, FXCoverKept
<1>9. FXRecords'
  <2>1. SUFFICES ASSUME NEW i \in FX!Orders PROVE FXRecorded(i)'
    BY <1>2 DEF FXRecords
  <2>2. FXRecorded(i) /\ fx_broker[i].status \in {"absent", "live", "filled", "cancelled"}
    BY FXEach DEF FXRecords, FXOne, FXBroker
  <2>3. /\ fx_known'[i] <= fx_broker'[i].filled
        /\ fx_broker'[i].status = "absent" => fx_broker'[i].filled = 0
    BY <2>2 DEF FXRecorded, FXMoved
  <2>4. ASSUME i \in FXSells
        PROVE  /\ fx_broker'[i].filled <= fx_orders'[i].quantity
               /\ FX!Ended(i)' => /\ fx_broker'[i].status \in {"filled", "cancelled"}
                                  /\ fx_seen'[i].filled = fx_broker'[i].filled
    BY <1>4, <2>2, <2>4 DEF FXRecorded, FXMoved
  <2>5. QED
    BY <1>2, <2>3, <2>4 DEF FXRecorded
<1>10. QED
  BY <1>2, <1>3, <1>8, <1>9

LEMMA FXGuard == ASSUME FXInv, FX!Guard PROVE FXInv'
<1> USE DEF FXInv, FXTyped
<1> DEFINE i == fx_task.order
<1>1. i \in FX!Orders /\ i \in FX!Entries /\ fx_broker[i].status = "absent" /\ fx_task.at = "guard"
  BY DEF FX!Guard, FXCalls
<1>2. PICK s \in {"dispatching", "cancelled"} :
         /\ FX!SetState(i, s)
         /\ IF s = "dispatching" THEN fx_task' = [fx_task EXCEPT !.at = "submit"] ELSE fx_task' = FX!Idle
  BY DEF FX!Guard
<1>3. UNCHANGED <<fx_known, fx_seen, fx_broker, fx_run, fx_pending, fx_bounds>>
  BY DEF FX!Guard, FX!world
<1>4. FXStatesSet([j \in FX!Orders |-> IF j = i THEN s ELSE fx_orders[j].state])
  BY <1>1, <1>2, FXSetState DEF FXStates, FX!TERMINAL
<1>5. FXMoved
  <2>1. i \notin FXSells /\ FXSells \subseteq FX!Orders
    BY <1>1 DEF FXSells
  <2>2. QED
    BY <1>3, <1>4, <2>1 DEF FXMoved, FXStatesSet, FXTables
<1>6. /\ FXTables' /\ FXRecords' /\ FXOneSell' /\ FXCover' /\ FX!Orders' = FX!Orders /\ FX!Entries' = FX!Entries
  BY <1>5, FXMovedKeeps
<1>7. /\ fx_task' \in [at : FXAt, order : Nat, then : {"idle", "finish"}]
      /\ fx_task'.at \in {"submit", "idle"} /\ (fx_task'.at = "submit" => fx_task'.order = i)
  BY <1>2 DEF FX!Idle, FXAt
<1>8. FXTyped'
  BY <1>3, <1>6, <1>7
<1>9. FXCalls'
  BY <1>1, <1>3, <1>6, <1>7 DEF FXCalls
<1>10. QED
  BY <1>6, <1>8, <1>9

LEMMA FXSubmit == ASSUME FXInv, FX!Submit PROVE FXInv'
<1> USE DEF FXInv, FXTyped
<1> DEFINE i == fx_task.order
<1>1. i \in FX!Orders /\ fx_broker[i].status = "absent" /\ fx_task.at = "submit"
  BY DEF FX!Submit, FXCalls
<1>2. UNCHANGED <<fx_known, fx_seen, fx_run, fx_pending>>
  BY DEF FX!Submit
<1>3. /\ fx_task' \in [at : FXAt, order : Nat, then : {"idle", "finish"}]
      /\ fx_task'.at \in {"finish", "idle"}
  BY DEF FX!Submit, FX!Idle, FXAt
<1>4. fx_bounds' \in FXBounds
  BY DEF FX!Submit, FXBounds
<1>5. PICK s \in {"absent", "live"} : fx_broker' = [fx_broker EXCEPT ![i].status = s]
  BY DEF FX!Submit
<1>6. FXStatusSet(i, s)
  BY <1>1, <1>5, FXSetStatus
<1>7. \/ UNCHANGED fx_orders
      \/ FX!SetState(i, "unknown")
  BY DEF FX!Submit
<1>8. /\ fx_orders' \in Seq(FXRow) /\ Len(fx_orders') = Len(fx_orders)
      /\ \A j \in FX!Orders : /\ fx_orders'[j].purpose = fx_orders[j].purpose
                              /\ fx_orders'[j].quantity = fx_orders[j].quantity
                              /\ \/ fx_orders'[j].state = fx_orders[j].state
                                 \/ j = i /\ fx_orders'[j].state = "unknown"
  <2>1. CASE UNCHANGED fx_orders
    BY <2>1 DEF FXTables
  <2>2. CASE FX!SetState(i, "unknown")
    <3>1. FXStatesSet([j \in FX!Orders |-> IF j = i THEN "unknown" ELSE fx_orders[j].state])
      BY <1>1, <2>2, FXSetState DEF FXStates
    <3>2. QED
      BY <3>1 DEF FXStatesSet
  <2>3. QED
    BY <1>7, <2>1, <2>2
<1>9. FXMoved
  <2>1. FXSells \subseteq FX!Orders
    BY DEF FXSells
  <2>2. \A j \in FXSells : fx_orders'[j].state \in FX!TERMINAL <=> fx_orders[j].state \in FX!TERMINAL
    <3>1. SUFFICES ASSUME NEW j \in FXSells
                   PROVE  fx_orders'[j].state \in FX!TERMINAL <=> fx_orders[j].state \in FX!TERMINAL
      OBVIOUS
    \* A sell that ended is at the broker.
    <3>2. j = i => fx_orders[j].state \notin FX!TERMINAL
      BY <1>1, <2>1, <3>1 DEF FXRecords, FXRecorded, FX!Ended
    <3>3. "unknown" \notin FX!TERMINAL
      BY DEF FX!TERMINAL
    <3>4. QED
      BY <1>8, <2>1, <3>2, <3>3
  <2>3. \A j \in FX!Orders : fx_broker'[j].status = IF j = i THEN s ELSE fx_broker[j].status
    BY <1>6 DEF FXStatusSet
  <2>4. \A j \in FXSells : /\ fx_broker'[j].status = "filled" <=> fx_broker[j].status = "filled"
                           /\ fx_broker[j].status = "cancelled" => fx_broker'[j].status = "cancelled"
    BY <1>1, <2>1, <2>3
  <2>5. \A j \in FX!Orders : /\ fx_broker'[j].filled = fx_broker[j].filled
                             /\ fx_broker'[j].status = "absent" => fx_broker[j].status = "absent"
    BY <1>1, <1>6, <2>3 DEF FXStatusSet
  <2>6. QED
    BY <1>2, <1>6, <1>8, <2>2, <2>4, <2>5 DEF FXMoved, FXStatusSet
<1>10. FXTables' /\ FXRecords' /\ FXOneSell' /\ FXCover'
  BY <1>9, FXMovedKeeps
<1>11. FXCalls'
  BY <1>3 DEF FXCalls
<1>12. QED
  BY <1>2, <1>3, <1>4, <1>10, <1>11

LEMMA FXCancelled == ASSUME FXInv, FX!Cancelled PROVE FXInv'
<1> USE DEF FXInv, FXTyped
<1>1. PICK i \in FX!Orders : fx_broker[i].status = "live" /\ fx_broker' = [fx_broker EXCEPT ![i].status = "cancelled"]
  BY DEF FX!Cancelled
<1>2. UNCHANGED <<fx_orders, fx_known, fx_seen, fx_run, fx_pending, fx_task, fx_bounds>>
  BY DEF FX!Cancelled
<1>3. FXStatusSet(i, "cancelled")
  BY <1>1, FXSetStatus
<1>4. FXMoved
  <2>1. FXSells \subseteq FX!Orders
    BY DEF FXSells
  <2>2. \A j \in FX!Orders : /\ fx_broker'[j].filled = fx_broker[j].filled
                             /\ fx_broker'[j].status = IF j = i THEN "cancelled" ELSE fx_broker[j].status
    BY <1>3 DEF FXStatusSet
  <2>3. \A j \in FXSells : /\ fx_broker'[j].status = "filled" <=> fx_broker[j].status = "filled"
                           /\ fx_broker[j].status = "cancelled" => fx_broker'[j].status = "cancelled"
    BY <1>1, <2>1, <2>2
  <2>4. QED
    BY <1>1, <1>2, <1>3, <2>2, <2>3 DEF FXMoved, FXStatusSet, FXTables
<1>5. /\ FXTables' /\ FXRecords' /\ FXOneSell' /\ FXCover' /\ FX!Orders' = FX!Orders /\ FX!Entries' = FX!Entries
  BY <1>4, FXMovedKeeps
<1>6. FXCalls'
  BY <1>1, <1>2, <1>3, <1>5 DEF FXCalls, FXStatusSet
<1>7. QED
  BY <1>2, <1>5, <1>6

LEMMA FXRestart == ASSUME FXInv, FX!Restart PROVE FXInv'
<1> USE DEF FXInv, FXTyped
<1> DEFINE down(j) == fx_orders[j].state \in {"reserved", "dispatching"}
           row(j) == [purpose |-> fx_orders[j].purpose, auth |-> fx_orders[j].auth,
                      quantity |-> fx_orders[j].quantity, state |-> "unknown"]
<1>1. /\ UNCHANGED <<fx_known, fx_seen, fx_broker>> /\ fx_task' = FX!Idle /\ fx_pending' = 0
      /\ fx_run' = [fx_run EXCEPT !.armed = FALSE] /\ fx_bounds' = [fx_bounds EXCEPT !.restarts = @ - 1]
      /\ fx_orders' = [j \in FX!Orders |-> IF down(j) THEN [fx_orders[j] EXCEPT !.state = "unknown"] ELSE fx_orders[j]]
  BY DEF FX!Restart
<1>2. /\ fx_run' \in [armed : BOOLEAN, auth : Nat, entries : Nat] /\ fx_bounds' \in FXBounds
      /\ fx_task' \in [at : FXAt, order : Nat, then : {"idle", "finish"}] /\ fx_task'.at = "idle" /\ fx_pending' \in Nat
  <2>1. fx_run' \in [armed : BOOLEAN, auth : Nat, entries : Nat]
    BY <1>1
  <2>2. fx_bounds' \in FXBounds
    BY <1>1 DEF FXBounds
  <2>3. QED
    BY <1>1, <2>1, <2>2 DEF FX!Idle, FXAt
<1>3. FX!Orders = 1..Len(fx_orders) /\ Len(fx_orders) \in Nat /\ \A j \in FX!Orders : fx_orders[j] \in FXRow
  BY FXSets, FXEach DEF FXOne
<1>4. \A j \in FX!Orders : [fx_orders[j] EXCEPT !.state = "unknown"] = row(j) /\ row(j) \in FXRow
  BY <1>3 DEF FXRow, FXStates
<1>5. \A j \in FX!Orders : fx_orders'[j] = IF down(j) THEN row(j) ELSE fx_orders[j]
  BY <1>1, <1>4
<1>6. \A j \in FX!Orders : fx_orders'[j] \in FXRow
  BY <1>3, <1>4, <1>5
<1>7. fx_orders' \in Seq(FXRow) /\ Len(fx_orders') = Len(fx_orders)
  BY <1>1, <1>3, <1>6
<1>8. FXMoved
  <2>1. FXSells \subseteq FX!Orders
    BY DEF FXSells
  <2>2. \A j \in FX!Orders : /\ fx_orders'[j].purpose = fx_orders[j].purpose
                             /\ fx_orders'[j].quantity = fx_orders[j].quantity
                             /\ fx_orders'[j].state = IF down(j) THEN "unknown" ELSE fx_orders[j].state
    <3>1. SUFFICES ASSUME NEW j \in FX!Orders
                   PROVE  /\ fx_orders'[j].purpose = fx_orders[j].purpose
                          /\ fx_orders'[j].quantity = fx_orders[j].quantity
                          /\ fx_orders'[j].state = IF down(j) THEN "unknown" ELSE fx_orders[j].state
      OBVIOUS
    <3>2. CASE down(j)
      <4>1. fx_orders'[j] = row(j)
        BY <1>5, <3>2
      <4>2. QED
        BY <4>1, <3>2
    <3>3. CASE ~down(j)
      <4>1. fx_orders'[j] = fx_orders[j]
        BY <1>5, <3>3
      <4>2. QED
        BY <4>1, <3>3
    <3>4. QED
      BY <3>2, <3>3
  <2>3. \A j \in FXSells : fx_orders'[j].state \in FX!TERMINAL <=> fx_orders[j].state \in FX!TERMINAL
    BY <2>1, <2>2 DEF FX!TERMINAL
  <2>4. QED
    BY <1>1, <1>7, <2>1, <2>2, <2>3 DEF FXMoved, FXTables
<1>9. FXTables' /\ FXRecords' /\ FXOneSell' /\ FXCover'
  BY <1>8, FXMovedKeeps
<1>10. FXCalls'
  BY <1>2 DEF FXCalls
<1>11. QED
  BY <1>2, <1>9, <1>10

-----------------------------------------------------------------------------
(* What the broker fills.  A sell that fills is the one that was open, and *)
(* what it sells was left.                                                 *)

FXFilledOne(i, q, s) ==
  /\ fx_broker' \in Seq(FXBroker) /\ Len(fx_broker') = Len(fx_broker)
  /\ \A j \in FX!Orders : /\ fx_broker'[j].filled = IF j = i THEN q ELSE fx_broker[j].filled
                          /\ fx_broker'[j].status = IF j = i THEN s ELSE fx_broker[j].status

FXFillWritten(i, q, s) ==
  /\ i \in FX!Orders /\ q \in Nat /\ s \in {"absent", "live", "filled", "cancelled"}
  /\ fx_broker' = [fx_broker EXCEPT ![i].filled = q, ![i].status = s]

LEMMA FXFillSet ==
  ASSUME FXTables, NEW i, NEW q, NEW s, FXFillWritten(i, q, s)
  PROVE  FXFilledOne(i, q, s)
<1> USE DEF FXFillWritten
<1> DEFINE b == [[fx_broker[i] EXCEPT !.filled = q] EXCEPT !.status = s]
<1>1. fx_broker \in Seq(FXBroker) /\ FX!Orders = 1..Len(fx_broker)
  BY FXSets DEF FXTables
<1>2. fx_broker[i] \in FXBroker
  BY <1>1
<1>3. b \in FXBroker /\ b.status = s /\ b.filled = q
  BY <1>2 DEF FXBroker
<1>4. fx_broker' = [fx_broker EXCEPT ![i] = b]
  BY <1>1
<1> HIDE DEF b
<1>5. /\ fx_broker' \in Seq(FXBroker) /\ Len(fx_broker') = Len(fx_broker)
      /\ \A j \in FX!Orders : fx_broker'[j] = IF j = i THEN b ELSE fx_broker[j]
  BY <1>1, <1>3, <1>4
<1>6. \A j \in FX!Orders : /\ fx_broker'[j].filled = IF j = i THEN q ELSE fx_broker[j].filled
                          /\ fx_broker'[j].status = IF j = i THEN s ELSE fx_broker[j].status
  <2>1. fx_broker'[i] = b /\ \A j \in FX!Orders : j # i => fx_broker'[j] = fx_broker[j]
    BY <1>1, <1>5
  <2>2. fx_broker'[i].filled = q /\ fx_broker'[i].status = s
    BY <1>3, <2>1
  <2>3. \A j \in FX!Orders : j # i => fx_broker'[j].filled = fx_broker[j].filled /\ fx_broker'[j].status = fx_broker[j].status
    BY <2>1
  <2>4. QED
    BY <2>2, <2>3
<1>7. QED
  BY <1>5, <1>6 DEF FXFilledOne

LEMMA FXFill == ASSUME FXInv, FX!Fill PROVE FXInv'
<1> USE DEF FXInv, FXTyped
<1>1. PICK i \in FX!Orders :
        /\ \/ fx_broker[i].status = "live"
           \/ fx_broker[i].status = "cancelled" /\ i \in FX!Entries
        /\ fx_broker[i].filled < fx_orders[i].quantity
        /\ fx_bounds' = IF fx_broker[i].status = "live" THEN fx_bounds ELSE [fx_bounds EXCEPT !.late = @ - 1]
        /\ LET q == fx_broker[i].filled + 1
           IN fx_broker' = [fx_broker EXCEPT ![i].filled = q,
                              ![i].status = IF q = fx_orders[i].quantity THEN "filled" ELSE @]
  BY DEF FX!Fill
<1> DEFINE q == fx_broker[i].filled + 1
           s == IF q = fx_orders[i].quantity THEN "filled" ELSE fx_broker[i].status
<1>2. UNCHANGED <<fx_orders, fx_known, fx_seen, fx_run, fx_pending, fx_task>>
  BY DEF FX!Fill
<1>3. FXOne(i) /\ FXRecorded(i) /\ fx_orders[i].quantity \in Nat /\ fx_broker[i].filled \in Nat
  BY FXEach DEF FXRecords, FXOne, FXRow, FXBroker
<1>4. q \in Nat /\ s \in {"absent", "live", "filled", "cancelled"} /\ q >= fx_broker[i].filled
  BY <1>1, <1>3 DEF FXOne, FXBroker
<1>5. fx_broker' = [fx_broker EXCEPT ![i].filled = q, ![i].status = s]
  BY <1>1
<1>6. /\ q = fx_broker[i].filled + 1 /\ q <= fx_orders[i].quantity
      /\ s = "filled" \/ s = fx_broker[i].status
  BY <1>1, <1>3
<1> HIDE DEF q, s
<1>7. FXFilledOne(i, q, s)
  <2>1. FXTables /\ FXFillWritten(i, q, s)
    BY <1>4, <1>5 DEF FXFillWritten
  <2>2. QED
    BY <2>1, FXFillSet
<1>8. FX!Orders' = FX!Orders /\ FX!Entries' = FX!Entries /\ FXSells' = FXSells /\ FX!ActiveSells' = FX!ActiveSells
  BY <1>2 DEF FX!Orders, FX!Entries, FXSells, FX!ActiveSells, FX!Ended
<1>9. FXTables'
  BY <1>2, <1>7 DEF FXTables, FXFilledOne
<1>10. fx_bounds' \in FXBounds
  BY <1>1 DEF FXBounds
<1>11. FXTyped'
  BY <1>2, <1>9, <1>10
<1>12. FXOneSell'
  BY <1>8 DEF FXOneSell
<1>13. FXCalls'
  BY <1>1, <1>2, <1>7, <1>8 DEF FXCalls, FXFilledOne
<1>14. i \in FXSells => i \in FX!ActiveSells /\ fx_broker[i].status = "live"
  BY <1>1, <1>3 DEF FXSells, FX!ActiveSells, FXRecorded
<1>15. FXRecords'
  <2>1. SUFFICES ASSUME NEW j \in FX!Orders PROVE FXRecorded(j)'
    BY <1>8 DEF FXRecords
  <2>2. FXRecorded(j) /\ fx_known[j] \in Nat
    BY FXEach DEF FXRecords, FXOne
  <2>3. CASE j # i
    <3>1. fx_broker'[j].filled = fx_broker[j].filled /\ fx_broker'[j].status = fx_broker[j].status
      BY <1>7, <2>3 DEF FXFilledOne
    <3>2. QED
      BY <1>2, <1>8, <2>2, <3>1 DEF FXRecorded, FX!Ended
  <2>4. CASE j = i
    <3>1. fx_broker'[j].filled = q /\ fx_broker'[j].status = s
      BY <1>7, <2>4 DEF FXFilledOne
    <3>2. fx_known[j] <= q /\ s # "absent"
      BY <1>1, <1>3, <1>4, <1>6, <2>2, <2>4 DEF FXRecorded
    <3>3. j \in FXSells => q <= fx_orders[j].quantity /\ ~FX!Ended(j)
      BY <1>6, <1>14, <2>4 DEF FXSells, FX!ActiveSells
    <3>4. QED
      BY <1>2, <1>8, <3>1, <3>2, <3>3 DEF FXRecorded, FX!Ended
  <2>5. QED
    BY <2>3, <2>4
\* What is left, as the step changes it.
<1> DEFINE f == FX!Filled
           g == FX!Filled'
<1>16. /\ \A j \in FX!Orders : f[j] = fx_broker[j].filled /\ f[j] \in Nat
       /\ \A j \in FX!Orders : g[j] = IF j = i THEN q ELSE f[j]
  <2>1. \A j \in FX!Orders : f[j] = fx_broker[j].filled /\ f[j] \in Nat
    BY FXEach DEF FXOne, FXBroker, FX!Filled
  <2>2. \A j \in FX!Orders : g[j] = fx_broker'[j].filled
    BY <1>8 DEF FX!Filled
  <2>3. QED
    BY <2>1, <2>2, <1>7 DEF FXFilledOne
<1>17. FXLeft = Total(f, FX!Entries) - Total(f, FXSells) /\ FXLeft' = Total(g, FX!Entries) - Total(g, FXSells)
  BY <1>8, FXLeftIs
<1> HIDE DEF f, g
<1>18. /\ IsFiniteSet(FX!Entries) /\ IsFiniteSet(FXSells) /\ FX!Entries \subseteq FX!Orders /\ FXSells \subseteq FX!Orders
  BY FXSets
<1>19. Total(f, FX!Entries) \in Nat /\ Total(f, FXSells) \in Nat
  BY <1>16, <1>18, SumIsNat
<1>20. CASE i \in FX!Entries
  <2>1. i \notin FXSells
    BY <1>20 DEF FXSells
  <2>2. Grown(g, f, FX!Entries, i, 1)
    BY <1>6, <1>16, <1>18, <1>20 DEF Grown
  <2>3. Total(g, FX!Entries) = Total(f, FX!Entries) + 1
    BY <1>18, <2>2, SumGrows
  <2>4. \A x \in FXSells : f[x] = g[x]
    BY <1>16, <1>18, <2>1
  <2>5. Total(f, FXSells) = Total(g, FXSells)
    BY <1>18, <2>4, SumNeedsOnly
  <2>6. FXLeft \in Int /\ FXLeft' = FXLeft + 1
    BY <1>17, <1>19, <2>3, <2>5
  <2>7. FXOpen' \subseteq FXOpen /\ FXOpen \subseteq FX!Orders
    <3>1. \A j \in FX!ActiveSells : j \in FXSells /\ j \in FX!Orders
      BY <1>18 DEF FX!ActiveSells, FXSells
    <3>2. \A j \in FX!ActiveSells : fx_broker'[j].status = fx_broker[j].status
      BY <2>1, <3>1, <1>7 DEF FXFilledOne
    <3>3. QED
      BY <1>8, <3>1, <3>2 DEF FXOpen
  <2>8. \A j \in FX!Orders : fx_orders[j].quantity \in Nat /\ fx_broker[j].filled \in Nat
    BY FXEach DEF FXOne, FXRow, FXBroker
  <2>11. \A j \in FXOpen : fx_broker'[j].filled = fx_broker[j].filled
    BY <2>1, <1>7 DEF FXOpen, FX!ActiveSells, FXSells, FXFilledOne
  <2>9. FXCover'
    BY <1>2, <2>6, <2>7, <2>8, <2>11 DEF FXCover
  <2>10. QED
    BY <1>11, <1>12, <1>13, <1>15, <2>9
<1>21. CASE i \notin FX!Entries
  <2>1. i \in FXSells
    BY <1>21 DEF FXSells
  <2>2. i \in FXOpen
    BY <1>14, <2>1 DEF FXOpen
  <2>3. \A x \in FX!Entries : f[x] = g[x]
    BY <1>16, <1>18, <1>21
  <2>4. Total(f, FX!Entries) = Total(g, FX!Entries)
    BY <1>18, <2>3, SumNeedsOnly
  <2>5. Grown(g, f, FXSells, i, 1)
    BY <1>6, <1>16, <1>18, <2>1 DEF Grown
  <2>6. Total(g, FXSells) = Total(f, FXSells) + 1
    BY <1>18, <2>5, SumGrows
  <2>7. FXLeft' = FXLeft - 1 /\ FXLeft \in Int
    BY <1>17, <1>19, <2>4, <2>6
  \* What the sell still offered was left, and it offered the unit it fills.
  <2>8. FXLeft' >= 0 /\ FXLeft' >= fx_orders[i].quantity - q
    BY <1>1, <1>3, <1>6, <2>2, <2>7 DEF FXCover
  <2>9. \A j \in FXOpen' : j = i
    BY <1>8, <1>14, <2>1 DEF FXOneSell, FXOpen
  <2>12. fx_broker'[i].filled = q
    BY <1>7 DEF FXFilledOne
  <2>10. FXCover'
    BY <1>2, <2>8, <2>9, <2>12 DEF FXCover
  <2>11. QED
    BY <1>11, <1>12, <1>13, <1>15, <2>10
<1>22. QED
  BY <1>20, <1>21

-----------------------------------------------------------------------------
(* An order is added: nothing is known of it, and nothing has reached the  *)
(* broker.                                                                 *)

FXAdded(p, q) ==
  LET n == Len(fx_orders) + 1
  IN /\ FXTables' /\ FX!Orders' = FX!Orders \cup {n} /\ n \notin FX!Orders
     /\ \A j \in FX!Orders : /\ fx_orders'[j] = fx_orders[j] /\ fx_known'[j] = fx_known[j]
                             /\ fx_seen'[j] = fx_seen[j] /\ fx_broker'[j] = fx_broker[j]
     /\ fx_orders'[n].purpose = p /\ fx_orders'[n].quantity = q /\ fx_orders'[n].state \notin FX!TERMINAL
     /\ fx_known'[n] = 0 /\ fx_broker'[n].status = "absent" /\ fx_broker'[n].filled = 0

FXReserve(p, q, a, s) == /\ p \in {"entry", "protection", "exit"} /\ q \in Nat /\ a \in Nat
                         /\ s \in {"reserved", "dispatching"} /\ FX!Reserve(p, q, a, s)

LEMMA FXAdds == ASSUME FXTables, NEW p, NEW q, NEW a, NEW s, FXReserve(p, q, a, s)
                PROVE  FXAdded(p, q)
<1> DEFINE n == Len(fx_orders) + 1
           row == [purpose |-> p, auth |-> a, quantity |-> q, state |-> s]
           news == [ended |-> FALSE, filled |-> 0]
           there == [status |-> "absent", filled |-> 0]
<1>1. /\ fx_orders' = Append(fx_orders, row) /\ fx_known' = Append(fx_known, 0)
      /\ fx_seen' = Append(fx_seen, news) /\ fx_broker' = Append(fx_broker, there)
  BY DEF FXReserve, FX!Reserve
<1>2. row \in FXRow /\ news \in FXSeen /\ there \in FXBroker
  BY DEF FXReserve, FXRow, FXSeen, FXBroker, FXStates
<1>3. row.purpose = p /\ row.quantity = q /\ row.state \notin FX!TERMINAL /\ there.status = "absent" /\ there.filled = 0
  BY DEF FXReserve, FX!TERMINAL
<1> HIDE DEF row, news, there
<1>4. FXTables'
  BY <1>1, <1>2 DEF FXTables
<1>5. FX!Orders = 1..Len(fx_orders) /\ Len(fx_orders) \in Nat /\ FX!Orders' = 1..Len(fx_orders')
  BY <1>4, FXSets DEF FX!Orders, FXTables
<1>6. Len(fx_orders') = n
  BY <1>1, <1>2 DEF FXTables
<1>7. FX!Orders' = FX!Orders \cup {n} /\ n \notin FX!Orders
  BY <1>5, <1>6
<1>8. /\ \A j \in FX!Orders : fx_orders'[j] = fx_orders[j] /\ fx_known'[j] = fx_known[j]
      /\ fx_orders'[n] = row /\ fx_known'[n] = 0
  BY <1>1, <1>2, <1>5 DEF FXTables
<1>9. /\ \A j \in FX!Orders : fx_seen'[j] = fx_seen[j] /\ fx_broker'[j] = fx_broker[j]
      /\ fx_broker'[n] = there
  BY <1>1, <1>2, <1>5 DEF FXTables
<1>10. QED
  BY <1>3, <1>4, <1>7, <1>8, <1>9 DEF FXAdded

LEMMA FXAddedKeeps ==
  ASSUME FXTables, FXRecords, NEW p, NEW q, FXAdded(p, q)
  PROVE  /\ FXRecords' /\ FXLeft' = FXLeft
         /\ FX!Entries' = FX!Entries \cup (IF p = "entry" THEN {Len(fx_orders) + 1} ELSE {})
         /\ FX!ActiveSells' = FX!ActiveSells \cup (IF p = "entry" THEN {} ELSE {Len(fx_orders) + 1})
<1> DEFINE n == Len(fx_orders) + 1
<1> USE DEF FXAdded
<1>1. FX!Entries' = FX!Entries \cup (IF p = "entry" THEN {n} ELSE {})
  BY DEF FX!Entries
<1>2. FXSells' = FXSells \cup (IF p = "entry" THEN {} ELSE {n})
  BY <1>1 DEF FXSells, FX!Entries
<1>3. FX!ActiveSells' = FX!ActiveSells \cup (IF p = "entry" THEN {} ELSE {n})
  <2>1. FX!ActiveSells = {i \in FXSells : fx_orders[i].state \notin FX!TERMINAL}
    BY DEF FX!ActiveSells, FXSells, FX!Ended
  <2>2. FX!ActiveSells' = {i \in FXSells' : fx_orders'[i].state \notin FX!TERMINAL}
    BY DEF FX!ActiveSells, FXSells, FX!Ended
  <2>3. \A i \in FXSells : fx_orders'[i] = fx_orders[i]
    BY DEF FXSells
  <2>4. QED
    BY <1>2, <2>1, <2>2, <2>3
<1>4. FXRecords'
  <2>1. SUFFICES ASSUME NEW i \in FX!Orders \cup {n} PROVE FXRecorded(i)'
    BY DEF FXRecords
  <2>2. CASE i \in FX!Orders
    <3>1. FXRecorded(i) /\ (i \in FXSells' <=> i \in FXSells)
      BY <1>2, <2>2 DEF FXRecords
    <3>2. QED
      BY <2>2, <3>1 DEF FXRecorded, FX!Ended
  <2>3. CASE i = n
    <3>1. fx_orders' \in Seq(FXRow) /\ i \in DOMAIN fx_orders'
      BY <2>3 DEF FXTables, FX!Orders
    <3>2. fx_orders'[i] \in FXRow
      BY <3>1
    <3>3. fx_orders'[i].quantity \in Nat
      BY <3>2 DEF FXRow
    <3>4. QED
      BY <2>3, <3>3 DEF FXRecorded, FX!Ended
  <2>4. QED
    BY <2>1, <2>2, <2>3
<1> DEFINE f == FX!Filled
           g == FX!Filled'
<1>5. /\ \A j \in FX!Orders : f[j] \in Nat /\ g[j] = f[j]
      /\ g[n] = 0
  <2>1. \A j \in FX!Orders : f[j] = fx_broker[j].filled /\ f[j] \in Nat
    BY FXEach DEF FXOne, FXBroker, FX!Filled
  <2>2. \A j \in FX!Orders \cup {n} : g[j] = fx_broker'[j].filled
    BY DEF FX!Filled
  <2>3. QED
    BY <2>1, <2>2
<1>6. FXLeft = Total(f, FX!Entries) - Total(f, FXSells) /\ FXLeft' = Total(g, FX!Entries') - Total(g, FXSells')
  BY FXLeftIs
<1> HIDE DEF f, g
<1>7. IsFiniteSet(FX!Entries) /\ IsFiniteSet(FXSells) /\ FX!Entries \subseteq FX!Orders /\ FXSells \subseteq FX!Orders
  BY FXSets
<1>8. \A S \in SUBSET FX!Orders : IsFiniteSet(S) =>
        Total(g, S) = Total(f, S) /\ Total(g, S \cup {n}) = Total(f, S) /\ Total(f, S) \in Nat
  <2>1. SUFFICES ASSUME NEW S \in SUBSET FX!Orders, IsFiniteSet(S)
                 PROVE  Total(g, S) = Total(f, S) /\ Total(g, S \cup {n}) = Total(f, S) /\ Total(f, S) \in Nat
    OBVIOUS
  <2>2. \A x \in S : g[x] = f[x] /\ f[x] \in Nat
    BY <1>5
  <2>3. Total(g, S) = Total(f, S)
    BY <2>1, <2>2, SumNeedsOnly
  <2>4. \A x \in S \cup {n} : g[x] \in Int
    BY <1>5, <2>2
  <2>5. n \notin S
    OBVIOUS
  <2>6. Total(g, S \cup {n}) = g[n] + Total(g, S)
    BY <2>1, <2>4, <2>5, SumAddsOne
  <2>7. Total(f, S) \in Nat
    BY <2>1, <2>2, SumIsNat
  <2>8. QED
    BY <1>5, <2>3, <2>6, <2>7
<1>9. FXLeft' = FXLeft
  <2>1. CASE p = "entry"
    <3>1. FX!Entries' = FX!Entries \cup {n} /\ FXSells' = FXSells
      BY <1>1, <1>2, <2>1
    <3>2. Total(g, FX!Entries') = Total(f, FX!Entries) /\ Total(g, FXSells') = Total(f, FXSells)
      BY <1>7, <1>8, <3>1
    <3>3. QED
      BY <1>6, <3>2
  <2>2. CASE p # "entry"
    <3>1. FX!Entries' = FX!Entries /\ FXSells' = FXSells \cup {n}
      BY <1>1, <1>2, <2>2
    <3>2. Total(g, FX!Entries') = Total(f, FX!Entries) /\ Total(g, FXSells') = Total(f, FXSells)
      BY <1>7, <1>8, <3>1
    <3>3. QED
      BY <1>6, <3>2
  <2>3. QED
    BY <2>1, <2>2
<1>10. QED
  BY <1>1, <1>3, <1>4, <1>9

LEMMA FXEnter == ASSUME FXInv, FX!Enter PROVE FXInv'
<1> USE DEF FXInv, FXTyped
<1> DEFINE n == Len(fx_orders) + 1
<1>1. /\ fx_task.at = "enter" /\ FX!Reserve("entry", fx_bounds.units, fx_task.order, "reserved")
      /\ fx_run' = [fx_run EXCEPT !.entries = @ + 1] /\ fx_task' = [fx_task EXCEPT !.at = "guard", !.order = n]
      /\ UNCHANGED <<fx_pending, fx_bounds>>
  BY DEF FX!Enter
<1>2. FXReserve("entry", fx_bounds.units, fx_task.order, "reserved")
  BY <1>1 DEF FXReserve, FXBounds
<1>3. FXAdded("entry", fx_bounds.units)
  BY <1>2, FXAdds
<1>4. /\ FXRecords' /\ FXLeft' = FXLeft /\ FX!Entries' = FX!Entries \cup {n} /\ FX!ActiveSells' = FX!ActiveSells
  BY <1>3, FXAddedKeeps
<1>5. n \in Nat /\ fx_broker'[n].status = "absent" /\ FXTables' /\ FX!Orders' = FX!Orders \cup {n}
      /\ \A j \in FX!Orders : fx_orders'[j] = fx_orders[j] /\ fx_broker'[j] = fx_broker[j]
  BY <1>3, FXSets DEF FXAdded
<1>6. /\ fx_task' \in [at : FXAt, order : Nat, then : {"idle", "finish"}]
      /\ fx_task'.at = "guard" /\ fx_task'.order = n
  BY <1>1, <1>5 DEF FXAt
<1>7. fx_run' \in [armed : BOOLEAN, auth : Nat, entries : Nat]
  BY <1>1
<1>8. FXTyped'
  BY <1>1, <1>5, <1>6, <1>7
<1>9. FXCalls'
  BY <1>4, <1>5, <1>6 DEF FXCalls
<1>10. FXOneSell'
  BY <1>4 DEF FXOneSell
<1>11. FX!ActiveSells \subseteq FX!Orders
  BY DEF FX!ActiveSells
<1>12. FXOpen' = FXOpen
  BY <1>4, <1>5, <1>11 DEF FXOpen
<1>13. FXCover'
  BY <1>4, <1>5, <1>11, <1>12 DEF FXCover, FXOpen
<1>14. QED
  BY <1>4, <1>8, <1>9, <1>10, <1>13

\* What the records own is left at the broker, once the ended sells are known.
LEMMA FXOwnedIsLeft ==
  ASSUME FXTables, FXRecords, FX!ActiveSells = {}, FXSells = {} \/ FX!FillsAgree
  PROVE  FX!owned \in Int /\ FX!owned <= FXLeft
<1> DEFINE f == FX!Filled
           k == fx_known
<1>1. FXLeft = Total(f, FX!Entries) - Total(f, FXSells)
  BY FXLeftIs
<1>2. FX!owned = Total(k, FX!Entries) - Total(k, FXSells)
  BY FXNetIs DEF FX!owned
<1>3. /\ \A j \in FX!Orders : f[j] \in Nat /\ k[j] \in Nat /\ k[j] <= f[j] /\ f[j] = fx_broker[j].filled
      /\ IsFiniteSet(FX!Entries) /\ IsFiniteSet(FXSells) /\ FX!Entries \subseteq FX!Orders /\ FXSells \subseteq FX!Orders
  BY FXEach, FXSets DEF FXOne, FXBroker, FXRecords, FXRecorded
<1>4. \A j \in FXSells : k[j] = f[j]
  <2>1. SUFFICES ASSUME NEW j \in FXSells PROVE k[j] = f[j]
    OBVIOUS
  <2>2. FX!Ended(j) /\ FX!FillsAgree /\ j \in FX!Orders
    BY DEF FX!ActiveSells, FXSells
  <2>3. fx_seen[j].filled = fx_broker[j].filled /\ fx_seen[j].filled = k[j]
    BY <2>2 DEF FXRecords, FXRecorded, FX!FillsAgree
  <2>4. QED
    BY <1>3, <2>2, <2>3
<1> HIDE DEF f, k
<1>5. Total(k, FXSells) = Total(f, FXSells)
  BY <1>3, <1>4, SumNeedsOnly
<1>6. \A j \in FX!Entries : k[j] \in Nat /\ f[j] \in Nat /\ k[j] <= f[j]
  BY <1>3
<1>7. Total(k, FX!Entries) <= Total(f, FX!Entries)
  BY <1>3, <1>6, SumOfLarger
<1>8. \A j \in FXSells : k[j] \in Nat
  BY <1>3
<1>9. Total(k, FX!Entries) \in Nat /\ Total(f, FX!Entries) \in Nat
  BY <1>3, <1>6, SumIsNat
<1>10. Total(k, FXSells) \in Nat
  BY <1>3, <1>8, SumIsNat
<1>11. QED
  BY <1>1, <1>2, <1>5, <1>7, <1>9, <1>10

\* A sell of what is owned, when no other is open.
FXSold(p) == /\ p \in {"protection", "exit"} /\ FX!owned > 0 /\ (FXSells = {} \/ FX!FillsAgree)
             /\ FX!ActiveSells = {} /\ FX!Reserve(p, FX!owned, 0, "dispatching")
             /\ fx_task' = [fx_task EXCEPT !.at = "submit", !.order = Len(fx_orders) + 1]
             /\ UNCHANGED <<fx_run, fx_pending, fx_bounds>>

LEMMA FXSellKeeps == ASSUME FXInv, NEW p, FXSold(p) PROVE FXInv'
<1> USE DEF FXInv, FXTyped
<1> DEFINE n == Len(fx_orders) + 1
<1>1. FX!owned \in Nat /\ FX!owned <= FXLeft
  BY FXOwnedIsLeft DEF FXSold
<1>2. FXReserve(p, FX!owned, 0, "dispatching")
  BY <1>1 DEF FXReserve, FXSold
<1>3. FXAdded(p, FX!owned) /\ p # "entry"
  BY <1>2, FXAdds DEF FXSold
<1>4. /\ FXRecords' /\ FXLeft' = FXLeft /\ FX!ActiveSells' = {n}
  BY <1>3, FXAddedKeeps DEF FXSold
<1>5. n \in Nat /\ fx_broker'[n].status = "absent" /\ FXTables' /\ FX!Orders' = FX!Orders \cup {n}
      /\ fx_orders'[n].quantity = FX!owned /\ fx_broker'[n].filled = 0
  BY <1>3, FXSets DEF FXAdded
<1>6. /\ fx_task' \in [at : FXAt, order : Nat, then : {"idle", "finish"}]
      /\ fx_task'.at = "submit" /\ fx_task'.order = n
  BY <1>5 DEF FXAt, FXSold
<1>7. FXTyped'
  BY <1>5, <1>6 DEF FXSold
<1>8. FXCalls'
  BY <1>5, <1>6 DEF FXCalls
<1>9. FXOneSell'
  BY <1>4 DEF FXOneSell
<1>10. FXOpen' \subseteq {n}
  BY <1>4 DEF FXOpen
<1>11. FXCover'
  BY <1>1, <1>4, <1>5, <1>10 DEF FXCover
<1>12. QED
  BY <1>4, <1>7, <1>8, <1>9, <1>11

LEMMA FXSync == ASSUME FXInv, FX!Sync PROVE FXInv'
<1> USE DEF FXInv, FXTyped
<1>1. fx_task.at = "sync" \/ fx_task = FX!Idle
  BY DEF FX!Sync, FX!Free
<1>2. UNCHANGED <<fx_pending, fx_bounds>>
  BY DEF FX!Sync
<1> DEFINE Ends == UNCHANGED <<fx_orders, fx_known, fx_seen, fx_broker>>
                   /\ (fx_task' = FX!Idle \/ fx_task' = [fx_task EXCEPT !.at = fx_task.then, !.then = "idle"])
<1>3. ASSUME FX!owned > 0, NEW p \in {"protection", "exit"}, FXSells = {} \/ FX!FillsAgree,
             FX!Sell(p), UNCHANGED fx_run
      PROVE  FXSold(p) \/ (Ends /\ UNCHANGED fx_run)
  BY <1>2, <1>3 DEF FX!Sell, FXSold
<1>4. FX!NoSell => Ends
  BY DEF FX!NoSell
<1>5. \/ \E p \in {"protection", "exit"} : FXSold(p)
      \/ Ends /\ \/ UNCHANGED fx_run
                 \/ \E b \in BOOLEAN : fx_run' = [fx_run EXCEPT !.armed = b]
  <2>1. CASE FX!owned > 0 /\ fx_account
    <3>1. UNCHANGED fx_run /\ (FX!ExitStep \/ FX!ProtectStep)
      BY <2>1 DEF FX!Sync
    <3>2. CASE FX!ExitStep
      <4>1. FX!NoSell \/ (FX!FillsAgree /\ FX!Sell("exit"))
        BY <3>2 DEF FX!ExitStep, FX!ReplacementReady
      <4>2. QED
        BY <1>3, <1>4, <2>1, <3>1, <4>1
    <3>3. CASE FX!ProtectStep
      <4>1. FX!NoSell \/ ((FXSells = {} \/ FX!FillsAgree) /\ FX!Sell("protection"))
        BY <3>3 DEF FX!ProtectStep, FX!ReplacementReady, FXSells
      <4>2. QED
        BY <1>3, <1>4, <2>1, <3>1, <4>1
    <3>4. QED
      BY <3>1, <3>2, <3>3
  <2>2. CASE ~(FX!owned > 0 /\ fx_account)
    <3>1. FX!NoSell /\ fx_run' = [fx_run EXCEPT !.armed =
                                    @ /\ ~(FX!owned = 0 /\ FX!Entry # 0 /\ FX!Ended(FX!Entry) /\ fx_reconciled)]
      BY <2>2 DEF FX!Sync
    <3>2. PICK b \in BOOLEAN : b = (fx_run.armed /\ ~(FX!owned = 0 /\ FX!Entry # 0 /\ FX!Ended(FX!Entry) /\ fx_reconciled))
      OBVIOUS
    <3>3. QED
      BY <1>4, <3>1, <3>2
  <2>3. QED
    BY <2>1, <2>2
<1>6. CASE \E p \in {"protection", "exit"} : FXSold(p)
  BY <1>6, FXSellKeeps
<1>7. CASE Ends /\ \/ UNCHANGED fx_run
                   \/ \E b \in BOOLEAN : fx_run' = [fx_run EXCEPT !.armed = b]
  <2>1. /\ fx_task' \in [at : FXAt, order : Nat, then : {"idle", "finish"}]
        /\ fx_task'.at \in {"idle", "finish"}
    <3>1. CASE fx_task' = FX!Idle
      BY <3>1 DEF FX!Idle, FXAt
    <3>2. CASE fx_task' = [fx_task EXCEPT !.at = fx_task.then, !.then = "idle"]
      BY <3>2 DEF FXAt
    <3>3. QED
      BY <1>7, <3>1, <3>2
  <2>2. fx_run' \in [armed : BOOLEAN, auth : Nat, entries : Nat]
    BY <1>7
  <2>3. FXAside
    BY <1>2, <2>1, <2>2 DEF FXAside
  <2>4. QED
    BY <1>7, <2>3, FXAsideKeeps
<1>8. QED
  BY <1>5, <1>6, <1>7

-----------------------------------------------------------------------------

LEMMA FXInit == FX!Init => FXInv
<1> SUFFICES ASSUME FX!Init PROVE FXInv
  OBVIOUS
<1>1. /\ fx_orders = <<>> /\ fx_known = <<>> /\ fx_seen = <<>> /\ fx_broker = <<>> /\ fx_pending = 0
      /\ fx_run = [armed |-> FALSE, auth |-> 0, entries |-> 0] /\ fx_task = FX!Idle /\ fx_bounds \in FXBudgets
  BY DEF FX!Init
<1>2. fx_bounds \in FXBounds
  BY <1>1, TradesAssumption DEF FXBounds
<1>3. FXTables
  BY <1>1 DEF FXTables
<1>4. FXTyped
  BY <1>1, <1>2, <1>3 DEF FXTyped, FX!Idle, FXAt
<1>5. FX!Orders = {}
  BY <1>1 DEF FX!Orders
<1>6. FX!Entries = {} /\ FXSells = {} /\ FX!ActiveSells = {} /\ FXOpen = {}
  BY <1>5 DEF FX!Entries, FXSells, FX!ActiveSells, FXOpen
<1>7. FXRecords /\ FXOneSell
  BY <1>5, <1>6 DEF FXRecords, FXOneSell
<1>8. FXCalls
  BY <1>1 DEF FXCalls, FX!Idle
<1>9. FXLeft = 0
  <2>1. IsFiniteSet({}) /\ \A x \in {} : FX!Filled[x] \in {0}
    BY FS_EmptySet
  <2>2. Total(FX!Filled, {}) = 0
    BY <2>1, SumIsZero
  <2>3. QED
    BY <1>6, <2>2, FXLeftIs
<1>10. FXCover
  BY <1>6, <1>9 DEF FXCover
<1>11. QED
  BY <1>4, <1>7, <1>8, <1>10 DEF FXInv

(* Every step of the spot FX engine, of the broker and of the process      *)
(* keeps the records in agreement (fx_engine.py).                          *)
THEOREM FXInductive == FXInv /\ [FX!Next]_fx => FXInv'
<1> SUFFICES ASSUME FXInv, [FX!Next]_fx PROVE FXInv'
  OBVIOUS
<1>1. CASE UNCHANGED fx
  <2>1. UNCHANGED <<fx_orders, fx_known, fx_seen, fx_broker, fx_run, fx_pending, fx_task, fx_bounds>>
    BY <1>1 DEF fx
  <2>2. FXTables' /\ FXRecords' /\ FXOneSell' /\ FXCover' /\ FX!Orders' = FX!Orders /\ FX!Entries' = FX!Entries
    BY <2>1, FXRowsUnchanged DEF FXInv, FXTyped
  <2>3. QED
    BY <2>1, <2>2 DEF FXInv, FXTyped, FXCalls
<1>2. CASE FX!Next
  BY <1>2, FXQuietKeeps, FXExecution, FXCollect, FXStatus, FXGuard, FXSubmit, FXCancelled, FXRestart, FXFill, FXEnter, FXSync, Zenon
     DEF FX!Next, FXQuiet
<1>3. QED
  BY <1>1, <1>2

LEMMA FXCoverIsAll == FXInv => FX!SellsAreCovered
<1> SUFFICES ASSUME FXInv PROVE FX!SellsAreCovered
  OBVIOUS
<1> USE DEF FXInv, FXTyped
<1> DEFINE rest == [i \in FX!Orders |-> fx_orders[i].quantity - fx_broker[i].filled]
<1>1. {i \in FX!Orders \ FX!Entries : fx_broker[i].status \in {"absent", "live"} /\ ~FX!Ended(i)} = FXOpen
  BY DEF FXOpen, FX!ActiveSells
<1>2. FXOpen \subseteq FX!Orders /\ IsFiniteSet(FXOpen) /\ FXOpen \subseteq FXSells
  <2>1. FXOpen \subseteq FX!Orders /\ FXOpen \subseteq FXSells
    BY DEF FXOpen, FX!ActiveSells, FXSells
  <2>2. QED
    BY <2>1, FXSets, FS_Subset
<1>3. \A i \in FXOpen : rest[i] = fx_orders[i].quantity - fx_broker[i].filled /\ rest[i] \in Nat
  <2>1. SUFFICES ASSUME NEW i \in FXOpen
                 PROVE  rest[i] = fx_orders[i].quantity - fx_broker[i].filled /\ rest[i] \in Nat
    OBVIOUS
  <2>2. FXRecorded(i) /\ FXOne(i) /\ i \in FXSells /\ i \in FX!Orders
    BY <1>2, FXEach DEF FXRecords
  <2>3. fx_broker[i].filled <= fx_orders[i].quantity /\ fx_orders[i].quantity \in Nat /\ fx_broker[i].filled \in Nat
    BY <2>2 DEF FXRecorded, FXOne, FXRow, FXBroker
  <2>4. QED
    BY <2>2, <2>3
<1> HIDE DEF rest
<1>4. Total(rest, FXOpen) <= FXLeft
  <2>1. CASE FXOpen = {}
    <3>1. \A x \in FXOpen : rest[x] \in {0}
      BY <2>1
    <3>2. QED
      BY <1>2, <3>1, SumIsZero DEF FXCover
  <2>2. CASE FXOpen # {}
    <3>1. PICK i \in FXOpen : TRUE
      BY <2>2
    <3>2. FXOpen \ {i} = {}
      BY <3>1 DEF FXOpen, FXOneSell
    <3>3. \A x \in FXOpen : rest[x] \in Int
      BY <1>3
    <3>4. Total(rest, FXOpen) = rest[i] + Total(rest, FXOpen \ {i})
      BY <1>2, <3>1, <3>3, SumTakesOne
    <3>5. Total(rest, {}) = 0
      <4>1. IsFiniteSet({}) /\ \A x \in {} : rest[x] \in {0}
        BY FS_EmptySet
      <4>2. QED
        BY <4>1, SumIsZero
    <3>6. Total(rest, FXOpen) = rest[i] + 0
      BY <3>2, <3>4, <3>5
    <3>7. FXLeft >= fx_orders[i].quantity - fx_broker[i].filled
      BY <3>1 DEF FXCover
    <3>8. rest[i] = fx_orders[i].quantity - fx_broker[i].filled /\ rest[i] \in Nat
      BY <1>3, <3>1
    <3>9. QED
      BY <3>6, <3>7, <3>8
  <2>3. QED
    BY <2>1, <2>2
<1>5. FX!SumOver(FXOpen, rest) = Total(rest, FXOpen)
  BY DEF FX!SumOver, Total, FX!MapThenSumSet, FX!MapThenFoldSet, MapThenSumSet, MapThenFoldSet
<1>6. QED
  BY <1>1, <1>4, <1>5 DEF FX!SellsAreCovered, FXLeft, rest, FXCover

\* Only an entry is added under an authorization, and the call that adds it was made under the present one.
LEMMA FXSteps == FXInv /\ [FX!Next]_fx => FX!SignalOfAuthorization
<1> SUFFICES ASSUME FXInv, [FX!Next]_fx PROVE FX!SignalOfAuthorization
  OBVIOUS
<1>1. FXTables /\ FXTables' /\ FXCalls
  <2>1. FXInv'
    BY FXInductive
  <2>2. QED
    BY <2>1 DEF FXInv, FXTyped
<1>2. Len(fx_orders) \in Nat /\ fx_orders \in Seq(FXRow)
  BY <1>1 DEF FXTables
<1>3. ASSUME fx_orders' = fx_orders \/ fx_known' = fx_known PROVE FX!SignalOfAuthorization
  <2>1. Len(fx_orders') = Len(fx_orders)
    BY <1>1, <1>3 DEF FXTables
  <2>2. QED
    BY <1>2, <2>1 DEF FX!SignalOfAuthorization
<1>4. ASSUME NEW p, NEW q, NEW a, NEW s, FX!Reserve(p, q, a, s), p = "entry" => a = fx_run.auth PROVE FX!SignalOfAuthorization
  <2>1. PICK row : row = [purpose |-> p, auth |-> a, quantity |-> q, state |-> s]
    OBVIOUS
  <2>2. fx_orders' = Append(fx_orders, row) /\ row.purpose = p /\ row.auth = a
    BY <1>4, <2>1 DEF FX!Reserve
  <2>3. fx_orders'[Len(fx_orders')] = row
    BY <1>2, <2>2
  <2>4. QED
    BY <1>4, <2>2, <2>3 DEF FX!SignalOfAuthorization
<1>5. CASE FX!Enter
  <2>1. FX!Reserve("entry", fx_bounds.units, fx_task.order, "reserved") /\ fx_task.order = fx_run.auth
    BY <1>1, <1>5 DEF FX!Enter, FXCalls
  <2>2. QED
    BY <1>4, <2>1
<1>6. CASE FX!Sync
  <2>1. \/ fx_orders' = fx_orders
        \/ FX!Reserve("exit", FX!owned, 0, "dispatching")
        \/ FX!Reserve("protection", FX!owned, 0, "dispatching")
    BY <1>6 DEF FX!Sync, FX!ExitStep, FX!ProtectStep, FX!Sell, FX!NoSell
  <2>2. QED
    BY <1>3, <1>4, <2>1
<1>7. CASE \/ FX!Arm \/ FX!Disarm \/ FX!Signal \/ FX!RetrySignal \/ FX!Guard \/ FX!Submit \/ FX!Fill \/ FX!Cancelled
           \/ FX!Status \/ FX!Execution \/ FX!RequestExit \/ FX!Intend \/ FX!BeginReconcile \/ FX!Collect \/ FX!Finish
           \/ FX!Quotes \/ FX!Restart \/ UNCHANGED fx
  <2>1. fx_orders' = fx_orders \/ fx_known' = fx_known
    BY <1>7 DEF FX!Arm, FX!Disarm, FX!Signal, FX!RetrySignal, FX!Guard, FX!Submit, FX!Fill, FX!Cancelled, FX!Status,
         FX!Execution, FX!RequestExit, FX!Intend, FX!BeginReconcile, FX!Collect, FX!Finish, FX!Quotes, FX!Restart,
         FX!world, fx
  <2>2. QED
    BY <1>3, <2>1
<1>8. QED
  BY <1>5, <1>6, <1>7, Zenon DEF FX!Next

-----------------------------------------------------------------------------
(* Crypto.  Only one order is open at a time; an exit is sent when the     *)
(* documents and the executions agree, which for orders that have ended is *)
(* what the broker filled.                                                 *)

CrStates == {"reserved", "dispatching", "unknown", "working"} \cup Crypto!TERMINAL_STATES
CrRow    == [purpose : {"entry", "exit"}, auth : Nat, quantity : Nat, state : CrStates]
CrStatus == {"absent", "live", "done", "rejected"}
CrBroker == [status : CrStatus, filled : Nat]

CrTables ==
  /\ crypto_orders \in Seq(CrRow) /\ crypto_known \in Seq(Nat)
  /\ crypto_seen \in Seq(Nat) /\ crypto_broker \in Seq(CrBroker)
  /\ Len(crypto_known) = Len(crypto_orders) /\ Len(crypto_seen) = Len(crypto_orders)
  /\ Len(crypto_broker) = Len(crypto_orders)
CrTask == [at : {"idle", "enter", "count", "guard", "submit"}, order : Nat]
CrRun == [armed : BOOLEAN, auth : Nat, entries : Nat]
CrTrial == [entry : Nat, observed : BOOLEAN, qualified : BOOLEAN]
CrTyped == CrTables /\ crypto_run \in CrRun /\ crypto_task \in CrTask /\ crypto_trial \in CrTrial

CrOver(i) == crypto_orders[i].state \in Crypto!TERMINAL_STATES

\* An order is executed at once, and what is known of it is that or nothing; of one that has ended the
\* document says it.
CrRecorded(i) ==
  /\ crypto_known[i] \in {0, crypto_broker[i].filled} /\ crypto_seen[i] \in {0, crypto_broker[i].filled}
  /\ crypto_broker[i].filled <= crypto_orders[i].quantity
  /\ crypto_broker[i].status # "done" => crypto_broker[i].filled = 0
  /\ CrOver(i) => crypto_broker[i].status # "live" /\ crypto_seen[i] = crypto_broker[i].filled
CrRecords == \A i \in Crypto!Orders : CrRecorded(i)

CrOneOpen == \A i, j \in Crypto!Orders : ~CrOver(i) /\ ~CrOver(j) => i = j

CrCalls == crypto_task.at \in {"count", "guard", "submit"} =>
             /\ crypto_task.order \in Crypto!Orders /\ crypto_broker[crypto_task.order].status = "absent"
             /\ ~CrOver(crypto_task.order)

CrEntries == {i \in Crypto!Orders : crypto_orders[i].purpose = "entry"}
CrExits   == {i \in Crypto!Orders : crypto_orders[i].purpose = "exit"}
CrLeft    == Crypto!Bought(Crypto!Filled) - Crypto!Sold(Crypto!Filled)
CrOpen    == {i \in CrExits : crypto_broker[i].status \in {"absent", "live"} /\ ~CrOver(i)}
CrCover   == CrLeft >= 0 /\ \A i \in CrOpen : CrLeft >= crypto_orders[i].quantity

\* Protection was observed of what had been bought.
CrTrade == crypto_trial.observed => \E i \in CrEntries : crypto_broker[i].filled > 0

CrInv == CrTyped /\ CrRecords /\ CrOneOpen /\ CrCalls /\ CrCover /\ CrTrade

LEMMA CrSumIs == ASSUME NEW f
                 PROVE  Crypto!Bought(f) = Total(f, CrEntries) /\ Crypto!Sold(f) = Total(f, CrExits)
  BY DEF Crypto!Bought, Crypto!Sold, CrEntries, CrExits, Crypto!SumOver, Total, Crypto!MapThenSumSet,
         Crypto!MapThenFoldSet, MapThenSumSet, MapThenFoldSet

LEMMA CrLeftIs == /\ CrLeft = Total(Crypto!Filled, CrEntries) - Total(Crypto!Filled, CrExits)
                  /\ CrLeft' = Total(Crypto!Filled', CrEntries') - Total(Crypto!Filled', CrExits')
<1>1. CrLeft = Total(Crypto!Filled, CrEntries) - Total(Crypto!Filled, CrExits)
  BY CrSumIs DEF CrLeft
<1>2. CrLeft' = Total(Crypto!Filled', CrEntries') - Total(Crypto!Filled', CrExits')
  BY DEF CrLeft, Crypto!Bought, Crypto!Sold, CrEntries, CrExits, Crypto!SumOver, Total, Crypto!MapThenSumSet,
         Crypto!MapThenFoldSet, MapThenSumSet, MapThenFoldSet
<1>3. QED
  BY <1>1, <1>2

LEMMA CrSets == ASSUME CrTables
                PROVE  /\ Crypto!Orders = 1..Len(crypto_orders) /\ Len(crypto_orders) \in Nat
                       /\ DOMAIN crypto_known = Crypto!Orders /\ DOMAIN crypto_seen = Crypto!Orders
                       /\ DOMAIN crypto_broker = Crypto!Orders
                       /\ IsFiniteSet(CrEntries) /\ IsFiniteSet(CrExits)
                       /\ CrEntries \subseteq Crypto!Orders /\ CrExits \subseteq Crypto!Orders
<1>1. /\ Crypto!Orders = 1..Len(crypto_orders) /\ Len(crypto_orders) \in Nat
      /\ DOMAIN crypto_known = Crypto!Orders /\ DOMAIN crypto_seen = Crypto!Orders /\ DOMAIN crypto_broker = Crypto!Orders
  BY DEF CrTables, Crypto!Orders
<1>2. CrEntries \subseteq Crypto!Orders /\ CrExits \subseteq Crypto!Orders
  BY DEF CrEntries, CrExits
<1>3. IsFiniteSet(Crypto!Orders)
  BY <1>1, FS_Interval
<1>4. QED
  BY <1>1, <1>2, <1>3, FS_Subset

\* The types of one order.
CrOne(i) == /\ crypto_orders[i] \in CrRow /\ crypto_known[i] \in Nat /\ crypto_seen[i] \in Nat
            /\ crypto_broker[i] \in CrBroker /\ Crypto!Filled[i] = crypto_broker[i].filled

LEMMA CrEach == ASSUME CrTables, NEW i \in Crypto!Orders PROVE CrOne(i)
  BY CrSets DEF CrTables, CrOne, Crypto!Filled

\* A step that fills nothing, opens nothing and adds nothing.
CrRowsMoved ==
  /\ crypto_orders' \in Seq(CrRow) /\ Len(crypto_orders') = Len(crypto_orders)
  /\ \A i \in Crypto!Orders : /\ crypto_orders'[i].purpose = crypto_orders[i].purpose
                              /\ crypto_orders'[i].quantity = crypto_orders[i].quantity
                              /\ CrOver(i) => CrOver(i)'
CrBrokerMoved ==
  /\ crypto_broker' \in Seq(CrBroker) /\ Len(crypto_broker') = Len(crypto_broker)
  /\ \A i \in Crypto!Orders :
       /\ crypto_broker'[i].filled = crypto_broker[i].filled
       /\ crypto_broker'[i].status = "done" <=> crypto_broker[i].status = "done"
       /\ crypto_broker'[i].status \in {"absent", "live"} => crypto_broker[i].status \in {"absent", "live"}
CrTold ==
  /\ crypto_known' \in Seq(Nat) /\ Len(crypto_known') = Len(crypto_known)
  /\ crypto_seen' \in Seq(Nat) /\ Len(crypto_seen') = Len(crypto_seen)
  /\ \A i \in Crypto!Orders : /\ crypto_known'[i] \in {crypto_known[i], crypto_broker[i].filled}
                              /\ crypto_seen'[i] \in {crypto_seen[i], crypto_broker[i].filled}
                              /\ CrOver(i)' => /\ crypto_broker'[i].status # "live"
                                               /\ crypto_seen'[i] = crypto_broker[i].filled

LEMMA CrMovedKeeps ==
  ASSUME CrTables, CrRecords, CrOneOpen, CrCover, CrRowsMoved, CrBrokerMoved, CrTold
  PROVE  /\ CrTables' /\ CrRecords' /\ CrOneOpen' /\ CrCover'
         /\ Crypto!Orders' = Crypto!Orders /\ CrEntries' = CrEntries /\ CrLeft' = CrLeft
<1>1. CrTables'
  BY DEF CrTables, CrRowsMoved, CrBrokerMoved, CrTold
<1>2. Crypto!Orders' = Crypto!Orders
  BY <1>1, CrSets DEF Crypto!Orders, CrTables, CrRowsMoved
<1>3. CrEntries' = CrEntries /\ CrExits' = CrExits
  BY <1>2 DEF CrEntries, CrExits, CrRowsMoved
<1>4. Crypto!Filled' = Crypto!Filled
  BY <1>2 DEF Crypto!Filled, CrBrokerMoved
<1>5. CrLeft' = CrLeft
  <2>1. CrLeft = Total(Crypto!Filled, CrEntries) - Total(Crypto!Filled, CrExits)
    BY CrLeftIs
  <2>2. CrLeft' = Total(Crypto!Filled', CrEntries') - Total(Crypto!Filled', CrExits')
    BY CrLeftIs
  <2>3. QED
    BY <1>3, <1>4, <2>1, <2>2
<1>6. CrOneOpen'
  BY <1>2 DEF CrOneOpen, CrRowsMoved
<1>7. CrOpen' \subseteq CrOpen /\ CrOpen \subseteq Crypto!Orders
  BY <1>3 DEF CrOpen, CrExits, CrBrokerMoved, CrRowsMoved
<1>8. CrCover'
  BY <1>5, <1>7 DEF CrCover, CrRowsMoved
<1>9. CrRecords'
  <2>1. SUFFICES ASSUME NEW i \in Crypto!Orders PROVE CrRecorded(i)'
    BY <1>2 DEF CrRecords
  <2>2. CrRecorded(i)
    BY DEF CrRecords
  <2>3. QED
    BY <2>2 DEF CrRecorded, CrRowsMoved, CrBrokerMoved, CrTold
<1>10. QED
  BY <1>1, <1>2, <1>3, <1>5, <1>6, <1>8, <1>9

\* The whole invariant, when the call in progress and the trial are what they were or safe.
CrAside == crypto_run' \in CrRun /\ crypto_task' \in CrTask /\ crypto_trial' \in CrTrial

LEMMA CrStepKeeps ==
  ASSUME CrInv, CrRowsMoved, CrBrokerMoved, CrTold, CrAside, CrCalls',
         crypto_trial'.observed => crypto_trial.observed \/ \E i \in CrEntries : crypto_broker[i].filled > 0
  PROVE  CrInv'
<1> USE DEF CrInv, CrTyped
<1>1. /\ CrTables' /\ CrRecords' /\ CrOneOpen' /\ CrCover'
      /\ Crypto!Orders' = Crypto!Orders /\ CrEntries' = CrEntries
  BY CrMovedKeeps
<1>2. \A i \in CrEntries : crypto_broker'[i].filled = crypto_broker[i].filled
  BY DEF CrEntries, CrBrokerMoved
<1>3. CrTrade'
  BY <1>1, <1>2 DEF CrTrade
<1>4. QED
  BY <1>1, <1>3 DEF CrAside

LEMMA CrRowsSame == ASSUME CrTables, UNCHANGED crypto_orders
                    PROVE  CrRowsMoved /\ \A i \in Crypto!Orders : CrOver(i)' <=> CrOver(i)
  BY DEF CrTables, CrRowsMoved, CrOver

LEMMA CrBrokerSame == ASSUME CrTables, UNCHANGED crypto_broker PROVE CrBrokerMoved
  BY DEF CrTables, CrBrokerMoved

LEMMA CrToldSame ==
  ASSUME CrTables, CrRecords, UNCHANGED <<crypto_known, crypto_seen>>, CrBrokerMoved,
         \A i \in Crypto!Orders : CrOver(i)' => crypto_broker'[i].status # "live" /\ crypto_seen[i] = crypto_broker[i].filled
  PROVE  CrTold
  BY DEF CrTables, CrTold

LEMMA CrSame ==
  ASSUME CrInv, UNCHANGED <<crypto_orders, crypto_known, crypto_seen, crypto_broker>>
  PROVE  CrRowsMoved /\ CrBrokerMoved /\ CrTold /\ Crypto!Orders' = Crypto!Orders /\ \A i \in Crypto!Orders : CrOver(i)' <=> CrOver(i)
<1> USE DEF CrInv, CrTyped
<1>1. CrRowsMoved /\ CrBrokerMoved /\ \A i \in Crypto!Orders : CrOver(i)' <=> CrOver(i)
  BY CrRowsSame, CrBrokerSame
<1>2. \A i \in Crypto!Orders : CrOver(i)' => crypto_broker'[i].status # "live" /\ crypto_seen[i] = crypto_broker[i].filled
  BY <1>1 DEF CrRecords, CrRecorded
<1>3. CrTold
  BY <1>1, <1>2, CrToldSame
<1>4. QED
  BY <1>1, <1>3 DEF Crypto!Orders

LEMMA CrDisarmed == CrInv => \A b \in BOOLEAN : [crypto_run EXCEPT !.armed = b] \in CrRun
  BY DEF CrInv, CrTyped, CrRun

CrQuiet == Crypto!Arm \/ Crypto!Disarm \/ Crypto!Candle \/ Crypto!Expire \/ Crypto!Cross \/ Crypto!Count \/ Crypto!Quotes

LEMMA CrQuietKeeps == ASSUME CrInv, CrQuiet PROVE CrInv'
<1>0. UNCHANGED <<crypto_orders, crypto_known, crypto_seen, crypto_broker, crypto_trial>>
  BY DEF CrQuiet, Crypto!Arm, Crypto!Disarm, Crypto!Candle, Crypto!Expire, Crypto!Cross, Crypto!Count, Crypto!Quotes
<1>1. CrRowsMoved /\ CrBrokerMoved /\ CrTold /\ Crypto!Orders' = Crypto!Orders /\ \A i \in Crypto!Orders : CrOver(i)' <=> CrOver(i)
  BY <1>0, CrSame
<1> DEFINE Calm == /\ crypto_run' \in CrRun /\ crypto_task' \in CrTask
                   /\ \/ crypto_task'.at \in {"idle", "enter"}
                      \/ crypto_task.at = "count" /\ crypto_task'.order = crypto_task.order
<1>2. Crypto!Arm => Calm
  BY DEF Crypto!Arm, Crypto!Free, Crypto!Idle, CrTask, CrRun, CrInv, CrTyped
<1>3. Crypto!Disarm => Calm
  <2>1. SUFFICES ASSUME Crypto!Disarm PROVE Calm
    OBVIOUS
  <2>2. crypto_run' = [crypto_run EXCEPT !.armed = FALSE] /\ crypto_task' = crypto_task /\ crypto_task = Crypto!Idle
    BY <2>1 DEF Crypto!Disarm, Crypto!Free
  <2>3. crypto_run' \in CrRun
    BY <2>2, CrDisarmed
  <2>4. QED
    BY <2>2, <2>3 DEF Crypto!Idle, CrInv, CrTyped
<1>4. Crypto!Candle \/ Crypto!Expire \/ Crypto!Quotes => Calm
  BY DEF Crypto!Candle, Crypto!Expire, Crypto!Quotes, Crypto!Free, Crypto!Idle, CrTask, CrInv, CrTyped
<1>5. Crypto!Cross => Calm
  <2>1. SUFFICES ASSUME Crypto!Cross PROVE Calm
    OBVIOUS
  <2>2. crypto_task' = [at |-> "enter", order |-> 0] \/ crypto_task' = Crypto!Idle
    BY <2>1 DEF Crypto!Cross
  <2>3. crypto_task' \in CrTask /\ crypto_task'.at \in {"idle", "enter"}
    BY <2>2 DEF Crypto!Idle, CrTask
  <2>4. QED
    BY <2>1, <2>3 DEF Crypto!Cross, CrInv, CrTyped
<1>6. Crypto!Count => Calm
  BY DEF Crypto!Count, CrTask, CrRun, CrInv, CrTyped
<1>7. Calm
  BY <1>2, <1>3, <1>4, <1>5, <1>6 DEF CrQuiet
<1>8. CrCalls'
  BY <1>0, <1>1, <1>7 DEF CrCalls, CrInv
<1>9. CrAside
  BY <1>0, <1>7 DEF CrAside, CrInv, CrTyped
<1>10. QED
  BY <1>0, <1>1, <1>8, <1>9, CrStepKeeps

-----------------------------------------------------------------------------
(* States and statuses.                                                    *)

\* The rows after some states are set.
CrStatesSet(states) ==
  /\ crypto_orders' \in Seq(CrRow) /\ Len(crypto_orders') = Len(crypto_orders)
  /\ \A i \in Crypto!Orders : /\ crypto_orders'[i].purpose = crypto_orders[i].purpose
                              /\ crypto_orders'[i].quantity = crypto_orders[i].quantity
                              /\ crypto_orders'[i].state = states[i]

LEMMA CrSetState ==
  ASSUME CrTables, NEW i \in Crypto!Orders, NEW s \in CrStates, Crypto!SetState(i, s)
  PROVE  CrStatesSet([j \in Crypto!Orders |-> IF j = i THEN s ELSE crypto_orders[j].state])
<1> DEFINE row == [purpose |-> crypto_orders[i].purpose, auth |-> crypto_orders[i].auth,
                   quantity |-> crypto_orders[i].quantity, state |-> s]
<1>1. crypto_orders \in Seq(CrRow) /\ Crypto!Orders = 1..Len(crypto_orders)
  BY CrSets DEF CrTables
<1>2. \A j \in Crypto!Orders : crypto_orders[j] \in CrRow
  BY <1>1
<1>3. [crypto_orders[i] EXCEPT !.state = s] = row
  BY <1>2 DEF CrRow
<1>4. row \in CrRow
  BY <1>2 DEF CrRow
<1>5. crypto_orders' = [crypto_orders EXCEPT ![i] = row]
  BY <1>3 DEF Crypto!SetState
<1> HIDE DEF row
<1>6. /\ crypto_orders' \in Seq(CrRow) /\ Len(crypto_orders') = Len(crypto_orders)
      /\ \A j \in Crypto!Orders : crypto_orders'[j] = IF j = i THEN row ELSE crypto_orders[j]
  BY <1>1, <1>4, <1>5
<1>7. row.purpose = crypto_orders[i].purpose /\ row.quantity = crypto_orders[i].quantity /\ row.state = s
  BY DEF row
<1>8. QED
  BY <1>6, <1>7 DEF CrStatesSet

\* The broker's rows after one status is set.
CrStatusSet(i, s) ==
  /\ crypto_broker' \in Seq(CrBroker) /\ Len(crypto_broker') = Len(crypto_broker)
  /\ \A j \in Crypto!Orders : /\ crypto_broker'[j].filled = crypto_broker[j].filled
                              /\ crypto_broker'[j].status = IF j = i THEN s ELSE crypto_broker[j].status

LEMMA CrSetStatus ==
  ASSUME CrTables, NEW i \in Crypto!Orders, NEW s \in CrStatus,
         crypto_broker' = [crypto_broker EXCEPT ![i].status = s]
  PROVE  CrStatusSet(i, s)
<1> DEFINE b == [status |-> s, filled |-> crypto_broker[i].filled]
<1>1. crypto_broker \in Seq(CrBroker) /\ Crypto!Orders = 1..Len(crypto_broker)
  BY CrSets DEF CrTables
<1>2. \A j \in Crypto!Orders : crypto_broker[j] \in CrBroker
  BY <1>1
<1>3. [crypto_broker[i] EXCEPT !.status = s] = b /\ b \in CrBroker
  BY <1>2 DEF CrBroker
<1>4. crypto_broker' = [crypto_broker EXCEPT ![i] = b]
  BY <1>3
<1> HIDE DEF b
<1>5. /\ crypto_broker' \in Seq(CrBroker) /\ Len(crypto_broker') = Len(crypto_broker)
      /\ \A j \in Crypto!Orders : crypto_broker'[j] = IF j = i THEN b ELSE crypto_broker[j]
  BY <1>1, <1>3, <1>4
<1>6. b.status = s /\ b.filled = crypto_broker[i].filled
  BY DEF b
<1>7. QED
  BY <1>5, <1>6 DEF CrStatusSet

LEMMA CrGuard == ASSUME CrInv, Crypto!Guard PROVE CrInv'
<1> USE DEF CrInv, CrTyped
<1>0. PICK i : i = crypto_task.order
  OBVIOUS
<1>1. i \in Crypto!Orders /\ crypto_broker[i].status = "absent" /\ ~CrOver(i)
  BY <1>0 DEF Crypto!Guard, CrCalls
<1>2. PICK s \in {"dispatching", "cancelled"} :
        /\ Crypto!SetState(i, s)
        /\ IF s = "dispatching" THEN crypto_task' = [crypto_task EXCEPT !.at = "submit"] ELSE crypto_task' = Crypto!Idle
  BY <1>0 DEF Crypto!Guard
<1>3. UNCHANGED <<crypto_run, crypto_known, crypto_seen, crypto_broker, crypto_trial>>
  BY DEF Crypto!Guard
<1>4. CrStatesSet([j \in Crypto!Orders |-> IF j = i THEN s ELSE crypto_orders[j].state])
  BY <1>1, <1>2, CrSetState DEF CrStates, Crypto!TERMINAL_STATES
<1>5. CrRowsMoved /\ CrBrokerMoved /\ (s = "dispatching" => ~CrOver(i)') /\ \A j \in Crypto!Orders : j # i => (CrOver(j)' <=> CrOver(j))
  <2>1. /\ crypto_orders' \in Seq(CrRow) /\ Len(crypto_orders') = Len(crypto_orders)
        /\ \A j \in Crypto!Orders : /\ crypto_orders'[j].purpose = crypto_orders[j].purpose
                                    /\ crypto_orders'[j].quantity = crypto_orders[j].quantity
                                    /\ crypto_orders'[j].state = IF j = i THEN s ELSE crypto_orders[j].state
    BY <1>4 DEF CrStatesSet
  <2>2. \A j \in Crypto!Orders : j # i => (CrOver(j)' <=> CrOver(j))
    BY <2>1 DEF CrOver
  <2>3. s = "dispatching" => ~CrOver(i)'
    BY <1>1, <2>1 DEF CrOver, Crypto!TERMINAL_STATES
  <2>4. \A j \in Crypto!Orders : CrOver(j) => CrOver(j)'
    BY <1>1, <2>2
  <2>5. CrRowsMoved
    BY <2>1, <2>4 DEF CrRowsMoved
  <2>6. CrBrokerMoved
    BY <1>3, CrBrokerSame
  <2>7. QED
    BY <2>2, <2>3, <2>5, <2>6
<1>6. CrTold
  <2>1. \A j \in Crypto!Orders : CrOver(j)' => crypto_broker'[j].status # "live" /\ crypto_seen[j] = crypto_broker[j].filled
    <3>1. SUFFICES ASSUME NEW j \in Crypto!Orders, CrOver(j)'
                   PROVE  crypto_broker[j].status # "live" /\ crypto_seen[j] = crypto_broker[j].filled
      BY <1>3
    <3>2. CrRecorded(j) /\ crypto_broker[j].filled \in Nat
      BY CrEach DEF CrRecords, CrOne, CrBroker
    <3>3. QED
      BY <1>1, <1>5, <3>1, <3>2 DEF CrRecorded
  <2>2. QED
    BY <1>3, <1>5, <2>1, CrToldSame
<1>7. /\ crypto_task' \in CrTask /\ crypto_task'.at \in {"submit", "idle"}
      /\ crypto_task'.at = "submit" => crypto_task'.order = i /\ s = "dispatching"
  BY <1>0, <1>2 DEF Crypto!Idle, CrTask
<1>8. Crypto!Orders' = Crypto!Orders
  BY <1>4, CrSets DEF Crypto!Orders, CrStatesSet, CrTables
<1>9. CrCalls'
  BY <1>1, <1>3, <1>5, <1>7, <1>8 DEF CrCalls
<1>10. CrAside
  BY <1>3, <1>7 DEF CrAside
<1>11. QED
  BY <1>3, <1>5, <1>6, <1>9, <1>10, CrStepKeeps

LEMMA CrSubmit == ASSUME CrInv, Crypto!Submit PROVE CrInv'
<1> USE DEF CrInv, CrTyped
<1> DEFINE i == crypto_task.order
<1>1. i \in Crypto!Orders /\ crypto_broker[i].status = "absent" /\ ~CrOver(i)
  BY DEF Crypto!Submit, CrCalls
<1>2. UNCHANGED <<crypto_run, crypto_known, crypto_seen, crypto_trial>> /\ crypto_task' = Crypto!Idle
  BY DEF Crypto!Submit
<1>3. PICK s \in {"absent", "live"} : crypto_broker' = [crypto_broker EXCEPT ![i].status = s]
  BY DEF Crypto!Submit
<1>4. CrStatusSet(i, s)
  BY <1>1, <1>3, CrSetStatus DEF CrStatus
<1>5. UNCHANGED crypto_orders \/ Crypto!SetState(i, "unknown")
  BY DEF Crypto!Submit
<1>6. CrRowsMoved /\ \A j \in Crypto!Orders : CrOver(j)' <=> CrOver(j)
  <2>1. CASE UNCHANGED crypto_orders
    BY <2>1, CrRowsSame
  <2>2. CASE Crypto!SetState(i, "unknown")
    <3>1. CrStatesSet([j \in Crypto!Orders |-> IF j = i THEN "unknown" ELSE crypto_orders[j].state])
      BY <1>1, <2>2, CrSetState DEF CrStates
    <3>2. QED
      BY <1>1, <3>1 DEF CrStatesSet, CrRowsMoved, CrOver, Crypto!TERMINAL_STATES
  <2>3. QED
    BY <1>5, <2>1, <2>2
<1>7. CrBrokerMoved
  BY <1>1, <1>4 DEF CrBrokerMoved, CrStatusSet
<1>8. CrTold
  <2>1. \A j \in Crypto!Orders : CrOver(j)' => crypto_broker'[j].status # "live" /\ crypto_seen[j] = crypto_broker[j].filled
    BY <1>1, <1>4, <1>6 DEF CrRecords, CrRecorded, CrStatusSet
  <2>2. QED
    BY <1>2, <1>7, <2>1, CrToldSame
<1>9. CrCalls' /\ CrAside
  BY <1>2 DEF CrCalls, CrAside, Crypto!Idle, CrTask
<1>10. QED
  BY <1>2, <1>6, <1>7, <1>8, <1>9, CrStepKeeps

LEMMA CrReject == ASSUME CrInv, Crypto!Reject PROVE CrInv'
<1> USE DEF CrInv, CrTyped
<1>1. PICK i \in Crypto!Orders : /\ crypto_broker[i].status = "live"
                                 /\ crypto_broker' = [crypto_broker EXCEPT ![i].status = "rejected"]
  BY DEF Crypto!Reject
<1>2. UNCHANGED <<crypto_orders, crypto_run, crypto_known, crypto_seen, crypto_trial, crypto_task>>
  BY DEF Crypto!Reject
<1>3. CrStatusSet(i, "rejected")
  BY <1>1, CrSetStatus DEF CrStatus
<1>4. CrRowsMoved /\ \A j \in Crypto!Orders : CrOver(j)' <=> CrOver(j)
  BY <1>2, CrRowsSame
<1>5. CrBrokerMoved
  BY <1>1, <1>3 DEF CrBrokerMoved, CrStatusSet
<1>6. CrTold
  <2>1. \A j \in Crypto!Orders : CrOver(j)' => crypto_broker'[j].status # "live" /\ crypto_seen[j] = crypto_broker[j].filled
    BY <1>3, <1>4 DEF CrRecords, CrRecorded, CrStatusSet
  <2>2. QED
    BY <1>2, <1>5, <2>1, CrToldSame
<1>7. Crypto!Orders' = Crypto!Orders
  BY <1>2 DEF Crypto!Orders
<1>8. CrCalls' /\ CrAside
  BY <1>1, <1>2, <1>3, <1>4, <1>7 DEF CrCalls, CrAside, CrStatusSet
<1>9. QED
  BY <1>2, <1>4, <1>5, <1>6, <1>8, CrStepKeeps

-----------------------------------------------------------------------------
(* What the engine is told.                                                *)

LEMMA CrProjected ==
  ASSUME CrTables, CrRecords, NEW i \in Crypto!Orders
  PROVE  /\ Crypto!Projected(i) \in CrStates
         /\ CrOver(i) => Crypto!Projected(i) \in Crypto!TERMINAL_STATES
         /\ Crypto!Projected(i) \in Crypto!TERMINAL_STATES => crypto_broker[i].status # "live"
<1>1. CrOne(i) /\ CrRecorded(i)
  BY CrEach DEF CrRecords
<1>2. crypto_orders[i].state \in CrStates
  BY <1>1 DEF CrOne, CrRow
<1>3. QED
  BY <1>1, <1>2 DEF Crypto!Projected, CrStates, Crypto!TERMINAL_STATES, CrOver, CrRecorded

LEMMA CrStatus1 == ASSUME CrInv, Crypto!Status PROVE CrInv'
<1> USE DEF CrInv, CrTyped
<1>1. PICK i \in Crypto!Orders : /\ Crypto!SetState(i, Crypto!Projected(i))
                                 /\ crypto_seen' = [crypto_seen EXCEPT ![i] = crypto_broker[i].filled]
  BY DEF Crypto!Status
<1>2. UNCHANGED <<crypto_run, crypto_known, crypto_broker, crypto_trial, crypto_task>> /\ crypto_task = Crypto!Idle
  BY DEF Crypto!Status, Crypto!Free
<1>3. PICK s : s = Crypto!Projected(i)
  OBVIOUS
<1>4. s \in CrStates /\ (CrOver(i) => s \in Crypto!TERMINAL_STATES)
      /\ (s \in Crypto!TERMINAL_STATES => crypto_broker[i].status # "live")
  BY <1>3, CrProjected
<1>5. CrStatesSet([j \in Crypto!Orders |-> IF j = i THEN s ELSE crypto_orders[j].state])
  BY <1>1, <1>3, <1>4, CrSetState
<1>6. /\ crypto_orders' \in Seq(CrRow) /\ Len(crypto_orders') = Len(crypto_orders)
      /\ \A j \in Crypto!Orders : /\ crypto_orders'[j].purpose = crypto_orders[j].purpose
                                  /\ crypto_orders'[j].quantity = crypto_orders[j].quantity
                                  /\ crypto_orders'[j].state = IF j = i THEN s ELSE crypto_orders[j].state
  BY <1>5 DEF CrStatesSet
<1>7. \A j \in Crypto!Orders : /\ CrOver(j) => CrOver(j)' 
                               /\ j # i => (CrOver(j)' <=> CrOver(j))
                               /\ CrOver(i)' => s \in Crypto!TERMINAL_STATES
  BY <1>4, <1>6 DEF CrOver
<1>8. CrRowsMoved /\ CrBrokerMoved
  BY <1>2, <1>6, <1>7, CrBrokerSame DEF CrRowsMoved
<1>9. \A j \in Crypto!Orders : crypto_broker[j].filled \in Nat /\ CrRecorded(j)
  BY CrEach DEF CrOne, CrBroker, CrRecords
<1>10. /\ crypto_seen' \in Seq(Nat) /\ Len(crypto_seen') = Len(crypto_seen)
       /\ \A j \in Crypto!Orders : crypto_seen'[j] = IF j = i THEN crypto_broker[i].filled ELSE crypto_seen[j]
  BY <1>1, <1>9, CrSets DEF CrTables
<1>11. CrTold
  <2>1. \A j \in Crypto!Orders : CrOver(j)' => /\ crypto_broker'[j].status # "live"
                                               /\ crypto_seen'[j] = crypto_broker[j].filled
    <3>1. SUFFICES ASSUME NEW j \in Crypto!Orders, CrOver(j)'
                   PROVE  crypto_broker[j].status # "live" /\ crypto_seen'[j] = crypto_broker[j].filled
      BY <1>2
    <3>2. CASE j = i
      BY <1>4, <1>7, <1>10, <3>1, <3>2
    <3>3. CASE j # i
      BY <1>7, <1>9, <1>10, <3>1, <3>3 DEF CrRecorded
    <3>4. QED
      BY <3>2, <3>3
  <2>2. QED
    BY <1>2, <1>10, <2>1 DEF CrTold, CrTables
<1>12. CrCalls' /\ CrAside
  BY <1>2 DEF CrCalls, CrAside, Crypto!Idle, CrTask
<1>13. QED
  BY <1>2, <1>8, <1>11, <1>12, CrStepKeeps

LEMMA CrExecution == ASSUME CrInv, Crypto!Execution PROVE CrInv'
<1> USE DEF CrInv, CrTyped
<1>1. PICK i \in Crypto!Orders : crypto_known' = [crypto_known EXCEPT ![i] = crypto_broker[i].filled]
  BY DEF Crypto!Execution
<1>2. UNCHANGED <<crypto_run, crypto_orders, crypto_seen, crypto_broker, crypto_trial, crypto_task>>
      /\ crypto_task = Crypto!Idle
  BY DEF Crypto!Execution, Crypto!Free
<1>3. CrRowsMoved /\ CrBrokerMoved /\ \A j \in Crypto!Orders : CrOver(j)' <=> CrOver(j)
  BY <1>2, CrRowsSame, CrBrokerSame
<1>4. \A j \in Crypto!Orders : crypto_broker[j].filled \in Nat /\ CrRecorded(j)
  BY CrEach DEF CrOne, CrBroker, CrRecords
<1>5. /\ crypto_known' \in Seq(Nat) /\ Len(crypto_known') = Len(crypto_known)
      /\ \A j \in Crypto!Orders : crypto_known'[j] \in {crypto_known[j], crypto_broker[j].filled}
  BY <1>1, <1>4, CrSets DEF CrTables
<1>6. CrTold
  BY <1>2, <1>3, <1>4, <1>5 DEF CrTold, CrTables, CrRecorded
<1>7. CrCalls' /\ CrAside
  BY <1>2 DEF CrCalls, CrAside, Crypto!Idle, CrTask
<1>8. QED
  BY <1>2, <1>3, <1>6, <1>7, CrStepKeeps

\* What was bought is of some entry.
LEMMA CrBoughtOf ==
  ASSUME CrTables, Crypto!Bought(Crypto!Filled) - Crypto!Sold(Crypto!Filled) > 0
  PROVE  \E i \in CrEntries : crypto_broker[i].filled > 0
<1> DEFINE f == Crypto!Filled
<1>1. \A i \in Crypto!Orders : f[i] = crypto_broker[i].filled /\ f[i] \in Nat
  BY CrEach DEF CrOne, CrBroker
<1>2. Crypto!Bought(f) = Total(f, CrEntries) /\ Crypto!Sold(f) = Total(f, CrExits)
  BY CrSumIs
<1>3. IsFiniteSet(CrEntries) /\ IsFiniteSet(CrExits) /\ CrEntries \subseteq Crypto!Orders /\ CrExits \subseteq Crypto!Orders
  BY CrSets
<1> HIDE DEF f
<1>4. SUFFICES ASSUME \A i \in CrEntries : f[i] \in {0} PROVE FALSE
  BY <1>1, <1>3
<1>5. Total(f, CrEntries) = 0
  BY <1>3, <1>4, SumIsZero
<1>6. \A i \in CrExits : f[i] \in Nat
  BY <1>1, <1>3
<1>7. Total(f, CrExits) \in Nat
  BY <1>3, <1>6, SumIsNat
<1>8. QED
  BY <1>2, <1>5, <1>7 DEF f


\* A reconciliation leaves every row as the broker has it.
LEMMA CrReconcile ==
  ASSUME CrInv, Crypto!Reconcile
  PROVE  CrInv' /\ Crypto!QualifiedByTrade
<1> USE DEF CrInv, CrTyped
<1>1. /\ crypto_known' = Crypto!Filled /\ crypto_seen' = Crypto!Filled /\ UNCHANGED <<crypto_broker, crypto_task>>
      /\ crypto_orders' = [i \in Crypto!Orders |-> [crypto_orders[i] EXCEPT !.state = Crypto!Projected(i)]]
      /\ crypto_task = Crypto!Idle
  BY DEF Crypto!Reconcile, Crypto!Free
<1>2. PICK position, done, valid :
        /\ position = Crypto!Bought(Crypto!Filled) - Crypto!Sold(Crypto!Filled)
        /\ done \in Nat
        /\ valid \in BOOLEAN /\ (valid => position > 0)
        /\ \/ crypto_trial' = crypto_trial
           \/ crypto_trial' = Crypto!Trialled(position, done, valid)
        /\ \E b \in BOOLEAN : crypto_run' = [crypto_run EXCEPT !.armed = b]
  <2>1. PICK last : last = {i \in Crypto!Orders : crypto_orders[i].purpose = "entry" /\ crypto_orders[i].auth = crypto_run.auth
                              /\ crypto_orders'[i].state \in Crypto!TERMINAL_STATES}
    OBVIOUS
  <2>2. (IF last = {} THEN 0 ELSE CHOOSE i \in last : TRUE) \in Nat
    <3>1. CASE last = {}
      BY <3>1
    <3>2. CASE last # {}
      <4>1. (CHOOSE i \in last : TRUE) \in last
        BY <3>2
      <4>2. last \subseteq Nat
        BY <2>1, CrSets
      <4>3. QED
        BY <3>2, <4>1, <4>2
    <3>3. QED
      BY <3>1, <3>2
  <2>3. QED
    BY <2>1, <2>2 DEF Crypto!Reconcile, Crypto!ValidProtection
<1>3. \A i \in Crypto!Orders : crypto_broker[i].filled \in Nat /\ CrRecorded(i) /\ crypto_orders[i] \in CrRow
  BY CrEach DEF CrOne, CrBroker, CrRecords
<1> DEFINE row(i) == [purpose |-> crypto_orders[i].purpose, auth |-> crypto_orders[i].auth,
                      quantity |-> crypto_orders[i].quantity, state |-> Crypto!Projected(i)]
<1>4. \A i \in Crypto!Orders : crypto_orders'[i] = row(i) /\ row(i) \in CrRow
  BY <1>1, <1>3, CrProjected DEF CrRow
<1> HIDE DEF row
<1>5. crypto_orders' \in Seq(CrRow) /\ Len(crypto_orders') = Len(crypto_orders)
  <2>1. crypto_orders' \in [1..Len(crypto_orders) -> CrRow] /\ Len(crypto_orders) \in Nat
    BY <1>1, <1>4, CrSets
  <2>2. QED
    BY <2>1
<1>6. \A i \in Crypto!Orders : /\ crypto_orders'[i].purpose = crypto_orders[i].purpose
                               /\ crypto_orders'[i].quantity = crypto_orders[i].quantity
                               /\ crypto_orders'[i].state = Crypto!Projected(i)
  <2>1. SUFFICES ASSUME NEW i \in Crypto!Orders
                 PROVE  /\ crypto_orders'[i].purpose = crypto_orders[i].purpose
                        /\ crypto_orders'[i].quantity = crypto_orders[i].quantity
                        /\ crypto_orders'[i].state = Crypto!Projected(i)
    OBVIOUS
  <2>2. crypto_orders'[i] = row(i)
    BY <1>4
  <2>3. QED
    BY <2>2 DEF row
<1>7. \A i \in Crypto!Orders : (CrOver(i) => CrOver(i)') /\ (CrOver(i)' => crypto_broker[i].status # "live")
  BY <1>6, CrProjected DEF CrOver
<1>8. CrRowsMoved /\ CrBrokerMoved
  BY <1>1, <1>5, <1>6, <1>7, CrBrokerSame DEF CrRowsMoved
<1>9. /\ Crypto!Filled \in Seq(Nat) /\ Len(Crypto!Filled) = Len(crypto_orders)
      /\ \A i \in Crypto!Orders : Crypto!Filled[i] = crypto_broker[i].filled
  BY <1>3, CrSets DEF Crypto!Filled
<1>10. CrTold
  BY <1>1, <1>7, <1>9 DEF CrTold, CrTables
<1>11. position >= 0 /\ position \in Int
  <2>1. CrLeft = position
    BY <1>2 DEF CrLeft
  <2>2. CrLeft \in Int
    <3>1. \A i \in Crypto!Orders : Crypto!Filled[i] \in Int
      BY <1>3, <1>9
    <3>2. Total(Crypto!Filled, CrEntries) \in Int /\ Total(Crypto!Filled, CrExits) \in Int
      BY <3>1, CrSets, SumOfInt
    <3>3. QED
      BY <3>2, CrLeftIs
  <2>3. QED
    BY <2>1, <2>2 DEF CrCover
<1>12. position > 0 => \E i \in CrEntries : crypto_broker[i].filled > 0
  BY <1>2, CrBoughtOf
<1>13. /\ crypto_trial' \in CrTrial
       /\ crypto_trial'.observed => crypto_trial.observed \/ position > 0
       /\ crypto_trial'.qualified => crypto_trial.qualified \/ (crypto_trial.observed /\ ~(position > 0))
  <2>1. CASE crypto_trial' = crypto_trial
    BY <2>1
  <2>2. CASE crypto_trial' = Crypto!Trialled(position, done, valid)
    <3>1. CASE done = 0
      BY <2>2, <3>1 DEF Crypto!Trialled
    <3>2. CASE done # 0 /\ position > 0
      <4>1. PICK b \in BOOLEAN : b = ((crypto_trial.entry = done /\ crypto_trial.observed) \/ valid)
        OBVIOUS
      <4>2. crypto_trial' = [crypto_trial EXCEPT !.entry = done, !.observed = b]
        BY <2>2, <3>2, <4>1 DEF Crypto!Trialled
      <4>3. crypto_trial' \in CrTrial /\ crypto_trial'.qualified = crypto_trial.qualified
        BY <1>2, <4>2 DEF CrTrial
      <4>4. QED
        BY <3>2, <4>3
    <3>3. CASE done # 0 /\ ~(position > 0)
      <4>1. PICK b \in BOOLEAN : b = (crypto_trial.qualified \/ (crypto_trial.entry = done /\ crypto_trial.observed))
        BY DEF CrTrial
      <4>2. crypto_trial' = [crypto_trial EXCEPT !.qualified = b]
        BY <2>2, <3>3, <4>1 DEF Crypto!Trialled
      <4>3. crypto_trial' \in CrTrial /\ crypto_trial'.observed = crypto_trial.observed /\ crypto_trial'.qualified = b
        BY <4>2 DEF CrTrial
      <4>4. QED
        BY <3>3, <4>1, <4>3
    <3>4. QED
      BY <3>1, <3>2, <3>3
  <2>3. QED
    BY <1>2, <2>1, <2>2
<1>14. CrCalls' /\ CrAside
  <2>1. crypto_run' \in CrRun
    BY <1>2, CrDisarmed
  <2>2. QED
    BY <1>1, <1>13, <2>1 DEF CrCalls, CrAside, Crypto!Idle, CrTask
<1>15. CrInv'
  BY <1>8, <1>10, <1>12, <1>13, <1>14, CrStepKeeps
<1>16. Crypto!QualifiedByTrade
  <2>1. SUFFICES ASSUME crypto_trial'.qualified, ~crypto_trial.qualified
                 PROVE  /\ \E i \in Crypto!Orders : crypto_orders[i].purpose = "entry" /\ crypto_broker[i].filled > 0
                        /\ Crypto!Bought(Crypto!Filled) = Crypto!Sold(Crypto!Filled)
    BY DEF Crypto!QualifiedByTrade
  <2>2. crypto_trial.observed /\ position = 0
    BY <1>11, <1>13, <2>1
  <2>3. \E i \in Crypto!Orders : crypto_orders[i].purpose = "entry" /\ crypto_broker[i].filled > 0
    BY <2>2 DEF CrTrade, CrEntries
  <2>4. Crypto!Bought(Crypto!Filled) \in Int /\ Crypto!Sold(Crypto!Filled) \in Int
    <3>1. \A i \in Crypto!Orders : Crypto!Filled[i] \in Int
      BY <1>3, <1>9
    <3>2. Total(Crypto!Filled, CrEntries) \in Int /\ Total(Crypto!Filled, CrExits) \in Int
      BY <3>1, CrSets, SumOfInt
    <3>3. QED
      BY <3>2, CrSumIs
  <2>5. QED
    BY <1>2, <2>2, <2>3, <2>4
<1>17. QED
  BY <1>15, <1>16

LEMMA CrRestart == ASSUME CrInv, Crypto!Restart PROVE CrInv'
<1> USE DEF CrInv, CrTyped
<1> DEFINE down(j) == crypto_orders[j].state \in {"reserved", "dispatching"}
           row(j) == [purpose |-> crypto_orders[j].purpose, auth |-> crypto_orders[j].auth,
                      quantity |-> crypto_orders[j].quantity, state |-> "unknown"]
<1>1. /\ UNCHANGED <<crypto_known, crypto_seen, crypto_broker, crypto_trial>> /\ crypto_task' = Crypto!Idle
      /\ crypto_run' = [crypto_run EXCEPT !.armed = FALSE]
      /\ crypto_orders' = [j \in Crypto!Orders |-> IF down(j) THEN [crypto_orders[j] EXCEPT !.state = "unknown"]
                                                   ELSE crypto_orders[j]]
  BY DEF Crypto!Restart
<1>2. \A j \in Crypto!Orders : crypto_orders[j] \in CrRow
  BY CrEach DEF CrOne
<1>3. \A j \in Crypto!Orders : [crypto_orders[j] EXCEPT !.state = "unknown"] = row(j) /\ row(j) \in CrRow
  BY <1>2 DEF CrRow, CrStates
<1>4. \A j \in Crypto!Orders : crypto_orders'[j] = IF down(j) THEN row(j) ELSE crypto_orders[j]
  BY <1>1, <1>3
<1>5. \A j \in Crypto!Orders : crypto_orders'[j] \in CrRow
  BY <1>2, <1>3, <1>4
<1>6. \A j \in Crypto!Orders : /\ crypto_orders'[j].purpose = crypto_orders[j].purpose
                               /\ crypto_orders'[j].quantity = crypto_orders[j].quantity
                               /\ crypto_orders'[j].state = IF down(j) THEN "unknown" ELSE crypto_orders[j].state
  <2>1. SUFFICES ASSUME NEW j \in Crypto!Orders
                 PROVE  /\ crypto_orders'[j].purpose = crypto_orders[j].purpose
                        /\ crypto_orders'[j].quantity = crypto_orders[j].quantity
                        /\ crypto_orders'[j].state = IF down(j) THEN "unknown" ELSE crypto_orders[j].state
    OBVIOUS
  <2>2. CASE down(j)
    <3>1. crypto_orders'[j] = row(j)
      BY <1>4, <2>2
    <3>2. QED
      BY <3>1, <2>2
  <2>3. CASE ~down(j)
    <3>1. crypto_orders'[j] = crypto_orders[j]
      BY <1>4, <2>3
    <3>2. QED
      BY <3>1, <2>3
  <2>4. QED
    BY <2>2, <2>3
<1> HIDE DEF row
<1>7. crypto_orders' \in Seq(CrRow) /\ Len(crypto_orders') = Len(crypto_orders)
  <2>1. crypto_orders' \in [1..Len(crypto_orders) -> CrRow] /\ Len(crypto_orders) \in Nat
    BY <1>1, <1>5, CrSets
  <2>2. QED
    BY <2>1
<1>8. \A j \in Crypto!Orders : CrOver(j)' <=> CrOver(j)
  BY <1>6 DEF CrOver, Crypto!TERMINAL_STATES
<1>9. CrRowsMoved /\ CrBrokerMoved
  BY <1>1, <1>6, <1>7, <1>8, CrBrokerSame DEF CrRowsMoved
<1>10. CrTold
  <2>1. \A i \in Crypto!Orders : CrOver(i)' => crypto_broker'[i].status # "live" /\ crypto_seen[i] = crypto_broker[i].filled
    BY <1>1, <1>8 DEF CrRecords, CrRecorded
  <2>2. QED
    BY <1>1, <1>9, <2>1, CrToldSame
<1>11. CrCalls' /\ CrAside
  <2>1. crypto_run' \in CrRun
    BY <1>1, CrDisarmed
  <2>2. QED
    BY <1>1, <2>1 DEF CrCalls, CrAside, Crypto!Idle, CrTask
<1>12. QED
  BY <1>1, <1>9, <1>10, <1>11, CrStepKeeps

-----------------------------------------------------------------------------
(* The broker executes.                                                    *)

LEMMA CrExecute == ASSUME CrInv, Crypto!Execute PROVE CrInv'
<1> USE DEF CrInv, CrTyped
<1>1. PICK i \in Crypto!Orders : /\ crypto_broker[i].status = "live"
                                 /\ \E q \in 0..crypto_orders[i].quantity :
                                      crypto_broker' = [crypto_broker EXCEPT ![i] = [status |-> "done", filled |-> q]]
  BY DEF Crypto!Execute
<1>2. PICK q \in 0..crypto_orders[i].quantity : crypto_broker' = [crypto_broker EXCEPT ![i] = [status |-> "done", filled |-> q]]
  BY <1>1
<1>3. UNCHANGED <<crypto_run, crypto_orders, crypto_known, crypto_seen, crypto_trial, crypto_task>>
  BY DEF Crypto!Execute
<1>4. CrOne(i) /\ CrRecorded(i) /\ q \in Nat /\ q <= crypto_orders[i].quantity /\ crypto_orders[i].quantity \in Nat
  <2>1. CrOne(i) /\ CrRecorded(i)
    BY CrEach DEF CrRecords
  <2>2. crypto_orders[i].quantity \in Nat
    BY <2>1 DEF CrOne, CrRow
  <2>3. QED
    BY <2>1, <2>2
<1>5. ~CrOver(i) /\ crypto_broker[i].filled = 0 /\ crypto_known[i] = 0 /\ crypto_seen[i] = 0
  BY <1>1, <1>4 DEF CrRecorded
<1>6. /\ crypto_broker' \in Seq(CrBroker) /\ Len(crypto_broker') = Len(crypto_broker)
      /\ crypto_broker'[i].status = "done" /\ crypto_broker'[i].filled = q
      /\ \A j \in Crypto!Orders : j # i => crypto_broker'[j] = crypto_broker[j]
  <2> DEFINE b == [status |-> "done", filled |-> q]
  <2>1. b \in CrBroker /\ b.status = "done" /\ b.filled = q
    BY <1>4 DEF CrBroker, CrStatus
  <2>2. crypto_broker' = [crypto_broker EXCEPT ![i] = b] /\ crypto_broker \in Seq(CrBroker) /\ Crypto!Orders = 1..Len(crypto_broker)
    BY <1>2, CrSets DEF CrTables
  <2> HIDE DEF b
  <2>3. /\ crypto_broker' \in Seq(CrBroker) /\ Len(crypto_broker') = Len(crypto_broker)
        /\ crypto_broker'[i] = b /\ \A j \in Crypto!Orders : j # i => crypto_broker'[j] = crypto_broker[j]
    BY <2>1, <2>2
  <2>4. QED
    BY <2>1, <2>3
<1>7. Crypto!Orders' = Crypto!Orders /\ CrEntries' = CrEntries /\ CrExits' = CrExits
      /\ \A j \in Crypto!Orders : CrOver(j)' <=> CrOver(j)
  BY <1>3 DEF Crypto!Orders, CrEntries, CrExits, CrOver
<1>8. CrTables'
  BY <1>3, <1>6 DEF CrTables
<1>9. CrOneOpen'
  BY <1>7 DEF CrOneOpen
<1>10. CrCalls'
  BY <1>1, <1>3, <1>6, <1>7 DEF CrCalls
<1>11. CrRecords'
  <2>1. SUFFICES ASSUME NEW j \in Crypto!Orders PROVE CrRecorded(j)'
    BY <1>7 DEF CrRecords
  <2>2. CASE j = i
    BY <1>3, <1>4, <1>5, <1>6, <1>7, <2>2 DEF CrRecorded
  <2>3. CASE j # i
    BY <1>3, <1>6, <1>7, <2>3 DEF CrRecords, CrRecorded
  <2>4. QED
    BY <2>2, <2>3
<1>12. CrTrade'
  <2>1. SUFFICES ASSUME crypto_trial.observed PROVE \E j \in CrEntries : crypto_broker'[j].filled > 0
    BY <1>3, <1>7 DEF CrTrade
  <2>2. PICK j \in CrEntries : crypto_broker[j].filled > 0
    BY <2>1 DEF CrTrade
  <2>3. j # i /\ j \in Crypto!Orders
    BY <1>5, <2>2 DEF CrEntries
  <2>4. QED
    BY <1>6, <2>2, <2>3
<1> DEFINE f == Crypto!Filled
           g == Crypto!Filled'
<1>13. /\ \A j \in Crypto!Orders : f[j] \in Nat /\ (j # i => g[j] = f[j])
       /\ f[i] = 0 /\ g[i] = q
  <2>1. \A j \in Crypto!Orders : f[j] = crypto_broker[j].filled /\ f[j] \in Nat
    BY CrEach DEF CrOne, CrBroker
  <2>2. \A j \in Crypto!Orders : g[j] = crypto_broker'[j].filled
    BY <1>7 DEF Crypto!Filled
  <2>3. QED
    BY <2>1, <2>2, <1>5, <1>6
<1>14. CrLeft = Total(f, CrEntries) - Total(f, CrExits) /\ CrLeft' = Total(g, CrEntries) - Total(g, CrExits)
  BY <1>7, CrLeftIs
<1> HIDE DEF f, g
<1>15. IsFiniteSet(CrEntries) /\ IsFiniteSet(CrExits) /\ CrEntries \subseteq Crypto!Orders /\ CrExits \subseteq Crypto!Orders
  BY CrSets
<1>16. Total(f, CrEntries) \in Nat /\ Total(f, CrExits) \in Nat
  BY <1>13, <1>15, SumIsNat
\* Whatever else is open: there is nothing else.
<1>17. CrOpen' = {}
  <2>1. SUFFICES ASSUME NEW j \in CrExits, crypto_broker'[j].status \in {"absent", "live"}, ~CrOver(j) PROVE FALSE
    BY <1>7, <1>15 DEF CrOpen
  <2>2. j = i
    BY <1>5, <2>1 DEF CrOneOpen, CrExits
  <2>3. QED
    BY <1>6, <2>1, <2>2
<1>18. CASE i \in CrEntries
  <2>1. i \notin CrExits
    BY <1>18 DEF CrEntries, CrExits
  <2>2. Grown(g, f, CrEntries, i, q)
    BY <1>4, <1>13, <1>15, <1>18 DEF Grown
  <2>3. Total(g, CrEntries) = Total(f, CrEntries) + q
    BY <1>15, <2>2, SumGrows
  <2>4. \A x \in CrExits : f[x] = g[x]
    BY <1>13, <1>15, <2>1
  <2>5. Total(f, CrExits) = Total(g, CrExits)
    BY <1>15, <2>4, SumNeedsOnly
  <2>6. CrLeft' >= 0
    BY <1>4, <1>14, <1>16, <2>3, <2>5 DEF CrCover
  <2>7. QED
    BY <1>3, <1>8, <1>9, <1>10, <1>11, <1>12, <1>17, <2>6 DEF CrCover
<1>19. CASE i \notin CrEntries
  <2>1. i \in CrExits
    BY <1>4, <1>19 DEF CrEntries, CrExits, CrOne, CrRow
  <2>2. i \in CrOpen
    BY <1>1, <1>5, <2>1 DEF CrOpen
  <2>3. Grown(g, f, CrExits, i, q)
    BY <1>4, <1>13, <1>15, <2>1 DEF Grown
  <2>4. Total(g, CrExits) = Total(f, CrExits) + q
    BY <1>15, <2>3, SumGrows
  <2>5. \A x \in CrEntries : f[x] = g[x]
    BY <1>13, <1>15, <1>19
  <2>6. Total(f, CrEntries) = Total(g, CrEntries)
    BY <1>15, <2>5, SumNeedsOnly
  <2>7. CrLeft' >= 0
    BY <1>4, <1>14, <1>16, <2>2, <2>4, <2>6 DEF CrCover
  <2>8. QED
    BY <1>3, <1>8, <1>9, <1>10, <1>11, <1>12, <1>17, <2>7 DEF CrCover
<1>20. QED
  BY <1>18, <1>19

-----------------------------------------------------------------------------
(* An order is added, when every other has ended.                          *)

CrAdded(p, q) ==
  LET n == Len(crypto_orders) + 1
  IN /\ CrTables' /\ Crypto!Orders' = Crypto!Orders \cup {n} /\ n \notin Crypto!Orders
     /\ \A j \in Crypto!Orders : /\ crypto_orders'[j] = crypto_orders[j] /\ crypto_known'[j] = crypto_known[j]
                                 /\ crypto_seen'[j] = crypto_seen[j] /\ crypto_broker'[j] = crypto_broker[j]
     /\ crypto_orders'[n].purpose = p /\ crypto_orders'[n].quantity = q
     /\ crypto_orders'[n].state \notin Crypto!TERMINAL_STATES
     /\ crypto_known'[n] = 0 /\ crypto_seen'[n] = 0
     /\ crypto_broker'[n].status = "absent" /\ crypto_broker'[n].filled = 0

CrReserve(p, q) == p \in {"entry", "exit"} /\ q \in Nat /\ Crypto!Reserve(p, q)

LEMMA CrAdds == ASSUME CrTables, crypto_run \in CrRun, NEW p, NEW q, CrReserve(p, q)
                PROVE  CrAdded(p, q)
<1> DEFINE n == Len(crypto_orders) + 1
           row == [purpose |-> p, auth |-> crypto_run.auth, quantity |-> q, state |-> "reserved"]
           there == [status |-> "absent", filled |-> 0]
<1>1. /\ crypto_orders' = Append(crypto_orders, row) /\ crypto_known' = Append(crypto_known, 0)
      /\ crypto_seen' = Append(crypto_seen, 0) /\ crypto_broker' = Append(crypto_broker, there)
  BY DEF CrReserve, Crypto!Reserve
<1>2. row \in CrRow /\ there \in CrBroker
  BY DEF CrReserve, CrRow, CrBroker, CrStates, CrStatus, CrRun
<1>3. row.purpose = p /\ row.quantity = q /\ row.state \notin Crypto!TERMINAL_STATES /\ there.status = "absent" /\ there.filled = 0
  BY DEF Crypto!TERMINAL_STATES
<1> HIDE DEF row, there
<1>4. CrTables'
  BY <1>1, <1>2 DEF CrTables
<1>5. Crypto!Orders = 1..Len(crypto_orders) /\ Len(crypto_orders) \in Nat /\ Crypto!Orders' = 1..Len(crypto_orders')
  BY <1>4, CrSets DEF Crypto!Orders, CrTables
<1>6. Len(crypto_orders') = n
  BY <1>1, <1>2 DEF CrTables
<1>7. Crypto!Orders' = Crypto!Orders \cup {n} /\ n \notin Crypto!Orders
  BY <1>5, <1>6
<1>8. /\ \A j \in Crypto!Orders : crypto_orders'[j] = crypto_orders[j] /\ crypto_known'[j] = crypto_known[j]
      /\ crypto_orders'[n] = row /\ crypto_known'[n] = 0
  BY <1>1, <1>2, <1>5 DEF CrTables
<1>9. /\ \A j \in Crypto!Orders : crypto_seen'[j] = crypto_seen[j] /\ crypto_broker'[j] = crypto_broker[j]
      /\ crypto_seen'[n] = 0 /\ crypto_broker'[n] = there
  BY <1>1, <1>2, <1>5 DEF CrTables
<1>10. QED
  BY <1>3, <1>4, <1>7, <1>8, <1>9 DEF CrAdded

LEMMA CrAddedKeeps ==
  ASSUME CrInv, \A i \in Crypto!Orders : CrOver(i), NEW p \in {"entry", "exit"}, NEW q \in Nat, CrAdded(p, q),
         p = "exit" => q <= CrLeft, crypto_run' \in CrRun, UNCHANGED crypto_trial,
         crypto_task' \in CrTask, crypto_task'.order = Len(crypto_orders) + 1
  PROVE  CrInv'
<1>0. PICK n : n = Len(crypto_orders) + 1
  OBVIOUS
<1> USE <1>0 DEF CrAdded, CrInv, CrTyped
<1>1. CrEntries' = CrEntries \cup (IF p = "entry" THEN {n} ELSE {})
  BY DEF CrEntries
<1>2. CrExits' = CrExits \cup (IF p = "entry" THEN {} ELSE {n})
  BY DEF CrExits
<1>3. ~CrOver(n)' /\ \A j \in Crypto!Orders : CrOver(j)'
  BY DEF CrOver
<1>4. CrOneOpen' /\ CrCalls'
  BY <1>3 DEF CrOneOpen, CrCalls
<1>5. CrRecords'
  <2>1. SUFFICES ASSUME NEW i \in Crypto!Orders \cup {n} PROVE CrRecorded(i)'
    BY DEF CrRecords
  <2>2. CASE i \in Crypto!Orders
    BY <2>2 DEF CrRecords, CrRecorded, CrOver
  <2>3. CASE i = n
    BY <2>3, <1>3 DEF CrRecorded
  <2>4. QED
    BY <2>1, <2>2, <2>3
<1>6. CrTrade'
  <2>1. SUFFICES ASSUME crypto_trial.observed PROVE \E j \in CrEntries' : crypto_broker'[j].filled > 0
    BY DEF CrTrade
  <2>2. PICK j \in CrEntries : crypto_broker[j].filled > 0
    BY <2>1 DEF CrTrade
  <2>3. j \in CrEntries' /\ crypto_broker'[j] = crypto_broker[j]
    BY <1>1 DEF CrEntries
  <2>4. QED
    BY <2>2, <2>3
<1> DEFINE f == Crypto!Filled
           g == Crypto!Filled'
<1>7. (\A j \in Crypto!Orders : f[j] \in Nat /\ g[j] = f[j]) /\ g[n] = 0
  <2>1. \A j \in Crypto!Orders : f[j] = crypto_broker[j].filled /\ f[j] \in Nat
    BY CrEach DEF CrOne, CrBroker
  <2>2. \A j \in Crypto!Orders \cup {n} : g[j] = crypto_broker'[j].filled
    BY DEF Crypto!Filled
  <2>3. QED
    BY <2>1, <2>2
<1>8. CrLeft = Total(f, CrEntries) - Total(f, CrExits) /\ CrLeft' = Total(g, CrEntries') - Total(g, CrExits')
  BY CrLeftIs
<1> HIDE DEF f, g
<1>9. IsFiniteSet(CrEntries) /\ IsFiniteSet(CrExits) /\ CrEntries \subseteq Crypto!Orders /\ CrExits \subseteq Crypto!Orders
  BY CrSets
<1>10. \A S \in SUBSET Crypto!Orders : IsFiniteSet(S) =>
         Total(g, S) = Total(f, S) /\ Total(g, S \cup {n}) = Total(f, S) /\ Total(f, S) \in Nat
  <2>1. SUFFICES ASSUME NEW S \in SUBSET Crypto!Orders, IsFiniteSet(S)
                 PROVE  Total(g, S) = Total(f, S) /\ Total(g, S \cup {n}) = Total(f, S) /\ Total(f, S) \in Nat
    OBVIOUS
  <2>2. \A x \in S : g[x] = f[x] /\ f[x] \in Nat
    BY <1>7
  <2>3. Total(g, S) = Total(f, S)
    BY <2>1, <2>2, SumNeedsOnly
  <2>4. \A x \in S \cup {n} : g[x] \in Int
    BY <1>7, <2>2
  <2>5. n \notin S
    OBVIOUS
  <2>6. Total(g, S \cup {n}) = g[n] + Total(g, S)
    BY <2>1, <2>4, <2>5, SumAddsOne
  <2>7. Total(f, S) \in Nat
    BY <2>1, <2>2, SumIsNat
  <2>8. QED
    BY <1>7, <2>3, <2>6, <2>7
<1>11. CrLeft' = CrLeft
  <2>1. CASE p = "entry"
    <3>1. CrEntries' = CrEntries \cup {n} /\ CrExits' = CrExits
      BY <1>1, <1>2, <2>1
    <3>2. Total(g, CrEntries') = Total(f, CrEntries) /\ Total(g, CrExits') = Total(f, CrExits)
      BY <1>9, <1>10, <3>1
    <3>3. QED
      BY <1>8, <3>2
  <2>2. CASE p # "entry"
    <3>1. CrEntries' = CrEntries /\ CrExits' = CrExits \cup {n}
      BY <1>1, <1>2, <2>2
    <3>2. Total(g, CrEntries') = Total(f, CrEntries) /\ Total(g, CrExits') = Total(f, CrExits)
      BY <1>9, <1>10, <3>1
    <3>3. QED
      BY <1>8, <3>2
  <2>3. QED
    BY <2>1, <2>2
<1>12. CrOpen' \subseteq (IF p = "entry" THEN {} ELSE {n})
  BY <1>2, <1>3, <1>9 DEF CrOpen
<1>13. CrCover'
  BY <1>11, <1>12 DEF CrCover
<1>14. QED
  BY <1>4, <1>5, <1>6, <1>13

LEMMA CrEnter == ASSUME CrInv, Crypto!Enter PROVE CrInv'
<1> USE DEF CrInv, CrTyped
<1>1. UNCHANGED crypto_trial
  BY DEF Crypto!Enter
<1>2. \/ /\ \A i \in Crypto!Orders : CrOver(i)
         /\ Crypto!Reserve("entry", CryptoUnits) /\ crypto_task' = [at |-> "count", order |-> Len(crypto_orders) + 1]
         /\ UNCHANGED crypto_run
      \/ /\ crypto_run' = [crypto_run EXCEPT !.armed = FALSE] /\ crypto_task' = Crypto!Idle
         /\ UNCHANGED <<crypto_orders, crypto_known, crypto_seen, crypto_broker>>
  BY DEF Crypto!Enter, CrOver
<1>3. CASE /\ \A i \in Crypto!Orders : CrOver(i)
           /\ Crypto!Reserve("entry", CryptoUnits) /\ crypto_task' = [at |-> "count", order |-> Len(crypto_orders) + 1]
           /\ UNCHANGED crypto_run
  <2>1. CryptoUnits \in Nat /\ CrReserve("entry", CryptoUnits)
    BY <1>3, TradesAssumption DEF CrReserve
  <2>2. CrAdded("entry", CryptoUnits)
    BY <2>1, CrAdds
  <2>3. crypto_task' \in CrTask /\ crypto_task'.order = Len(crypto_orders) + 1
    BY <1>3, CrSets DEF CrTask
  <2>4. QED
    BY <1>1, <1>3, <2>1, <2>2, <2>3, CrAddedKeeps
<1>4. CASE /\ crypto_run' = [crypto_run EXCEPT !.armed = FALSE] /\ crypto_task' = Crypto!Idle
           /\ UNCHANGED <<crypto_orders, crypto_known, crypto_seen, crypto_broker>>
  <2>1. CrRowsMoved /\ CrBrokerMoved /\ CrTold
    BY <1>4, CrSame
  <2>2. crypto_run' \in CrRun
    BY <1>4, CrDisarmed
  <2>3. CrCalls' /\ CrAside
    BY <1>1, <1>4, <2>2 DEF CrCalls, CrAside, Crypto!Idle, CrTask
  <2>4. QED
    BY <1>1, <2>1, <2>3, CrStepKeeps
<1>5. QED
  BY <1>2, <1>3, <1>4

LEMMA CrClose == ASSUME CrInv, Crypto!Free, Crypto!Close PROVE CrInv'
<1> USE DEF CrInv, CrTyped
<1>1. UNCHANGED <<crypto_run, crypto_trial>> /\ crypto_task = Crypto!Idle
  BY DEF Crypto!Close, Crypto!Free
<1>2. CASE Crypto!Sellable
  <2>1. /\ Crypto!FillsAgree /\ Crypto!owned > 0 /\ \A i \in Crypto!Orders : CrOver(i)
        /\ Crypto!Reserve("exit", Crypto!owned) /\ crypto_task' = [at |-> "guard", order |-> Len(crypto_orders) + 1]
    BY <1>2 DEF Crypto!Close, Crypto!Sellable, Crypto!Busy, CrOver
  <2>2. \A i \in Crypto!Orders : /\ crypto_known[i] = Crypto!Filled[i] /\ crypto_known[i] \in Int
                                 /\ Crypto!Filled[i] = crypto_broker[i].filled
    BY <2>1, CrEach DEF CrRecords, CrRecorded, Crypto!FillsAgree, CrOne
  <2>3. Crypto!owned = Total(crypto_known, CrEntries) - Total(crypto_known, CrExits)
    BY CrSumIs DEF Crypto!owned
  <2>4. CrLeft = Total(Crypto!Filled, CrEntries) - Total(Crypto!Filled, CrExits)
    BY CrLeftIs
  <2>5. /\ Total(crypto_known, CrEntries) = Total(Crypto!Filled, CrEntries)
        /\ Total(crypto_known, CrExits) = Total(Crypto!Filled, CrExits)
    <3>1. IsFiniteSet(CrEntries) /\ IsFiniteSet(CrExits) /\ CrEntries \subseteq Crypto!Orders /\ CrExits \subseteq Crypto!Orders
      BY CrSets
    <3>2. (\A i \in CrEntries : crypto_known[i] = Crypto!Filled[i]) /\ (\A i \in CrExits : crypto_known[i] = Crypto!Filled[i])
      BY <2>2, <3>1
    <3>3. QED
      BY <3>1, <3>2, SumNeedsOnly
  <2>6. Total(crypto_known, CrEntries) \in Int /\ Total(crypto_known, CrExits) \in Int
    <3>1. IsFiniteSet(CrEntries) /\ IsFiniteSet(CrExits) /\ CrEntries \subseteq Crypto!Orders /\ CrExits \subseteq Crypto!Orders
      BY CrSets
    <3>2. (\A i \in CrEntries : crypto_known[i] \in Int) /\ (\A i \in CrExits : crypto_known[i] \in Int)
      BY <2>2, <3>1
    <3>3. QED
      BY <3>1, <3>2, SumOfInt
  <2>7. Crypto!owned \in Nat /\ Crypto!owned <= CrLeft
    BY <2>1, <2>3, <2>4, <2>5, <2>6
  <2>8. CrReserve("exit", Crypto!owned)
    BY <2>1, <2>7 DEF CrReserve
  <2>9. CrAdded("exit", Crypto!owned)
    BY <2>8, CrAdds
  <2>10. crypto_task' \in CrTask /\ crypto_task'.order = Len(crypto_orders) + 1
    BY <2>1, CrSets DEF CrTask
  <2>11. QED
    BY <1>1, <2>1, <2>7, <2>9, <2>10, CrAddedKeeps
<1>3. CASE ~Crypto!Sellable
  <2>1. UNCHANGED <<crypto_orders, crypto_known, crypto_seen, crypto_broker, crypto_task>>
    BY <1>3 DEF Crypto!Close
  <2>2. CrRowsMoved /\ CrBrokerMoved /\ CrTold
    BY <2>1, CrSame
  <2>3. CrCalls' /\ CrAside
    BY <1>1, <2>1 DEF CrCalls, CrAside, Crypto!Idle
  <2>4. QED
    BY <1>1, <2>2, <2>3, CrStepKeeps
<1>4. QED
  BY <1>2, <1>3

-----------------------------------------------------------------------------

LEMMA CrInit == Crypto!Init => CrInv
<1> SUFFICES ASSUME Crypto!Init PROVE CrInv
  OBVIOUS
<1>1. /\ crypto_orders = <<>> /\ crypto_known = <<>> /\ crypto_seen = <<>> /\ crypto_broker = <<>>
      /\ crypto_run = [armed |-> FALSE, auth |-> 0, entries |-> 0] /\ crypto_task = Crypto!Idle
      /\ crypto_trial = [entry |-> 0, observed |-> FALSE, qualified |-> FALSE]
  BY DEF Crypto!Init
<1>2. CrTables
  BY <1>1 DEF CrTables
<1>3. CrTyped
  BY <1>1, <1>2 DEF CrTyped, CrRun, CrTrial, CrTask, Crypto!Idle
<1>4. Crypto!Orders = {}
  BY <1>1 DEF Crypto!Orders
<1>5. CrEntries = {} /\ CrExits = {} /\ CrOpen = {}
  BY <1>4 DEF CrEntries, CrExits, CrOpen
<1>6. CrRecords /\ CrOneOpen /\ CrCalls /\ CrTrade
  BY <1>1, <1>4 DEF CrRecords, CrOneOpen, CrCalls, CrTrade, Crypto!Idle
<1>7. CrLeft = 0
  <2>1. IsFiniteSet({}) /\ \A x \in {} : Crypto!Filled[x] \in {0}
    BY FS_EmptySet
  <2>2. Total(Crypto!Filled, {}) = 0
    BY <2>1, SumIsZero
  <2>3. QED
    BY <1>5, <2>2, CrLeftIs
<1>8. CrCover
  BY <1>5, <1>7 DEF CrCover
<1>9. QED
  BY <1>3, <1>6, <1>8 DEF CrInv

(* Every step of the crypto engine, of the broker and of the process keeps *)
(* the records in agreement (crypto_engine.py).                            *)
THEOREM CryptoInductive == CrInv /\ [Crypto!Next]_crypto => CrInv'
<1> SUFFICES ASSUME CrInv, [Crypto!Next]_crypto PROVE CrInv'
  OBVIOUS
<1>1. CASE UNCHANGED crypto
  <2>1. /\ UNCHANGED <<crypto_orders, crypto_known, crypto_seen, crypto_broker>>
        /\ UNCHANGED <<crypto_run, crypto_trial, crypto_task>>
    BY <1>1 DEF crypto
  <2>2. CrRowsMoved /\ CrBrokerMoved /\ CrTold /\ Crypto!Orders' = Crypto!Orders /\ \A i \in Crypto!Orders : CrOver(i)' <=> CrOver(i)
    BY <2>1, CrSame
  <2>3. CrCalls' /\ CrAside
    BY <2>1, <2>2 DEF CrCalls, CrAside, CrInv, CrTyped
  <2>4. QED
    BY <2>1, <2>2, <2>3, CrStepKeeps
<1>2. CASE Crypto!Next
  <2>1. CASE Crypto!StopTouched \/ Crypto!AskExit \/ Crypto!RetryExit
    BY <2>1, CrClose DEF Crypto!StopTouched, Crypto!AskExit, Crypto!RetryExit
  <2>2. QED
    BY <1>2, <2>1, CrQuietKeeps, CrGuard, CrSubmit, CrReject, CrStatus1, CrExecution, CrReconcile, CrRestart, CrExecute,
       CrEnter, Zenon DEF Crypto!Next, CrQuiet
<1>3. QED
  BY <1>1, <1>2

(* What may still be sold never exceeds what was bought.                   *)
LEMMA CrCoverIsAll == CrInv => Crypto!NeverOversold
<1> SUFFICES ASSUME CrInv PROVE Crypto!NeverOversold
  OBVIOUS
<1> USE DEF CrInv, CrTyped
<1> DEFINE size == [i \in Crypto!Orders |-> crypto_orders[i].quantity]
<1>1. {i \in Crypto!Orders : crypto_orders[i].purpose = "exit" /\ crypto_broker[i].status \in {"absent", "live"}
                             /\ crypto_orders[i].state \notin Crypto!TERMINAL_STATES} = CrOpen
  BY DEF CrOpen, CrExits, CrOver
<1>2. CrOpen \subseteq Crypto!Orders /\ IsFiniteSet(CrOpen)
  <2>1. CrOpen \subseteq CrExits /\ CrOpen \subseteq Crypto!Orders
    BY DEF CrOpen, CrExits
  <2>2. QED
    BY <2>1, CrSets, FS_Subset
<1>3. \A i \in CrOpen : size[i] = crypto_orders[i].quantity /\ size[i] \in Nat
  BY <1>2, CrEach DEF CrOne, CrRow
<1> HIDE DEF size
<1>4. Total(size, CrOpen) <= CrLeft
  <2>1. CASE CrOpen = {}
    <3>1. \A x \in CrOpen : size[x] \in {0}
      BY <2>1
    <3>2. QED
      BY <1>2, <3>1, SumIsZero DEF CrCover
  <2>2. CASE CrOpen # {}
    <3>1. PICK i \in CrOpen : TRUE
      BY <2>2
    <3>2. CrOpen \ {i} = {}
      BY <1>2, <3>1 DEF CrOpen, CrOneOpen
    <3>3. \A x \in CrOpen : size[x] \in Int
      BY <1>3
    <3>4. Total(size, CrOpen) = size[i] + Total(size, CrOpen \ {i})
      BY <1>2, <3>1, <3>3, SumTakesOne
    <3>5. Total(size, {}) = 0
      <4>1. IsFiniteSet({}) /\ \A x \in {} : size[x] \in {0}
        BY FS_EmptySet
      <4>2. QED
        BY <4>1, SumIsZero
    <3>6. Total(size, CrOpen) = size[i] + 0
      BY <3>2, <3>4, <3>5
    <3>7. CrLeft >= crypto_orders[i].quantity
      BY <3>1 DEF CrCover
    <3>8. size[i] = crypto_orders[i].quantity /\ size[i] \in Nat
      BY <1>3, <3>1
    <3>9. QED
      BY <3>6, <3>7, <3>8
  <2>3. QED
    BY <2>1, <2>2
<1>5. Crypto!SumOver(CrOpen, size) = Total(size, CrOpen)
  BY DEF Crypto!SumOver, Total, Crypto!MapThenSumSet, Crypto!MapThenFoldSet, MapThenSumSet, MapThenFoldSet
<1>6. QED
  BY <1>1, <1>4, <1>5 DEF Crypto!NeverOversold, CrLeft, size, CrCover

\* Only a reconciliation qualifies.
LEMMA CrSteps == CrInv /\ [Crypto!Next]_crypto => Crypto!QualifiedByTrade
<1> SUFFICES ASSUME CrInv, [Crypto!Next]_crypto PROVE Crypto!QualifiedByTrade
  OBVIOUS
<1>1. ASSUME crypto_trial' = crypto_trial PROVE Crypto!QualifiedByTrade
  BY <1>1 DEF Crypto!QualifiedByTrade
<1>2. CASE Crypto!Reconcile
  BY <1>2, CrReconcile
<1>3. CASE \/ Crypto!Arm \/ Crypto!Disarm \/ Crypto!Candle \/ Crypto!Expire \/ Crypto!Cross \/ Crypto!Enter \/ Crypto!Count
           \/ Crypto!Guard \/ Crypto!Submit \/ Crypto!Execute \/ Crypto!Reject \/ Crypto!Status \/ Crypto!Execution
           \/ Crypto!StopTouched \/ Crypto!AskExit \/ Crypto!RetryExit \/ Crypto!Quotes \/ Crypto!Restart
           \/ UNCHANGED crypto
  <2>1. crypto_trial' = crypto_trial
    BY <1>3 DEF Crypto!Arm, Crypto!Disarm, Crypto!Candle, Crypto!Expire, Crypto!Cross, Crypto!Enter, Crypto!Count,
         Crypto!Guard, Crypto!Submit, Crypto!Execute, Crypto!Reject, Crypto!Status, Crypto!Execution, Crypto!Close,
         Crypto!StopTouched, Crypto!AskExit, Crypto!RetryExit, Crypto!Quotes, Crypto!Restart, crypto
  <2>2. QED
    BY <1>1, <2>1
<1>4. QED
  BY <1>2, <1>3, Zenon DEF Crypto!Next

-----------------------------------------------------------------------------
(* Stock.  Amendments are only sent for an entry that has ended, and while *)
(* one is under way the child does not fit: so what waits is not what the  *)
(* fills call for, or it is the one amendment that is.                     *)

StLine   == [quantity : Int, stop : Int]
StChild  == [status : {"absent", "PreSubmitted", "Submitted", "Filled", "Cancelled"}, quantity : Int, stop : Int,
             filled : Nat]
StBroker == [status : {"absent", "live", "filled", "cancelled"}, bought : Nat, paid : Nat, cancelling : BOOLEAN,
             child : StChild]
StRun    == [armed : BOOLEAN, auth : Nat, entries : Nat]
StMarket == [binding : BOOLEAN, open : BOOLEAN, fresh : BOOLEAN, funds : {"ready", "checking", "short"}]
StEntry  == [state : {"none", "working", "cancel_pending", "filled", "cancelled"}, quantity : Int, auth : Nat,
             notional : Nat]
StFills  == [bought : Nat, paid : Nat, sold : Nat]
StLink   == [agreement : BOOLEAN, reconciled : BOOLEAN]
StTrial  == [protected : BOOLEAN, qualified : BOOLEAN]
StTyped ==
  /\ stock_run \in StRun /\ stock_market \in StMarket /\ stock_entry \in StEntry /\ stock_known \in StFills
  /\ stock_broker \in StBroker /\ stock_wire \in Seq(StLine) /\ stock_amendment \in StLine
  /\ stock_link \in StLink /\ stock_trial \in StTrial

StStop == Stock!Stop(Stock!Truth)
StLeft == stock_broker.bought - stock_broker.child.filled
StDone == stock_broker.status \in {"filled", "cancelled"}
\* The child is of all that was bought, at the price of it.
StFits == stock_broker.child.quantity = stock_broker.bought /\ stock_broker.child.stop = StStop

\* What is known is of this entry, and never more than the broker did.
StKnown ==
  /\ stock_known.bought <= stock_broker.bought /\ stock_known.paid <= stock_broker.paid
  /\ stock_known.sold <= stock_broker.child.filled
  /\ stock_broker.child.filled <= stock_broker.bought
  /\ stock_broker.status = "absent" => stock_broker.bought = 0
\* An amendment is at the price of the fills, and of no fewer shares than are left of them.
StSized(a) == a.stop = StStop /\ StLeft <= a.quantity /\ a.quantity <= stock_broker.bought
StRecorded == stock_amendment # Stock!None => StSized(stock_amendment) /\ StDone
StUnderWay == stock_wire # <<>> => StDone /\ ~StFits /\ stock_amendment # Stock!None
StWire ==
  \A k \in 1..Len(stock_wire) :
    /\ StSized(stock_wire[k])
    /\ stock_wire[k] = stock_amendment \/ stock_wire[k].quantity # stock_broker.bought
    /\ Len(stock_wire) > 1 => stock_wire[k].quantity # stock_broker.bought
\* What the engine holds for true.
StReconciled ==
  stock_link.reconciled =>
    /\ stock_known.bought - stock_known.sold > 0 =>
         /\ StDone /\ StFits
         /\ stock_broker.child.status \in Stock!ACTIVE \/ stock_known.sold < stock_broker.child.filled
    /\ stock_entry.state \in Stock!Finished =>
         stock_broker.status # "live" /\ stock_known.bought = stock_broker.bought
StBound == stock_run.armed => stock_market.binding
StTrade == stock_trial.protected => stock_broker.bought > 0
StInv ==
  /\ StTyped /\ StKnown /\ StRecorded /\ StUnderWay /\ StWire /\ StReconciled /\ StBound /\ StTrade
  /\ Stock!ExposureIsReserved

LEMMA StStopSame ==
  ASSUME stock_broker'.bought = stock_broker.bought, stock_broker'.paid = stock_broker.paid PROVE StStop' = StStop
  BY DEF StStop, Stock!Stop, Stock!Truth

LEMMA StStopInt == ASSUME StTyped, stock_broker.bought > 0 PROVE StStop \in Int
<1>1. stock_broker.bought \in Nat /\ stock_broker.paid \in Nat
  BY DEF StTyped, StBroker
<1>2. StStop = (2 * stock_broker.paid) \div stock_broker.bought
  BY DEF StStop, Stock!Stop, Stock!Truth
<1>3. QED
  BY <1>1, <1>2

LEMMA StTruthIs == StTyped => /\ Stock!Truth \in StFills /\ Stock!Truth.bought = stock_broker.bought
                              /\ Stock!Truth.paid = stock_broker.paid /\ Stock!Truth.sold = stock_broker.child.filled
                              /\ Stock!Owned(Stock!Truth) = StLeft
  BY DEF StTyped, StBroker, StChild, StFills, Stock!Truth, Stock!Owned, StLeft

\* The broker and what is known of it stay, the engine may lose its view.
LEMMA StAside ==
  ASSUME StInv, UNCHANGED <<stock_broker, stock_known, stock_wire, stock_amendment>>,
         stock_run' \in StRun, stock_market' \in StMarket, StBound',
         stock_link' \in StLink, stock_link'.reconciled => stock_link.reconciled /\ stock_entry' = stock_entry,
         stock_entry' \in StEntry, stock_entry'.notional = stock_entry.notional,
         stock_trial' \in StTrial, stock_trial'.protected => stock_trial.protected
  PROVE  StInv'
<1> USE DEF StInv
<1>1. StStop' = StStop /\ StLeft' = StLeft /\ (StDone' <=> StDone) /\ (StFits' <=> StFits)
  BY StStopSame DEF StLeft, StDone, StFits
<1>2. StTyped'
  BY DEF StTyped
<1>3. StKnown' /\ StRecorded' /\ StUnderWay' /\ StTrade'
  BY <1>1 DEF StKnown, StRecorded, StUnderWay, StTrade, StSized
<1>4. StWire'
  BY <1>1 DEF StWire, StSized
<1>5. StReconciled'
  BY <1>1 DEF StReconciled
<1>6. Stock!ExposureIsReserved'
  BY DEF Stock!ExposureIsReserved, Stock!Owned
<1>7. QED
  BY <1>2, <1>3, <1>4, <1>5, <1>6

LEMMA StDisarmed == ASSUME stock_run \in StRun
                    PROVE  Stock!Disarmed(stock_run) \in StRun /\ ~Stock!Disarmed(stock_run).armed
                           /\ Stock!Disarmed(stock_run).entries = stock_run.entries
  BY DEF StRun, Stock!Disarmed

StQuiet == \/ Stock!RulesChange \/ Stock!Bind \/ Stock!MarketMoves \/ Stock!Arm \/ Stock!Candle \/ Stock!Expire
           \/ Stock!Status \/ UNCHANGED stock

LEMMA StQuietKeeps == ASSUME StInv, StQuiet PROVE StInv'
<1> USE DEF StInv, StTyped
<1>1. CASE Stock!RulesChange
  <2>1. stock_market' \in StMarket /\ StBound' /\ stock_run' \in StRun
    BY <1>1, StDisarmed DEF Stock!RulesChange, StMarket, StBound
  <2>2. QED
    BY <1>1, <2>1, StAside DEF Stock!RulesChange
<1>2. CASE Stock!Bind
  <2>1. stock_market' \in StMarket /\ StBound' /\ stock_trial' \in StTrial /\ stock_trial'.protected = stock_trial.protected
    BY <1>2 DEF Stock!Bind, StMarket, StBound, StTrial
  <2>2. QED
    BY <1>2, <2>1, StAside DEF Stock!Bind
<1>3. CASE Stock!MarketMoves
  <2>1. stock_market' \in StMarket /\ stock_market'.binding = stock_market.binding
    <3>1. CASE stock_market' = [stock_market EXCEPT !.open = ~@]
      BY <3>1 DEF StMarket
    <3>2. CASE stock_market' = [stock_market EXCEPT !.fresh = ~@]
      BY <3>2 DEF StMarket
    <3>3. ASSUME NEW f \in {"ready", "checking", "short"}, stock_market' = [stock_market EXCEPT !.funds = f]
          PROVE  stock_market' \in StMarket /\ stock_market'.binding = stock_market.binding
      BY <3>3 DEF StMarket
    <3>4. QED
      BY <1>3, <3>1, <3>2, <3>3 DEF Stock!MarketMoves
  <2>2. StBound'
    BY <1>3, <2>1 DEF Stock!MarketMoves, StBound
  <2>3. QED
    BY <1>3, <2>1, <2>2, StAside DEF Stock!MarketMoves
<1>4. CASE Stock!Arm
  <2>1. stock_run' \in StRun /\ StBound'
    BY <1>4 DEF Stock!Arm, Stock!Checks, Stock!Compatible, StRun, StBound
  <2>2. QED
    BY <1>4, <2>1, StAside DEF Stock!Arm
<1>5. CASE Stock!Candle \/ Stock!Expire \/ UNCHANGED stock
  <2>1. UNCHANGED <<stock_run, stock_market, stock_entry, stock_amendment, stock_known, stock_broker, stock_wire,
                    stock_link, stock_trial>>
    BY <1>5 DEF Stock!Candle, Stock!Expire, stock
  <2>2. StBound'
    BY <2>1 DEF StBound
  <2>3. QED
    BY <2>1, <2>2, StAside
<1>6. CASE Stock!Status
  <2>1. Stock!Projected \in {"none", "working", "cancel_pending", "filled", "cancelled"}
    BY DEF Stock!Projected, StEntry, StBroker
  <2>2. stock_entry' \in StEntry /\ stock_entry'.notional = stock_entry.notional
    BY <1>6, <2>1 DEF Stock!Status, StEntry
  <2>3. stock_link' \in StLink /\ ~stock_link'.reconciled
    BY <1>6 DEF Stock!Status, StLink
  <2>4. StBound'
    BY <1>6 DEF Stock!Status, StBound
  <2>5. QED
    BY <1>6, <2>2, <2>3, <2>4, StAside DEF Stock!Status
<1>7. QED
  BY <1>1, <1>2, <1>3, <1>4, <1>5, <1>6 DEF StQuiet

-----------------------------------------------------------------------------
(* Stock: the broker.                                                      *)

\* What the engine has does not change with the broker.
StEngineSame == UNCHANGED <<stock_run, stock_market, stock_entry, stock_known, stock_amendment, stock_link, stock_trial>>

LEMMA StEngineKeeps ==
  ASSUME StInv, StEngineSame, stock_broker' \in StBroker, stock_wire' \in Seq(StLine),
         StKnown', StRecorded', StUnderWay', StWire', StReconciled', StTrade'
  PROVE  StInv'
<1>1. StTyped'
  BY DEF StInv, StTyped, StEngineSame
<1>2. StBound' /\ Stock!ExposureIsReserved'
  BY DEF StInv, StEngineSame, StBound, Stock!ExposureIsReserved, Stock!Owned
<1>3. QED
  BY <1>1, <1>2 DEF StInv

\* While the entry is live nothing was amended, and the engine does not hold it for ended.
LEMMA StWhileLive ==
  ASSUME StInv, stock_broker.status = "live"
  PROVE  /\ stock_wire = <<>> /\ stock_amendment = Stock!None
         /\ stock_link.reconciled => /\ ~(stock_known.bought - stock_known.sold > 0)
                                     /\ stock_entry.state \notin Stock!Finished
  BY DEF StInv, StUnderWay, StRecorded, StDone, StReconciled

LEMMA StLiveKeeps ==
  ASSUME StInv, stock_broker.status = "live", StEngineSame, stock_wire' = stock_wire, stock_broker' \in StBroker,
         StKnown', stock_broker'.bought >= stock_broker.bought
  PROVE  StInv'
<1>1. stock_wire = <<>> /\ stock_amendment = Stock!None
      /\ (stock_link.reconciled => ~(stock_known.bought - stock_known.sold > 0) /\ stock_entry.state \notin Stock!Finished)
  BY StWhileLive
<1>2. StRecorded' /\ StUnderWay'
  BY <1>1 DEF StRecorded, StUnderWay, StEngineSame
<1>3. StWire'
  BY <1>1 DEF StWire
<1>4. StReconciled'
  BY <1>1 DEF StReconciled, StEngineSame
<1>5. StTrade'
  <2>1. stock_broker.bought \in Nat /\ stock_broker'.bought \in Nat
    BY DEF StInv, StTyped, StBroker
  <2>2. QED
    BY <2>1 DEF StInv, StTrade, StEngineSame
<1>6. stock_wire' \in Seq(StLine)
  BY DEF StInv, StTyped
<1>7. QED
  BY <1>2, <1>3, <1>4, <1>5, <1>6, StEngineKeeps

LEMMA StFill == ASSUME StInv, StockPrices \subseteq Nat, Stock!Fill PROVE StInv'
<1> USE DEF StInv, StTyped
<1>1. PICK p \in StockPrices :
        stock_broker' = [stock_broker EXCEPT !.bought = @ + 1, !.paid = @ + p,
           !.status = IF stock_broker.bought + 1 = stock_entry.quantity THEN "filled" ELSE @]
  BY DEF Stock!Fill
<1>2. stock_broker.status = "live" /\ StEngineSame /\ stock_wire' = stock_wire /\ p \in Nat
  BY DEF Stock!Fill, StEngineSame
<1>3. PICK s \in {"live", "filled"} : s = IF stock_broker.bought + 1 = stock_entry.quantity THEN "filled" ELSE stock_broker.status
  BY <1>2
<1>4. /\ stock_broker' \in StBroker /\ stock_broker'.bought = stock_broker.bought + 1
      /\ stock_broker'.paid = stock_broker.paid + p /\ stock_broker'.child = stock_broker.child
      /\ stock_broker'.status = s
  <2>1. stock_broker' = [stock_broker EXCEPT !.bought = @ + 1, !.paid = @ + p, !.status = s]
    BY <1>1, <1>3
  <2>2. stock_broker.bought + 1 \in Nat /\ stock_broker.paid + p \in Nat
    BY <1>2 DEF StBroker
  <2>3. QED
    BY <2>1, <2>2 DEF StBroker
<1>5. StKnown'
  BY <1>2, <1>3, <1>4 DEF StKnown, StBroker, StChild, StFills, StEngineSame
<1>6. stock_broker'.bought >= stock_broker.bought
  BY <1>4 DEF StBroker
<1>7. QED
  BY <1>2, <1>4, <1>5, <1>6, StLiveKeeps

LEMMA StCancelled == ASSUME StInv, Stock!Cancelled PROVE StInv'
<1> USE DEF StInv, StTyped
<1>1. PICK q \in {stock_broker.bought, stock_broker.child.quantity} :
        stock_broker' = [stock_broker EXCEPT !.status = "cancelled", !.child.quantity = q,
                           !.child.status = IF stock_broker.bought = 0 THEN "Cancelled" ELSE @]
  BY DEF Stock!Cancelled
<1>2. stock_broker.status = "live" /\ StEngineSame /\ stock_wire' = stock_wire
  BY DEF Stock!Cancelled, StEngineSame
<1>3. PICK s : s = IF stock_broker.bought = 0 THEN "Cancelled" ELSE stock_broker.child.status
  OBVIOUS
<1>4. q \in Int /\ s \in {"absent", "PreSubmitted", "Submitted", "Filled", "Cancelled"}
  BY <1>3 DEF StBroker, StChild
<1>5. /\ stock_broker' \in StBroker /\ stock_broker'.bought = stock_broker.bought
      /\ stock_broker'.paid = stock_broker.paid /\ stock_broker'.child.filled = stock_broker.child.filled
      /\ stock_broker'.status = "cancelled"
  BY <1>1, <1>3, <1>4 DEF StBroker, StChild
<1>6. StKnown'
  BY <1>2, <1>5 DEF StKnown, StEngineSame
<1>7. stock_broker'.bought >= stock_broker.bought
  BY <1>5 DEF StBroker
<1>8. QED
  BY <1>2, <1>5, <1>6, <1>7, StLiveKeeps

LEMMA StStopFills == ASSUME StInv, Stock!StopFills PROVE StInv'
<1> USE DEF StInv, StTyped
<1>1. /\ stock_broker.child.status \in Stock!ACTIVE /\ StLeft > 0
      /\ stock_broker' = [stock_broker EXCEPT !.child.filled = @ + 1,
            !.child.status = IF stock_broker.child.filled + 1 = stock_broker.child.quantity THEN "Filled" ELSE @]
      /\ StEngineSame /\ stock_wire' = stock_wire
  BY StTruthIs DEF Stock!StopFills, StEngineSame
<1>2. PICK s : s = IF stock_broker.child.filled + 1 = stock_broker.child.quantity THEN "Filled" ELSE stock_broker.child.status
  OBVIOUS
<1>3. s \in {"absent", "PreSubmitted", "Submitted", "Filled", "Cancelled"}
  BY <1>2 DEF StBroker, StChild
<1>4. stock_broker.child.filled \in Nat /\ stock_broker.bought \in Nat /\ stock_known.sold \in Nat /\ stock_broker.child.quantity \in Int
  BY DEF StBroker, StChild, StFills
<1>5. /\ stock_broker' \in StBroker /\ stock_broker'.bought = stock_broker.bought
      /\ stock_broker'.paid = stock_broker.paid /\ stock_broker'.status = stock_broker.status
      /\ stock_broker'.child.filled = stock_broker.child.filled + 1
      /\ stock_broker'.child.quantity = stock_broker.child.quantity
      /\ stock_broker'.child.stop = stock_broker.child.stop
  <2>1. stock_broker' = [stock_broker EXCEPT !.child.filled = @ + 1, !.child.status = s]
    BY <1>1, <1>2
  <2>2. stock_broker.child.filled + 1 \in Nat
    BY <1>4
  <2>3. QED
    BY <1>3, <2>1, <2>2 DEF StBroker, StChild
<1>6. StStop' = StStop /\ StLeft' = StLeft - 1 /\ (StDone' <=> StDone) /\ (StFits' <=> StFits) /\ StLeft \in Int
  BY <1>4, <1>5, StStopSame DEF StLeft, StDone, StFits
<1>7. StKnown'
  BY <1>1, <1>4, <1>5 DEF StKnown, StEngineSame, StLeft
<1>8. \A a \in StLine : StSized(a) => StSized(a)'
  BY <1>4, <1>5, <1>6 DEF StSized, StLine
<1>9. StRecorded' /\ StUnderWay'
  BY <1>1, <1>6, <1>8 DEF StRecorded, StUnderWay, StEngineSame, StSized
<1>10. StWire'
  <2>1. \A k \in 1..Len(stock_wire) : stock_wire[k] \in StLine
    OBVIOUS
  <2>2. QED
    BY <1>1, <1>5, <1>8, <2>1 DEF StWire, StEngineSame, StSized
<1>11. StReconciled'
  <2>1. stock_known.sold < stock_broker'.child.filled
    BY <1>4, <1>5 DEF StKnown
  <2>2. QED
    BY <1>1, <1>5, <1>6, <2>1 DEF StReconciled, StEngineSame
<1>12. StTrade'
  BY <1>1, <1>5 DEF StTrade, StEngineSame
<1>13. QED
  BY <1>1, <1>5, <1>7, <1>9, <1>10, <1>11, <1>12, StEngineKeeps

LEMMA StAmended == ASSUME StInv, Stock!Amended PROVE StInv'
<1> USE DEF StInv, StTyped
<1>1. stock_wire # <<>> /\ stock_wire' = Tail(stock_wire) /\ StEngineSame
  BY DEF Stock!Amended, StEngineSame
<1>2. StDone /\ ~StFits /\ stock_amendment # Stock!None
  BY <1>1 DEF StUnderWay
<1>3. PICK h : h = Head(stock_wire)
  OBVIOUS
<1>4. /\ Len(stock_wire) \in Nat /\ Len(stock_wire) >= 1 /\ h = stock_wire[1] /\ h \in StLine
      /\ stock_wire' \in Seq(StLine) /\ Len(stock_wire') = Len(stock_wire) - 1
      /\ \A k \in 1..Len(stock_wire') : k + 1 \in 1..Len(stock_wire) /\ stock_wire'[k] = stock_wire[k + 1]
  BY <1>1, <1>3
<1>5. /\ StSized(h) /\ (Len(stock_wire) > 1 => h.quantity # stock_broker.bought)
  BY <1>4 DEF StWire
<1>6. /\ stock_broker' \in StBroker /\ stock_broker'.bought = stock_broker.bought
      /\ stock_broker'.paid = stock_broker.paid /\ stock_broker'.status = stock_broker.status
      /\ stock_broker'.child.filled = stock_broker.child.filled
      /\ stock_broker' = stock_broker \/ stock_broker'.child.quantity = h.quantity
  <2>1. CASE stock_broker.child.status \in Stock!ACTIVE
    <3>1. PICK s : s = IF h.quantity <= stock_broker.child.filled THEN "Filled" ELSE stock_broker.child.status
      OBVIOUS
    <3>2. s \in {"absent", "PreSubmitted", "Submitted", "Filled", "Cancelled"} /\ h.quantity \in Int /\ h.stop \in Int
      BY <1>4, <3>1 DEF StBroker, StChild, StLine
    <3>3. stock_broker' = [stock_broker EXCEPT !.child.quantity = h.quantity, !.child.stop = h.stop, !.child.status = s]
      BY <1>3, <2>1, <3>1 DEF Stock!Amended
    <3>4. QED
      BY <3>2, <3>3 DEF StBroker, StChild
  <2>2. CASE stock_broker.child.status \notin Stock!ACTIVE
    BY <2>2 DEF Stock!Amended
  <2>3. QED
    BY <2>1, <2>2
<1>7. StStop' = StStop /\ StLeft' = StLeft /\ (StDone' <=> StDone)
  BY <1>6, StStopSame DEF StLeft, StDone
<1>8. StKnown' /\ StTrade' /\ StRecorded'
  BY <1>1, <1>6, <1>7 DEF StKnown, StEngineSame, StTrade, StRecorded, StSized
<1>9. StUnderWay'
  <2>1. SUFFICES ASSUME stock_wire' # <<>> PROVE StUnderWay'
    BY DEF StUnderWay
  <2>2. Len(stock_wire) > 1
    BY <1>4, <2>1
  <2>3. ~StFits'
    BY <1>2, <1>5, <1>6, <1>7, <2>2 DEF StFits
  <2>4. QED
    BY <1>1, <1>2, <1>7, <2>3 DEF StUnderWay, StEngineSame
<1>10. StWire'
  <2>1. SUFFICES ASSUME NEW k \in 1..Len(stock_wire')
                 PROVE  /\ StSized(stock_wire[k + 1]) /\ stock_wire'[k] = stock_wire[k + 1]
                        /\ stock_wire[k + 1] = stock_amendment \/ stock_wire[k + 1].quantity # stock_broker.bought
                        /\ stock_wire[k + 1].quantity # stock_broker.bought
    BY <1>1, <1>6, <1>7 DEF StWire, StSized, StEngineSame
  <2>2. k + 1 \in 1..Len(stock_wire) /\ Len(stock_wire) > 1
    BY <1>4, <2>1
  <2>3. QED
    BY <1>4, <2>1, <2>2 DEF StWire
<1>11. StReconciled'
  BY <1>1, <1>2, <1>6 DEF StReconciled, StEngineSame
<1>12. QED
  BY <1>1, <1>4, <1>6, <1>8, <1>9, <1>10, <1>11, StEngineKeeps

-----------------------------------------------------------------------------
(* Stock: what the engine is told, and does about it.                      *)

LEMMA StCrossing ==
  ASSUME StInv, StockShares \in Nat \ {0}, Stock!Crossing
  PROVE  StInv' /\ (stock_run'.entries > stock_run.entries =>
                      /\ stock_run.armed /\ stock_entry'.auth = stock_trigger.auth /\ Stock!Checks
                      /\ stock_entry.state \in Stock!Finished /\ stock_link.reconciled
                      /\ stock_known.bought - stock_known.sold = 0)
<1> USE DEF StInv, StTyped
<1>1. \/ /\ stock_run' \in {stock_run, Stock!Disarmed(stock_run)}
         /\ UNCHANGED <<stock_entry, stock_plan, stock_amendment, stock_known, stock_broker, stock_wire, stock_link, stock_trial>>
      \/ /\ Stock!Enter /\ stock_link.reconciled /\ stock_market.fresh /\ stock_market.funds \notin {"short", "checking"}
         /\ stock_entry.state \in Stock!Finished
  BY DEF Stock!Crossing, StMarket
<1>2. /\ stock_market' = stock_market /\ stock_market.open /\ stock_known.bought - stock_known.sold = 0
      /\ stock_run.armed /\ stock_run.entries = 0 /\ stock_trigger.auth = stock_run.auth
  BY DEF Stock!Crossing, Stock!Owned, Stock!Watched
<1>3. ASSUME stock_run' \in {stock_run, Stock!Disarmed(stock_run)},
             UNCHANGED <<stock_entry, stock_plan, stock_amendment, stock_known, stock_broker, stock_wire, stock_link, stock_trial>>
      PROVE  StInv' /\ ~(stock_run'.entries > stock_run.entries)
  <2>1. stock_run' \in StRun /\ StBound' /\ stock_run'.entries = stock_run.entries
    BY <1>2, <1>3, StDisarmed DEF StBound
  <2>2. StInv'
    BY <1>2, <1>3, <2>1, StAside
  <2>3. stock_run.entries \in Nat
    BY DEF StRun
  <2>4. QED
    BY <2>1, <2>2, <2>3
<1>4. ASSUME Stock!Enter PROVE StInv' /\ stock_entry'.auth = stock_run.auth
  <2>1. Stock!Size \in Nat
    BY DEF Stock!Size
  <2>2. /\ stock_broker' = [status |-> "live", bought |-> 0, paid |-> 0, cancelling |-> FALSE,
                            child |-> [status |-> "PreSubmitted", quantity |-> Stock!Size, stop |-> 2, filled |-> 0]]
        /\ stock_entry' = [state |-> "working", quantity |-> Stock!Size, auth |-> stock_run.auth, notional |-> Stock!Size]
        /\ stock_amendment' = Stock!None /\ stock_known' = Stock!NoFills /\ stock_wire' = <<>>
        /\ stock_trial' = [stock_trial EXCEPT !.protected = FALSE]
        /\ stock_link' = [stock_link EXCEPT !.reconciled = FALSE]
        /\ stock_run' = [stock_run EXCEPT !.entries = 1]
    BY <1>4 DEF Stock!Enter
  <2>3. stock_broker' \in StBroker
    BY <2>1, <2>2 DEF StBroker, StChild
  <2>4. stock_entry' \in StEntry /\ stock_entry'.auth = stock_run.auth
    BY <2>1, <2>2 DEF StEntry, StRun
  <2>5. stock_run' \in StRun /\ stock_run'.armed = stock_run.armed /\ stock_trial' \in StTrial /\ stock_trial'.protected = FALSE
        /\ stock_link' \in StLink /\ stock_link'.reconciled = FALSE
    BY <2>2 DEF StRun, StTrial, StLink
  <2>6. stock_known' \in StFills /\ stock_amendment' \in StLine /\ stock_wire' \in Seq(StLine)
    BY <2>2 DEF StFills, StLine, Stock!None, Stock!NoFills
  <2>7. StTyped'
    BY <1>2, <2>3, <2>4, <2>5, <2>6
  <2>8. StKnown'
    BY <2>2 DEF StKnown, Stock!NoFills
  <2>9. StRecorded' /\ StUnderWay'
    BY <2>2 DEF StRecorded, StUnderWay
  <2>10. StWire'
    BY <2>2 DEF StWire
  <2>11. StReconciled' /\ StTrade' /\ StBound'
    BY <1>2, <2>5 DEF StReconciled, StTrade, StBound
  <2>12. Stock!ExposureIsReserved'
    BY <2>2 DEF Stock!ExposureIsReserved, Stock!Owned, Stock!NoFills
  <2>13. QED
    BY <2>4, <2>7, <2>8, <2>9, <2>10, <2>11, <2>12
<1>5. stock_market.binding
  BY <1>2 DEF StBound
<1>6. CASE Stock!Enter /\ stock_link.reconciled /\ stock_market.fresh /\ stock_market.funds \notin {"short", "checking"}
           /\ stock_entry.state \in Stock!Finished
  <2>1. Stock!Checks
    BY <1>2, <1>5, <1>6 DEF Stock!Checks, Stock!Compatible, Stock!Funded, StMarket
  <2>2. QED
    BY <1>2, <1>4, <1>6, <2>1
<1>7. QED
  BY <1>1, <1>3, <1>6

\* What is reserved for what is known.
LEMMA StReserved ==
  ASSUME StTyped, NEW e \in StEntry, NEW f \in StFills
  PROVE  /\ Stock!Reserved(f, e) \in StEntry /\ Stock!Reserved(f, e).state = e.state
         /\ Stock!Reserved(f, e).quantity = e.quantity /\ Stock!Reserved(f, e).auth = e.auth
         /\ f.bought - f.sold > 0 => f.paid <= Stock!Reserved(f, e).notional
<1>1. PICK n : n = IF Stock!Owned(f) > 0 /\ f.paid > e.notional THEN f.paid ELSE e.notional
  OBVIOUS
<1>2. f.paid \in Nat /\ e.notional \in Nat /\ f.bought \in Nat /\ f.sold \in Nat
  BY DEF StFills, StEntry
<1>3. n \in Nat /\ (f.bought - f.sold > 0 => f.paid <= n)
  BY <1>1, <1>2 DEF Stock!Owned
<1>4. Stock!Reserved(f, e) = [e EXCEPT !.notional = n]
  BY <1>1 DEF Stock!Reserved
<1>5. QED
  BY <1>3, <1>4 DEF StEntry

LEMMA StCancelling ==
  ASSUME NEW e \in StEntry, NEW f
  PROVE  /\ Stock!Cancelling(f, e) \in StEntry /\ Stock!Cancelling(f, e).notional = e.notional
         /\ Stock!Cancelling(f, e).auth = e.auth
         /\ Stock!Cancelling(f, e).state \in {e.state, "cancel_pending"}
  BY DEF Stock!Cancelling, StEntry

\* The view is of the broker as it is: nothing of the broker changes but that it may be asked to cancel.
StSame ==
  /\ stock_known' = Stock!Truth /\ stock_broker' \in StBroker
  /\ stock_broker'.bought = stock_broker.bought /\ stock_broker'.paid = stock_broker.paid
  /\ stock_broker'.status = stock_broker.status /\ stock_broker'.child = stock_broker.child

LEMMA StCancels ==
  ASSUME StTyped, NEW b, stock_broker' = [stock_broker EXCEPT !.cancelling = @ \/ b], stock_known' = Stock!Truth,
         b \in BOOLEAN
  PROVE  StSame
<1>1. PICK c \in BOOLEAN : c = (stock_broker.cancelling \/ b)
  BY DEF StTyped, StBroker
<1>2. stock_broker' = [stock_broker EXCEPT !.cancelling = c]
  BY <1>1
<1>3. QED
  BY <1>2 DEF StTyped, StBroker, StSame

LEMMA StSameKeeps ==
  ASSUME StInv, StSame
  PROVE  /\ StKnown' /\ stock_known' \in StFills /\ StStop' = StStop /\ StLeft' = StLeft
         /\ (StDone' <=> StDone) /\ (StFits' <=> StFits)
         /\ stock_known'.bought = stock_broker.bought /\ stock_known'.paid = stock_broker.paid
         /\ stock_known'.sold = stock_broker.child.filled
<1> USE DEF StInv, StTyped
<1>1. StStop' = StStop /\ StLeft' = StLeft /\ (StDone' <=> StDone) /\ (StFits' <=> StFits)
  BY StStopSame DEF StSame, StLeft, StDone, StFits
<1>2. /\ stock_known' \in StFills /\ stock_known'.bought = stock_broker.bought /\ stock_known'.paid = stock_broker.paid
      /\ stock_known'.sold = stock_broker.child.filled
  BY StTruthIs DEF StSame
<1>3. StKnown'
  <2>1. stock_broker.bought \in Nat /\ stock_broker.paid \in Nat /\ stock_broker.child.filled \in Nat
    BY DEF StBroker, StChild
  <2>2. QED
    BY <1>2, <2>1 DEF StKnown, StSame
<1>4. QED
  BY <1>1, <1>2, <1>3

LEMMA StExecution == ASSUME StInv, Stock!Execution PROVE StInv'
<1> USE DEF StInv, StTyped
<1>1. /\ stock_known' = Stock!Truth /\ stock_link' = [agreement |-> FALSE, reconciled |-> FALSE]
      /\ stock_entry' = Stock!Cancelling(Stock!Truth, Stock!Reserved(Stock!Truth, stock_entry))
      /\ UNCHANGED <<stock_run, stock_market, stock_amendment, stock_wire, stock_trial>>
  BY DEF Stock!Execution
<1>2. StSame
  <2>1. Stock!Remainder(Stock!Truth, stock_entry) \in BOOLEAN
    BY DEF Stock!Remainder
  <2>2. QED
    BY <1>1, <2>1, StCancels DEF Stock!Execution
<1>3. /\ StKnown' /\ stock_known' \in StFills /\ StStop' = StStop /\ StLeft' = StLeft
      /\ (StDone' <=> StDone) /\ (StFits' <=> StFits)
      /\ stock_known'.bought = stock_broker.bought /\ stock_known'.paid = stock_broker.paid
      /\ stock_known'.sold = stock_broker.child.filled
  BY <1>2, StSameKeeps
<1>4. /\ stock_entry' \in StEntry
      /\ stock_known'.bought - stock_known'.sold > 0 => stock_known'.paid <= stock_entry'.notional
  <2>1. Stock!Truth \in StFills
    BY <1>1, <1>3
  <2>2. QED
    BY <1>1, <2>1, StReserved, StCancelling
<1>5. stock_link' \in StLink /\ ~stock_link'.reconciled
  BY <1>1 DEF StLink
<1>6. StTyped'
  BY <1>1, <1>2, <1>3, <1>4, <1>5 DEF StSame
<1>7. StRecorded' /\ StUnderWay'
  BY <1>1, <1>2, <1>3 DEF StRecorded, StUnderWay, StSized, StSame
<1>8. StWire'
  BY <1>1, <1>2, <1>3 DEF StWire, StSized, StSame
<1>9. StReconciled' /\ StBound' /\ StTrade'
  BY <1>1, <1>2, <1>5 DEF StReconciled, StBound, StTrade, StSame
<1>10. Stock!ExposureIsReserved'
  BY <1>4 DEF Stock!ExposureIsReserved, Stock!Owned
<1>11. QED
  BY <1>3, <1>6, <1>7, <1>8, <1>9, <1>10

\* What goes on the wire when the view is made true: only the protection the fills call for, and only
\* when the child, which shows the amendment before it, is not that.
LEMMA StAmend ==
  ASSUME StInv, NEW e \in StEntry, NEW p \in StLine, Stock!Amend(e, stock_broker.child, p),
         StLeft > 0, p = [quantity |-> StLeft, stop |-> StStop], ~StFits, StDone, StSame
  PROVE  /\ stock_wire' \in Seq(StLine) /\ stock_amendment' \in StLine
         /\ StRecorded' /\ StUnderWay' /\ StWire'
<1> USE DEF StInv, StTyped
<1>1. /\ StStop' = StStop /\ StLeft' = StLeft /\ (StDone' <=> StDone) /\ (StFits' <=> StFits)
      /\ stock_broker'.bought = stock_broker.bought
  BY StSameKeeps DEF StSame
<1>2. /\ stock_broker.bought \in Nat /\ stock_broker.child.filled \in Nat /\ StLeft \in Int /\ StLeft <= stock_broker.bought
      /\ stock_broker.child.quantity \in Int
  BY DEF StBroker, StChild, StLeft
<1>3. StSized(p) /\ p # Stock!None /\ p.quantity = StLeft
  BY <1>2 DEF StSized, Stock!None
<1>4. CASE UNCHANGED <<stock_amendment, stock_wire>>
  <2>1. StRecorded' /\ StUnderWay'
    BY <1>1, <1>4 DEF StRecorded, StUnderWay, StSized
  <2>2. StWire'
    BY <1>1, <1>4 DEF StWire, StSized
  <2>3. QED
    BY <1>4, <2>1, <2>2
<1>5. CASE /\ stock_amendment' = p /\ stock_wire' \in {stock_wire, Append(stock_wire, p)}
           /\ Stock!Acknowledged(stock_broker.child)
  <2>1. stock_wire # <<>> => stock_amendment.quantity # stock_broker.bought /\ StLeft # stock_broker.bought
    <3>1. SUFFICES ASSUME stock_wire # <<>> PROVE stock_amendment.quantity # stock_broker.bought /\ StLeft # stock_broker.bought
      OBVIOUS
    <3>2. stock_amendment # Stock!None /\ StSized(stock_amendment)
      BY <3>1 DEF StUnderWay, StRecorded
    <3>3. stock_broker.child.stop = StStop /\ stock_broker.child.quantity = stock_amendment.quantity
      BY <1>5, <3>2 DEF Stock!Acknowledged, StSized
    <3>4. stock_amendment.quantity # stock_broker.bought
      BY <3>3 DEF StFits
    <3>5. stock_amendment.quantity \in Int
      BY DEF StLine
    <3>6. QED
      BY <1>2, <3>2, <3>4, <3>5 DEF StSized
  <2>2. \A k \in 1..Len(stock_wire) : StSized(stock_wire[k]) /\ stock_wire[k].quantity # stock_broker.bought
    <3>1. SUFFICES ASSUME NEW k \in 1..Len(stock_wire) PROVE StSized(stock_wire[k]) /\ stock_wire[k].quantity # stock_broker.bought
      OBVIOUS
    <3>2. stock_wire # <<>>
      BY <3>1
    <3>3. QED
      BY <2>1, <3>1, <3>2 DEF StWire
  <2>3. stock_wire' \in Seq(StLine) /\ stock_amendment' \in StLine
    BY <1>5
  <2>4. StRecorded' /\ StUnderWay'
    BY <1>1, <1>3, <1>5 DEF StRecorded, StUnderWay, StSized
  <2>5. StWire'
    <3>1. SUFFICES ASSUME NEW k \in 1..Len(stock_wire')
                   PROVE  /\ StSized(stock_wire'[k])
                          /\ stock_wire'[k] = p \/ stock_wire'[k].quantity # stock_broker.bought
                          /\ Len(stock_wire') > 1 => stock_wire'[k].quantity # stock_broker.bought
      BY <1>1, <1>5 DEF StWire, StSized
    <3>2. CASE k \in 1..Len(stock_wire)
      <4>1. stock_wire'[k] = stock_wire[k]
        BY <1>5, <3>1, <3>2
      <4>2. QED
        BY <2>2, <3>2, <4>1
    <3>3. CASE k \notin 1..Len(stock_wire)
      <4>1. stock_wire'[k] = p /\ (Len(stock_wire') > 1 => stock_wire # <<>>)
        BY <1>5, <3>1, <3>3
      <4>2. QED
        BY <1>3, <2>1, <4>1
    <3>4. QED
      BY <3>2, <3>3
  <2>6. QED
    BY <2>3, <2>4, <2>5
<1>6. QED
  BY <1>4, <1>5 DEF Stock!Amend

LEMMA StReconcile ==
  ASSUME StInv, Stock!Reconcile
  PROVE  StInv' /\ Stock!QualifiedByTrade /\ stock_run'.entries = stock_run.entries
<1> USE DEF StInv, StTyped
<1>r. PICK r : r = Stock!Reserved(Stock!Truth, [stock_entry EXCEPT !.state = Stock!Projected])
  OBVIOUS
<1>e. PICK e : e = Stock!Cancelling(Stock!Truth, r)
  OBVIOUS
<1>o. PICK open \in BOOLEAN : open <=> Stock!Owned(Stock!Truth) > 0
  OBVIOUS
<1>v. PICK valid \in BOOLEAN : valid <=> open /\ Stock!Valid(e, stock_broker.child, stock_plan', Stock!Truth)
  OBVIOUS
<1>f. PICK flat \in BOOLEAN : flat <=> ~open /\ e.state \in Stock!Finished \ {"none"}
  OBVIOUS
<1>d. PICK done \in BOOLEAN : done <=> e.state # "cancel_pending" /\ (open => valid)
  OBVIOUS
<1>1. /\ stock_entry' = IF done /\ flat /\ stock_broker.child.status \notin Stock!ACTIVE THEN [e EXCEPT !.notional = 0] ELSE e
      /\ stock_broker' = [stock_broker EXCEPT !.cancelling = @ \/ Stock!Remainder(Stock!Truth, r)]
      /\ stock_link' = [agreement |-> TRUE, reconciled |-> done]
      /\ IF open /\ ~valid THEN Stock!Amend(e, stock_broker.child, stock_plan')
         ELSE UNCHANGED <<stock_amendment, stock_wire, stock_bounds>>
      /\ stock_trial' = IF ~done THEN stock_trial
                        ELSE [protected |-> stock_trial.protected \/ valid, qualified |-> Stock!Qualified(stock_trial, flat, valid)]
      /\ stock_run' = IF done /\ flat /\ e.auth = stock_run.auth THEN Stock!Disarmed(stock_run) ELSE stock_run
  BY <1>r, <1>e, <1>o, <1>v, <1>f, <1>d DEF Stock!Reconcile
<1>2. stock_known' = Stock!Truth /\ stock_plan' = Stock!Synced(Stock!Truth) /\ stock_market' = stock_market
  BY DEF Stock!Reconcile
<1>3. (open <=> StLeft > 0) /\ (flat => ~open) /\ (valid => open) /\ (done /\ open => valid)
  BY <1>o, <1>v, <1>f, <1>d, StTruthIs
<1>4. Stock!Projected \in {"none", "working", "cancel_pending", "filled", "cancelled"}
      /\ (Stock!Projected \in Stock!Finished => stock_broker.status # "live")
      /\ (Stock!Projected \in Stock!Finished /\ stock_broker.status # "absent" => StDone)
  <2>1. stock_broker.status \in {"absent", "live", "filled", "cancelled"} /\ stock_entry.state \in {"none", "working", "cancel_pending", "filled", "cancelled"}
    BY DEF StEntry, StBroker
  <2>2. CASE stock_broker.status = "absent"
    BY <2>1, <2>2 DEF Stock!Projected, StDone
  <2>3. CASE stock_broker.status = "live"
    BY <2>1, <2>3 DEF Stock!Projected, StDone, Stock!Finished
  <2>4. CASE stock_broker.status \in {"filled", "cancelled"}
    BY <2>1, <2>4 DEF Stock!Projected, StDone
  <2>5. QED
    BY <2>1, <2>2, <2>3, <2>4
<1>5. PICK m \in StEntry : m = [stock_entry EXCEPT !.state = Stock!Projected] /\ m.state = Stock!Projected
  <2>1. PICK s \in {"none", "working", "cancel_pending", "filled", "cancelled"} : s = Stock!Projected
    BY <1>4
  <2>2. [stock_entry EXCEPT !.state = s] \in StEntry /\ [stock_entry EXCEPT !.state = s].state = s
    BY DEF StEntry
  <2>3. QED
    BY <2>1, <2>2
<1>6. /\ Stock!Truth \in StFills /\ Stock!Truth.bought - Stock!Truth.sold = StLeft
      /\ r \in StEntry /\ e \in StEntry /\ (StLeft > 0 => Stock!Truth.paid <= e.notional)
      /\ e.state \in {Stock!Projected, "cancel_pending"}
  <2>1. Stock!Truth \in StFills /\ Stock!Truth.bought - Stock!Truth.sold = StLeft
    BY StTruthIs DEF Stock!Owned
  <2>2. r = Stock!Reserved(Stock!Truth, m)
    BY <1>r, <1>5
  <2>3. r \in StEntry /\ r.state = Stock!Projected /\ (StLeft > 0 => Stock!Truth.paid <= r.notional)
    BY <1>5, <2>1, <2>2, StReserved
  <2>4. QED
    BY <1>e, <2>1, <2>3, StCancelling
<1>7. StSame
  <2>1. Stock!Remainder(Stock!Truth, r) \in BOOLEAN
    BY DEF Stock!Remainder
  <2>2. QED
    BY <1>1, <1>2, <2>1, StCancels
<1>8. /\ StKnown' /\ stock_known' \in StFills /\ StStop' = StStop /\ StLeft' = StLeft
      /\ (StDone' <=> StDone) /\ (StFits' <=> StFits)
      /\ stock_known'.bought = stock_broker.bought /\ stock_known'.paid = stock_broker.paid
      /\ stock_known'.sold = stock_broker.child.filled
  BY <1>7, StSameKeeps
<1>9. stock_broker.bought \in Nat /\ stock_broker.child.filled \in Nat /\ StLeft \in Int /\ StLeft >= 0
  BY DEF StBroker, StChild, StLeft, StKnown
<1>10. open => /\ stock_plan' = [quantity |-> StLeft, stop |-> StStop] /\ stock_plan' \in StLine
               /\ stock_broker.status # "absent"
  <2>1. SUFFICES ASSUME open PROVE /\ stock_plan' = [quantity |-> StLeft, stop |-> StStop] /\ stock_plan' \in StLine
                                   /\ stock_broker.status # "absent"
    OBVIOUS
  <2>2. StLeft > 0 /\ stock_broker.bought > 0 /\ Stock!Owned(Stock!Truth) = StLeft
    BY <1>3, <1>9, <2>1, StTruthIs DEF StLeft
  <2>3. StStop \in Int
    BY <2>2, StStopInt
  <2>4. stock_plan' = [quantity |-> StLeft, stop |-> StStop]
    BY <1>2, <1>9, <2>2 DEF Stock!Synced, StStop
  <2>5. QED
    BY <1>9, <2>2, <2>3, <2>4 DEF StLine, StKnown
<1>11. valid => /\ StDone /\ StFits /\ stock_broker.child.status \in Stock!ACTIVE /\ stock_broker.bought > 0
  <2>1. SUFFICES ASSUME valid PROVE /\ StDone /\ StFits /\ stock_broker.child.status \in Stock!ACTIVE
                                    /\ stock_broker.bought > 0
    OBVIOUS
  <2>2. Stock!Valid(e, stock_broker.child, stock_plan', Stock!Truth)
    BY <1>v, <2>1
  <2>3. /\ e.state \in {"filled", "cancelled"} /\ stock_broker.child.status \in Stock!ACTIVE
        /\ stock_broker.child.quantity - stock_broker.child.filled = StLeft /\ stock_broker.child.stop = stock_plan'.stop
    BY <2>2, StTruthIs DEF Stock!Valid
  <2>4. stock_plan'.stop = StStop /\ stock_broker.status # "absent"
    BY <1>3, <1>10, <2>1
  <2>5. StDone
    BY <1>4, <1>6, <2>3, <2>4 DEF Stock!Finished
  <2>6. stock_broker.child.quantity \in Int
    BY DEF StBroker, StChild
  <2>7. stock_broker.child.quantity = stock_broker.bought /\ stock_broker.bought > 0
    BY <1>3, <1>9, <2>1, <2>3, <2>6 DEF StLeft
  <2>8. QED
    BY <2>3, <2>4, <2>5, <2>7 DEF StFits
<1>12. /\ stock_wire' \in Seq(StLine) /\ stock_amendment' \in StLine /\ StRecorded' /\ StUnderWay' /\ StWire'
  <2>1. CASE UNCHANGED <<stock_amendment, stock_wire>>
    <3>1. StRecorded' /\ StUnderWay'
      BY <1>7, <1>8, <2>1 DEF StRecorded, StUnderWay, StSized, StSame
    <3>2. StWire'
      BY <1>7, <1>8, <2>1 DEF StWire, StSized, StSame
    <3>3. QED
      BY <2>1, <3>1, <3>2
  <2>2. CASE ~UNCHANGED <<stock_amendment, stock_wire>>
    <3>1. open /\ ~valid /\ Stock!Amend(e, stock_broker.child, stock_plan')
      BY <1>1, <2>2
    <3>2. e.state \in Stock!Finished /\ stock_broker.child.status \in Stock!ACTIVE
      BY <2>2, <3>1 DEF Stock!Amend
    <3>3. StDone
      BY <1>4, <1>6, <1>10, <3>1, <3>2 DEF Stock!Finished
    <3>4. e.state \in {"filled", "cancelled"}
      <4>1. e.state = Stock!Projected
        BY <1>6, <3>2 DEF Stock!Finished
      <4>2. QED
        BY <3>3, <4>1 DEF StDone, Stock!Projected
    <3>5. ~StFits
      <4>1. SUFFICES ASSUME StFits PROVE FALSE
        OBVIOUS
      <4>2. stock_broker.child.quantity - stock_broker.child.filled = Stock!Owned(Stock!Truth)
            /\ stock_broker.child.stop = stock_plan'.stop
        BY <1>10, <3>1, <4>1, StTruthIs DEF StFits, StLeft
      <4>3. Stock!Valid(e, stock_broker.child, stock_plan', Stock!Truth)
        BY <3>2, <3>4, <4>2 DEF Stock!Valid
      <4>4. QED
        BY <1>v, <3>1, <4>3
    <3>6. PICK p \in StLine : p = stock_plan' /\ p = [quantity |-> StLeft, stop |-> StStop]
      BY <1>10, <3>1
    <3>7. Stock!Amend(e, stock_broker.child, p)
      BY <3>1, <3>6
    <3>8. QED
      BY <1>3, <1>6, <1>7, <3>1, <3>3, <3>5, <3>6, <3>7, StAmend
  <2>3. QED
    BY <2>1, <2>2
<1>13. stock_link' \in StLink /\ stock_link'.reconciled = done
  BY <1>1, <1>3 DEF StLink
<1>14. /\ stock_trial' \in StTrial
       /\ stock_trial'.protected => stock_trial.protected \/ valid
       /\ stock_trial'.qualified => stock_trial.qualified \/ (done /\ flat /\ stock_trial.protected)
  <2>1. CASE ~done
    BY <1>1, <2>1
  <2>2. CASE done
    <3>1. PICK a \in BOOLEAN, b \in BOOLEAN : /\ a = (stock_trial.protected \/ valid)
                            /\ b = (stock_trial.qualified \/ (flat /\ stock_trial.protected))
      BY <1>3 DEF StTrial
    <3>2. stock_trial' = [protected |-> a, qualified |-> b]
      BY <1>1, <2>2, <3>1 DEF Stock!Qualified
    <3>3. QED
      BY <2>2, <3>1, <3>2 DEF StTrial
  <2>3. QED
    BY <1>3, <2>1, <2>2
<1>15. /\ stock_run' \in StRun /\ (stock_run'.armed => stock_run.armed) /\ stock_run'.entries = stock_run.entries
  BY <1>1, StDisarmed
<1>16. /\ stock_entry' \in StEntry /\ stock_entry'.state = e.state
       /\ StLeft > 0 => Stock!Truth.paid <= stock_entry'.notional
  <2>1. CASE stock_entry' = e
    BY <1>6, <2>1
  <2>2. CASE done /\ flat /\ stock_entry' = [e EXCEPT !.notional = 0]
    <3>1. ~(StLeft > 0)
      BY <1>3, <2>2
    <3>2. stock_entry' \in StEntry /\ stock_entry'.state = e.state
      BY <1>6, <2>2 DEF StEntry
    <3>3. QED
      BY <3>1, <3>2
  <2>3. QED
    BY <1>1, <2>1, <2>2
<1>17. StTyped'
  BY <1>2, <1>7, <1>8, <1>12, <1>13, <1>14, <1>15, <1>16 DEF StSame
<1>18. StReconciled'
  <2>1. SUFFICES ASSUME done
                 PROVE  /\ StLeft > 0 => StDone /\ StFits /\ stock_broker.child.status \in Stock!ACTIVE
                        /\ e.state \in Stock!Finished => stock_broker.status # "live"
    BY <1>7, <1>8, <1>13, <1>16 DEF StReconciled, StSame, StLeft
  <2>2. StLeft > 0 => StDone /\ StFits /\ stock_broker.child.status \in Stock!ACTIVE
    BY <1>3, <1>11, <2>1
  <2>3. e.state \in Stock!Finished => stock_broker.status # "live"
    BY <1>4, <1>6 DEF Stock!Finished
  <2>4. QED
    BY <2>2, <2>3
<1>19. StBound' /\ StTrade'
  BY <1>2, <1>7, <1>11, <1>14, <1>15 DEF StBound, StTrade, StSame
<1>20. Stock!ExposureIsReserved'
  BY <1>2, <1>6, <1>16 DEF Stock!ExposureIsReserved, Stock!Owned
<1>21. Stock!QualifiedByTrade
  <2>1. SUFFICES ASSUME stock_trial'.qualified, ~stock_trial.qualified
                 PROVE  /\ stock_trial.protected /\ Stock!Owned(Stock!Truth) = 0 /\ stock_broker.bought > 0
                        /\ stock_entry'.state \in Stock!Finished
    BY DEF Stock!QualifiedByTrade
  <2>2. done /\ flat /\ stock_trial.protected
    BY <1>14, <2>1
  <2>3. stock_broker.bought > 0
    BY <2>2 DEF StTrade
  <2>4. Stock!Owned(Stock!Truth) = 0
    BY <1>3, <1>9, <2>2, StTruthIs
  <2>5. stock_entry'.state \in Stock!Finished
    BY <1>f, <1>16, <2>2
  <2>6. QED
    BY <2>2, <2>3, <2>4, <2>5
<1>22. QED
  BY <1>8, <1>12, <1>15, <1>17, <1>18, <1>19, <1>20, <1>21

LEMMA StInit == StockBudgets \subseteq [arms : Nat, changes : Nat, raises : Nat, waiting : Nat, raised : BOOLEAN,
                                        qualified : BOOLEAN] /\ Stock!Init => StInv
<1> SUFFICES ASSUME StockBudgets \subseteq [arms : Nat, changes : Nat, raises : Nat, waiting : Nat, raised : BOOLEAN,
                                            qualified : BOOLEAN], Stock!Init
             PROVE  StInv
  OBVIOUS
<1>1. stock_bounds.qualified \in BOOLEAN
  BY DEF Stock!Init
<1>2. StTyped
  <2>1. stock_run \in StRun /\ stock_market \in StMarket /\ stock_entry \in StEntry /\ stock_known \in StFills
    BY DEF Stock!Init, StRun, StMarket, StEntry, StFills, Stock!NoFills
  <2>2. stock_broker \in StBroker
    BY DEF Stock!Init, StBroker, StChild, Stock!NoOrders, Stock!NoChild
  <2>3. stock_wire \in Seq(StLine) /\ stock_amendment \in StLine /\ stock_link \in StLink
    BY DEF Stock!Init, StLine, StLink, Stock!None
  <2>4. stock_trial \in StTrial
    BY <1>1 DEF Stock!Init, StTrial
  <2>5. QED
    BY <2>1, <2>2, <2>3, <2>4 DEF StTyped
<1>3. StKnown /\ StReconciled
  BY DEF Stock!Init, StKnown, StReconciled, Stock!NoFills, Stock!NoOrders, Stock!NoChild
<1>4. StRecorded /\ StUnderWay /\ StWire /\ StBound /\ StTrade
  BY <1>1 DEF Stock!Init, StRecorded, StUnderWay, StWire, StBound, StTrade
<1>5. Stock!ExposureIsReserved
  BY DEF Stock!Init, Stock!ExposureIsReserved, Stock!Owned, Stock!NoFills
<1>6. QED
  BY <1>2, <1>3, <1>4, <1>5 DEF StInv

\* The stop is amended (stock_engine.py: _stock_amend, after the fills of broker_stocks.py) so that what the engine
\* takes for protected is, for any number of shares, any prices and any number of amendments that raise or wait.
THEOREM StockInductive == StInv /\ [Stock!Next]_stock => StInv'
<1> SUFFICES ASSUME StInv, [Stock!Next]_stock PROVE StInv'
  OBVIOUS
<1>1. StockPrices \subseteq Nat /\ StockShares \in Nat \ {0}
  BY TradesAssumption
<1>2. CASE StQuiet
  BY <1>2, StQuietKeeps
<1>3. CASE Stock!Crossing
  BY <1>1, <1>3, StCrossing
<1>4. CASE Stock!Fill
  BY <1>1, <1>4, StFill
<1>5. QED
  BY <1>2, <1>3, <1>4, StCancelled, StStopFills, StAmended, StExecution, StReconcile, Zenon DEF Stock!Next, StQuiet

\* When the view is true and all is known, the child fits: its quantity is what was bought, so what it has
\* left to sell is what is left.
LEMMA StFitsFills == StInv => Stock!StopFitsFills
<1> SUFFICES ASSUME StInv, stock_link.reconciled, stock_known = Stock!Truth, Stock!Owned(Stock!Truth) > 0
             PROVE  /\ stock_broker.child.status \in Stock!ACTIVE
                    /\ stock_broker.child.quantity - stock_broker.child.filled = Stock!Owned(Stock!Truth)
                    /\ stock_broker.child.stop = Stock!Stop(Stock!Truth)
  BY DEF Stock!StopFitsFills
<1> USE DEF StInv, StTyped
<1>1. /\ stock_known.bought = stock_broker.bought /\ stock_known.sold = stock_broker.child.filled
      /\ Stock!Owned(Stock!Truth) = StLeft
  BY StTruthIs
<1>2. stock_broker.bought \in Nat /\ stock_broker.child.filled \in Nat
  BY DEF StBroker, StChild
<1>3. StDone /\ StFits /\ stock_broker.child.status \in Stock!ACTIVE
  BY <1>1, <1>2 DEF StReconciled, StLeft
<1>4. QED
  BY <1>1, <1>2, <1>3 DEF StFits, StStop, StLeft

\* Of two amendments under way neither is of all that was bought, which each is before the child has sold any.
LEMMA StOneAmendment == StInv => Stock!OneAmendment
<1> SUFFICES ASSUME StInv, Len(stock_wire) > 1 PROVE stock_broker.child.filled > 0
  BY DEF Stock!OneAmendment
<1> USE DEF StInv, StTyped
<1>1. Len(stock_wire) \in Nat /\ 1 \in 1..Len(stock_wire) /\ stock_wire[1] \in StLine
  OBVIOUS
<1>2. stock_wire[1].quantity \in Int /\ stock_broker.bought \in Nat /\ stock_broker.child.filled \in Nat
  BY <1>1 DEF StLine, StBroker, StChild
<1>3. StSized(stock_wire[1]) /\ stock_wire[1].quantity # stock_broker.bought
  BY <1>1 DEF StWire
<1>4. QED
  BY <1>2, <1>3 DEF StSized, StLeft

\* A plan is qualified by a trade of its own, and an entry is made as it was authorized.
LEMMA StSteps == StInv /\ [Stock!Next]_stock => Stock!QualifiedByTrade /\ Stock!EnteredAsAuthorized
<1> SUFFICES ASSUME StInv, [Stock!Next]_stock PROVE Stock!QualifiedByTrade /\ Stock!EnteredAsAuthorized
  OBVIOUS
<1> USE DEF StInv, StTyped
<1>1. stock_run.entries \in Nat /\ stock_trial.qualified \in BOOLEAN
  BY DEF StRun, StTrial
<1>2. CASE Stock!Reconcile
  BY <1>1, <1>2, StReconcile DEF Stock!EnteredAsAuthorized
<1>3. CASE Stock!Crossing
  <2>1. stock_trial'.qualified = stock_trial.qualified
    <3>1. stock_trial' \in {stock_trial, [stock_trial EXCEPT !.protected = FALSE]}
      BY <1>3 DEF Stock!Crossing, Stock!Enter
    <3>2. QED
      BY <3>1 DEF StTrial
  <2>2. Stock!EnteredAsAuthorized
    <3>1. SUFFICES ASSUME stock_run'.entries > stock_run.entries
                   PROVE  /\ stock_run.armed /\ stock_entry'.auth = stock_trigger.auth /\ stock_market.binding /\ Stock!Checks
                          /\ stock_entry.state \in Stock!Finished /\ Stock!Owned(Stock!Truth) = 0
      BY DEF Stock!EnteredAsAuthorized
    <3>2. /\ stock_run.armed /\ stock_entry'.auth = stock_trigger.auth /\ Stock!Checks
          /\ stock_entry.state \in Stock!Finished /\ stock_link.reconciled /\ stock_known.bought - stock_known.sold = 0
      BY <1>3, <3>1, StCrossing, TradesAssumption
    <3>3. stock_known.bought = stock_broker.bought
      BY <3>2 DEF StReconciled
    <3>4. /\ stock_known.bought \in Nat /\ stock_known.sold \in Nat /\ stock_broker.child.filled \in Nat
          /\ stock_broker.bought \in Nat
      BY DEF StFills, StBroker, StChild
    <3>5. StLeft = 0
      BY <3>2, <3>3, <3>4 DEF StKnown, StLeft
    <3>6. QED
      BY <3>2, <3>5, StTruthIs DEF Stock!Checks, Stock!Compatible
  <2>3. QED
    BY <2>1, <2>2 DEF Stock!QualifiedByTrade
<1>4. CASE Stock!RulesChange \/ Stock!Bind \/ Stock!Arm
  <2>1. stock_trial'.qualified => stock_trial.qualified
    BY <1>4 DEF Stock!RulesChange, Stock!Bind, Stock!Arm, StTrial
  <2>2. ~(stock_run'.entries > stock_run.entries)
    BY <1>1, <1>4, StDisarmed DEF Stock!RulesChange, Stock!Bind, Stock!Arm
  <2>3. QED
    BY <2>1, <2>2 DEF Stock!QualifiedByTrade, Stock!EnteredAsAuthorized
<1>5. ASSUME UNCHANGED <<stock_run, stock_trial>> PROVE Stock!QualifiedByTrade /\ Stock!EnteredAsAuthorized
  BY <1>1, <1>5 DEF Stock!QualifiedByTrade, Stock!EnteredAsAuthorized
<1>6. CASE \/ Stock!MarketMoves \/ Stock!Candle \/ Stock!Expire \/ Stock!Fill \/ Stock!Cancelled \/ Stock!StopFills
           \/ Stock!Amended \/ Stock!Execution \/ Stock!Status \/ UNCHANGED stock
  <2>1. UNCHANGED <<stock_run, stock_trial>>
    BY <1>6 DEF Stock!MarketMoves, Stock!Candle, Stock!Expire, Stock!Fill, Stock!Cancelled, Stock!StopFills,
         Stock!Amended, Stock!Execution, Stock!Status, stock
  <2>2. QED
    BY <1>5, <2>1
<1>7. QED
  BY <1>2, <1>3, <1>4, <1>6, Zenon DEF Stock!Next

-----------------------------------------------------------------------------
(* The paper adapter.                                                      *)

AdSent == [request : Adapter!Requests, outcome : {"accepted", "unknown"}]
AdCallback == Adapter!Statuses \cup Adapter!Fills
AdTyped ==
  /\ adapter_submitted \in Adapter!Requests \cup {Adapter!Nothing}
  /\ adapter_sent \in Seq(AdSent) /\ adapter_accepted \in Seq(AdCallback)
  /\ adapter_progress \in [observed : Nat, cumulative : Nat]
  /\ adapter_demanded \in BOOLEAN /\ adapter_overlooked \in BOOLEAN
\* What is remembered of the last callback is the most of all that were accepted.
AdProgress ==
  \A k \in 1..Len(adapter_accepted) :
    /\ adapter_accepted[k].observed <= adapter_progress.observed
    /\ adapter_accepted[k].cumulative <= adapter_progress.cumulative
AdInv == AdTyped /\ AdProgress /\ Adapter!SentOnce /\ Adapter!FillsGrow /\ Adapter!DoubtIsKept

LEMMA AdRecords ==
  ASSUME NEW d, AdTyped, Adapter!DoubtIsKept, Adapter!Recorded(d)
  PROVE  Adapter!DoubtIsKept' /\ adapter_demanded' \in BOOLEAN /\ adapter_overlooked' \in BOOLEAN
  BY DEF AdTyped, Adapter!Recorded, Adapter!DoubtIsKept

AdOthers == <<adapter_submitted, adapter_remembered, adapter_progress, adapter_sent, adapter_accepted>>
LEMMA AdDoubtOnly ==
  ASSUME AdInv, UNCHANGED AdOthers, Adapter!DoubtIsKept', adapter_demanded' \in BOOLEAN, adapter_overlooked' \in BOOLEAN
  PROVE  AdInv'
  BY DEF AdInv, AdOthers, AdTyped, AdProgress, Adapter!SentOnce, Adapter!FillsGrow

LEMMA AdState ==
  ASSUME AdInv, NEW s, Adapter!StateRecorded(s)
  PROVE  AdInv'
<1>1. Adapter!DoubtIsKept' /\ adapter_demanded' \in BOOLEAN /\ adapter_overlooked' \in BOOLEAN
  BY DEF Adapter!StateRecorded, Adapter!DoubtIsKept
<1> QED BY <1>1, AdDoubtOnly DEF Adapter!StateRecorded, AdOthers

\* Nothing has been accepted under the key when a request is sent: neither an outcome, nor what is
\* remembered.
LEMMA AdSubmit == ASSUME AdInv, Adapter!Submit PROVE AdInv'
<1>1. PICK r \in Adapter!Requests, outcome \in {"accepted", "unknown"} :
        /\ Adapter!Refusal(r) = "none" /\ adapter_sent' = Append(adapter_sent, [request |-> r, outcome |-> outcome])
        /\ adapter_submitted' = (IF outcome = "accepted" THEN r ELSE adapter_submitted)
        /\ Adapter!Recorded(outcome \in Adapter!SubmissionDemands)
  BY DEF Adapter!Submit
<1>2. adapter_submitted = Adapter!Nothing
  BY <1>1 DEF Adapter!Refusal
<1>3. \A q \in Adapter!Requests : q # Adapter!Nothing
  BY DEF Adapter!Requests, Adapter!Nothing
<1>4. \A k \in 1..Len(adapter_sent) : adapter_sent[k] \in AdSent /\ adapter_sent[k].outcome # "accepted"
  <2>1. \A k \in 1..Len(adapter_sent) : adapter_sent[k] \in AdSent
    BY DEF AdInv, AdTyped
  <2>2. \A k \in 1..Len(adapter_sent) : adapter_sent[k].request \in Adapter!Requests
    BY <2>1 DEF AdSent
  <2> QED BY <1>2, <1>3, <2>1, <2>2 DEF AdInv, Adapter!SentOnce
<1>5. [request |-> r, outcome |-> outcome] \in AdSent
  BY DEF AdSent
<1>6. /\ adapter_sent' \in Seq(AdSent) /\ Len(adapter_sent') = Len(adapter_sent) + 1 /\ Len(adapter_sent) \in Nat
      /\ \A k \in 1..Len(adapter_sent) : adapter_sent'[k] = adapter_sent[k]
      /\ adapter_sent'[Len(adapter_sent) + 1] = [request |-> r, outcome |-> outcome]
  BY <1>1, <1>5 DEF AdInv, AdTyped
<1>7. Adapter!SentOnce'
  <2>1. ASSUME NEW k \in 1..Len(adapter_sent'), adapter_sent'[k].outcome = "accepted"
        PROVE  k = Len(adapter_sent') /\ adapter_submitted' = adapter_sent'[k].request
    <3>1. k = Len(adapter_sent) + 1
      BY <1>4, <1>6, <2>1
    <3> QED BY <1>1, <1>6, <2>1, <3>1
  <2> QED BY <2>1 DEF Adapter!SentOnce
<1>8. Adapter!DoubtIsKept' /\ adapter_demanded' \in BOOLEAN /\ adapter_overlooked' \in BOOLEAN
  <2>1. Adapter!Recorded(outcome \in Adapter!SubmissionDemands)
    BY <1>1
  <2> QED BY <2>1, AdRecords, Zenon DEF AdInv
<1>9. UNCHANGED <<adapter_progress, adapter_accepted>>
  BY DEF Adapter!Submit
<1>10. adapter_submitted' \in Adapter!Requests \cup {Adapter!Nothing}
  BY <1>1, <1>2
<1> QED BY <1>6, <1>7, <1>8, <1>9, <1>10 DEF AdInv, AdTyped, AdProgress, Adapter!FillsGrow

LEMMA AdCallbacks ==
  ASSUME AdapterQuantity \in Nat, AdInv, NEW i, NEW c \in AdCallback, Adapter!Callback(i, c)
  PROVE  AdInv'
<1>1. PICK matched \in BOOLEAN, fresh \in BOOLEAN :
        LET o == Adapter!Outcome(i, c, matched, fresh) IN
        /\ IF o = "accepted"
           THEN /\ adapter_accepted' = Append(adapter_accepted, c)
                /\ adapter_progress' = [observed |-> c.observed,
                     cumulative |-> IF c.cumulative > adapter_progress.cumulative THEN c.cumulative ELSE adapter_progress.cumulative]
           ELSE UNCHANGED <<adapter_remembered, adapter_accepted, adapter_progress>>
        /\ Adapter!Recorded(o \notin {"accepted", "duplicate"})
  BY DEF Adapter!Callback
<1> DEFINE o == Adapter!Outcome(i, c, matched, fresh)
<1>2. Adapter!DoubtIsKept' /\ adapter_demanded' \in BOOLEAN /\ adapter_overlooked' \in BOOLEAN
  BY <1>1, AdRecords DEF AdInv
<1>3. UNCHANGED <<adapter_submitted, adapter_sent>>
  BY DEF Adapter!Callback
<1>4. CASE o # "accepted"
  BY <1>1, <1>2, <1>3, <1>4 DEF AdInv, AdTyped, AdProgress, Adapter!SentOnce, Adapter!FillsGrow
<1>5. CASE o = "accepted"
  <2>1. /\ ~(c.observed < adapter_progress.observed)
        /\ c.kind = "fill" => c.cumulative > adapter_progress.cumulative
    BY <1>5 DEF Adapter!Outcome, Adapter!Accepts, Adapter!Beyond
  <2>2. c.observed \in Nat /\ c.cumulative \in Nat
    BY DEF AdCallback, Adapter!Statuses, Adapter!Fills
  <2>3. /\ adapter_accepted' \in Seq(AdCallback) /\ Len(adapter_accepted') = Len(adapter_accepted) + 1
        /\ Len(adapter_accepted) \in Nat
        /\ \A k \in 1..Len(adapter_accepted) : adapter_accepted'[k] = adapter_accepted[k] /\ adapter_accepted[k] \in AdCallback
        /\ adapter_accepted'[Len(adapter_accepted) + 1] = c
    <3>1. adapter_accepted' = Append(adapter_accepted, c) /\ adapter_accepted \in Seq(AdCallback)
      BY <1>1, <1>5 DEF AdInv, AdTyped
    <3> QED BY <3>1
  <2>4. adapter_progress' \in [observed : Nat, cumulative : Nat]
    BY <1>1, <1>5, <2>2 DEF AdInv, AdTyped
  <2>5. \A k \in 1..Len(adapter_accepted) :
          /\ adapter_accepted[k].observed \in Nat /\ adapter_accepted[k].cumulative \in Nat
          /\ adapter_accepted[k].observed <= c.observed
          /\ adapter_accepted[k].cumulative <= adapter_progress'.cumulative
          /\ c.kind = "fill" => adapter_accepted[k].cumulative < c.cumulative
    <3>1. \A k \in 1..Len(adapter_accepted) : adapter_accepted[k].observed \in Nat /\ adapter_accepted[k].cumulative \in Nat
      BY <2>3 DEF AdCallback, Adapter!Statuses, Adapter!Fills
    <3>2. adapter_progress.observed \in Nat /\ adapter_progress.cumulative \in Nat
      BY DEF AdInv, AdTyped
    <3>3. adapter_progress'.cumulative =
            IF c.cumulative > adapter_progress.cumulative THEN c.cumulative ELSE adapter_progress.cumulative
      BY <1>1, <1>5
    <3> HIDE DEF o
    <3> QED BY <2>1, <2>2, <3>1, <3>2, <3>3, SMTT(30) DEF AdInv, AdProgress
  <2>6. AdProgress'
    <3>1. adapter_progress'.observed = c.observed /\ c.cumulative <= adapter_progress'.cumulative
      BY <1>1, <1>5, <2>2 DEF AdInv, AdTyped
    <3> QED BY <2>2, <2>3, <2>5, <3>1 DEF AdProgress
  <2>7. Adapter!FillsGrow'
    <3>1. ASSUME NEW k \in 1..Len(adapter_accepted'), NEW l \in 1..Len(adapter_accepted'), k < l
          PROVE  /\ adapter_accepted'[k].observed <= adapter_accepted'[l].observed
                 /\ adapter_accepted'[l].kind = "fill" => adapter_accepted'[k].cumulative < adapter_accepted'[l].cumulative
      <4>1. k \in 1..Len(adapter_accepted)
        BY <2>3, <3>1
      <4>2. CASE l \in 1..Len(adapter_accepted)
        BY <2>3, <3>1, <4>1, <4>2 DEF AdInv, Adapter!FillsGrow
      <4>3. CASE l = Len(adapter_accepted) + 1
        BY <2>3, <2>5, <4>1, <4>3
      <4> QED BY <2>3, <4>2, <4>3
    <3> QED BY <3>1 DEF Adapter!FillsGrow
  <2> QED BY <1>2, <1>3, <2>3, <2>4, <2>6, <2>7 DEF AdInv, AdTyped, Adapter!SentOnce
<1> QED BY <1>4, <1>5

LEMMA AdBlank ==
  /\ <<>> \in Seq(AdSent) /\ <<>> \in Seq(AdCallback) /\ Adapter!Start \in [observed : Nat, cumulative : Nat]
  /\ Adapter!Nothing \in Adapter!Requests \cup {Adapter!Nothing} /\ FALSE \in BOOLEAN
<1>1. Adapter!Start \in [observed : Nat, cumulative : Nat]
  BY DEF Adapter!Start
<1>2. <<>> \in Seq(AdSent) /\ <<>> \in Seq(AdCallback)
  OBVIOUS
<1> QED BY <1>1, <1>2

LEMMA AdNew ==
  ASSUME adapter_submitted = Adapter!Nothing, adapter_progress = Adapter!Start, adapter_sent = <<>>, adapter_accepted = <<>>,
         adapter_demanded = FALSE, adapter_overlooked = FALSE
  PROVE  AdInv
<1>1. Len(adapter_sent) = 0 /\ Len(adapter_accepted) = 0
  OBVIOUS
<1>2. \A k \in 1..0 : FALSE
  OBVIOUS
<1>3. AdTyped
  BY AdBlank, Zenon DEF AdTyped
<1> QED BY <1>1, <1>2, <1>3 DEF AdInv, AdProgress, Adapter!SentOnce, Adapter!FillsGrow, Adapter!DoubtIsKept

THEOREM AdapterInductive == AdapterQuantity \in Nat /\ AdInv /\ [Adapter!Next]_adapter => AdInv'
<1> SUFFICES ASSUME AdapterQuantity \in Nat, AdInv, [Adapter!Next]_adapter PROVE AdInv'
  OBVIOUS
<1>1. CASE Adapter!RecordConnectionState
  BY <1>1, AdState DEF Adapter!RecordConnectionState
<1>2. CASE Adapter!ProbeLocalConnectivity
  BY <1>2, AdState DEF Adapter!ProbeLocalConnectivity
<1>3. CASE Adapter!LookupContract
  <2>1. PICK d : Adapter!Recorded(d)
    BY <1>3, Zenon DEF Adapter!LookupContract
  <2> QED BY <1>3, <2>1, AdRecords, AdDoubtOnly DEF Adapter!LookupContract, AdOthers, AdInv
<1>4. CASE Adapter!SubmissionRefused
  <2>1. PICK d : Adapter!Recorded(d)
    BY <1>4, Zenon DEF Adapter!SubmissionRefused
  <2> QED BY <1>4, <2>1, AdRecords, AdDoubtOnly DEF Adapter!SubmissionRefused, AdOthers, AdInv
<1>5. CASE Adapter!Submit
  BY <1>5, AdSubmit
<1>6. CASE Adapter!StatusCallback
  BY <1>6, AdCallbacks DEF Adapter!StatusCallback, AdCallback
<1>7. CASE Adapter!FillCallback
  BY <1>7, AdCallbacks DEF Adapter!FillCallback, AdCallback
<1>8. CASE Adapter!Restart
  <2>1. /\ adapter_submitted' = Adapter!Nothing /\ adapter_progress' = Adapter!Start /\ adapter_sent' = <<>> /\ adapter_accepted' = <<>>
        /\ adapter_demanded' = FALSE /\ adapter_overlooked' = FALSE
    BY <1>8 DEF Adapter!Restart
  <2>2. AdTyped'
    BY <2>1, AdBlank, Zenon DEF AdTyped
  <2>3. \A k \in 1..0 : FALSE
    OBVIOUS
  <2> QED BY <2>1, <2>2, <2>3 DEF AdInv, AdProgress, Adapter!SentOnce, Adapter!FillsGrow, Adapter!DoubtIsKept
<1>9. CASE UNCHANGED adapter
  BY <1>9 DEF adapter, AdInv, AdTyped, AdProgress, Adapter!SentOnce, Adapter!FillsGrow, Adapter!DoubtIsKept
<1> QED BY <1>1, <1>2, <1>3, <1>4, <1>5, <1>6, <1>7, <1>8, <1>9 DEF Adapter!Next

LEMMA AdInit == Adapter!Init => AdInv
  BY AdNew DEF Adapter!Init

-----------------------------------------------------------------------------
(* Incident episodes.                                                      *)

InCodes == UNION {s.codes : s \in IncScenarios}
InContext == Nat \X Nat
InItem ==
  [code : InCodes, condition : {"active", "recovered", "unknown"}, restriction : Inc!Held \cup {"released"},
   investigation : {"open", "closed"}, revision : Nat, failure : Nat, context : InContext]
InTyped ==
  /\ inc_episodes \in Seq(InItem) /\ inc_sequence \in Nat /\ inc_context \in InContext
  /\ DOMAIN inc_signs \subseteq InCodes /\ inc_totals \in [Inc!Held \cup {"released"} -> Int]
  /\ \A i \in Inc!Ids : inc_episodes[i].failure <= inc_sequence

\* What was read of an episode and is still its revision is the episode: a failure and a release
\* change the revision.
InOlder(i, revision) ==
  /\ i \in Inc!Ids /\ revision \in Nat /\ revision <= inc_episodes[i].revision
  /\ revision = inc_episodes[i].revision => i \in Inc!Open
InRead ==
  /\ inc_visit # Inc!NoVisit => InOlder(inc_visit.id, inc_visit.revision)
  /\ \A t \in inc_todo : InOlder(t[1], t[2])
InShown ==
  \A t \in inc_preview.items :
    /\ t[1] \in Inc!Ids /\ t[2] \in Nat /\ t[2] <= inc_episodes[t[1]].revision
    /\ t[2] = inc_episodes[t[1]].revision => t[3] = inc_episodes[t[1]].failure
InOne == \A i, j \in Inc!Open : inc_episodes[i].code = inc_episodes[j].code => i = j
InOf(r) == {i \in Inc!Ids : inc_episodes[i].restriction = r}
InInv == InTyped /\ InRead /\ InShown /\ InOne /\ Inc!TotalsAgree

LEMMA InCardinality == \A S : Inc!Cardinality(S) = Cardinality(S)
  BY Zenon DEF Inc!Cardinality, Cardinality
LEMMA InFinite == ASSUME InTyped, NEW r PROVE IsFiniteSet(InOf(r)) /\ Cardinality(InOf(r)) \in Nat
<1>1. IsFiniteSet(1..Len(inc_episodes))
  BY FS_Interval DEF InTyped
<1>2. InOf(r) \in SUBSET (1..Len(inc_episodes))
  BY DEF InTyped, InOf, Inc!Ids
<1>3. IsFiniteSet(InOf(r))
  BY <1>1, <1>2, FS_Subset
<1> QED BY <1>3, FS_CardinalityType

LEMMA InItems ==
  ASSUME InTyped, NEW i \in Inc!Ids
  PROVE  /\ inc_episodes[i] \in InItem /\ i \in 1..Len(inc_episodes) /\ inc_episodes[i].revision \in Nat
         /\ inc_episodes[i].failure \in Nat /\ inc_episodes[i].restriction \in Inc!Held \cup {"released"}
<1>1. i \in 1..Len(inc_episodes) /\ inc_episodes[i] \in InItem
  BY DEF InTyped, Inc!Ids
<1> QED BY <1>1 DEF InItem

\* An episode that is saved: the sets of the restrictions, and the totals with them.
LEMMA InSaved ==
  ASSUME InTyped, Inc!TotalsAgree, NEW i \in Inc!Ids, NEW item \in InItem, Inc!Save(i, item)
  PROVE  /\ inc_episodes' \in Seq(InItem) /\ Inc!Ids' = Inc!Ids /\ inc_totals' \in [Inc!Held \cup {"released"} -> Int]
         /\ \A j \in Inc!Ids : inc_episodes'[j] = IF j = i THEN item ELSE inc_episodes[j]
         /\ Inc!TotalsAgree'
<1>1. /\ inc_episodes' = [inc_episodes EXCEPT ![i] = item] /\ i \in 1..Len(inc_episodes)
      /\ inc_episodes \in Seq(InItem)
  BY InItems DEF Inc!Save, InTyped
<1>2. /\ inc_episodes' \in Seq(InItem) /\ DOMAIN inc_episodes' = DOMAIN inc_episodes
      /\ \A j \in DOMAIN inc_episodes : inc_episodes'[j] = IF j = i THEN item ELSE inc_episodes[j]
  BY <1>1
<1>3. Inc!Ids' = Inc!Ids /\ \A j \in Inc!Ids : inc_episodes'[j] = IF j = i THEN item ELSE inc_episodes[j]
  BY <1>2 DEF Inc!Ids
<1> DEFINE old == inc_episodes[i].restriction
           new == item.restriction
<1>4. inc_totals' = [r \in DOMAIN inc_totals |-> inc_totals[r] - (IF r = old THEN 1 ELSE 0) + (IF r = new THEN 1 ELSE 0)]
  BY DEF Inc!Save, Inc!Moved
<1>5. inc_totals' \in [Inc!Held \cup {"released"} -> Int]
  BY <1>4 DEF InTyped
<1>6. ASSUME NEW r \in DOMAIN inc_totals' PROVE inc_totals'[r] = Cardinality(InOf(r)')
  <2>0. r \in DOMAIN inc_totals
    BY <1>4, <1>6
  <2>1. inc_totals[r] = Cardinality(InOf(r)) /\ inc_totals[r] \in Int
    BY <2>0, InCardinality DEF Inc!TotalsAgree, InOf, InTyped
  <2>2. IsFiniteSet(InOf(r)) /\ Cardinality(InOf(r)) \in Nat
    BY InFinite
  <2>3. InOf(r)' = IF r = new THEN InOf(r) \cup {i} ELSE InOf(r) \ {i}
    BY <1>3 DEF InOf
  <2>4. r = old <=> i \in InOf(r)
    BY DEF InOf
  <2>5. Cardinality(InOf(r) \cup {i}) = IF i \in InOf(r) THEN Cardinality(InOf(r)) ELSE Cardinality(InOf(r)) + 1
    BY <2>2, FS_AddElement
  <2>6. Cardinality(InOf(r) \ {i}) = IF i \in InOf(r) THEN Cardinality(InOf(r)) - 1 ELSE Cardinality(InOf(r))
    BY <2>2, FS_RemoveElement
  <2>7. inc_totals'[r] = inc_totals[r] - (IF r = old THEN 1 ELSE 0) + (IF r = new THEN 1 ELSE 0)
    BY <1>4, <2>0
  <2> HIDE DEF old, new
  <2>8. CASE r = new
    <3>1. Cardinality(InOf(r)') = Cardinality(InOf(r) \cup {i})
      BY <2>3, <2>8
    <3> QED BY <2>1, <2>2, <2>4, <2>5, <2>7, <2>8, <3>1
  <2>9. CASE r # new
    <3>1. Cardinality(InOf(r)') = Cardinality(InOf(r) \ {i})
      BY <2>3, <2>9
    <3> QED BY <2>1, <2>2, <2>4, <2>6, <2>7, <2>9, <3>1
  <2> QED BY <2>8, <2>9
<1>7. Inc!TotalsAgree'
  BY <1>6, InCardinality DEF Inc!TotalsAgree, InOf
<1> QED BY <1>2, <1>3, <1>5, <1>7

\* A change that moves revisions forward whenever a failure or a restriction moves.
InForward ==
  /\ Inc!Ids \subseteq Inc!Ids'
  /\ \A i \in Inc!Ids :
       /\ inc_episodes'[i].revision \in Nat /\ inc_episodes'[i].revision >= inc_episodes[i].revision
       /\ inc_episodes'[i].revision = inc_episodes[i].revision => inc_episodes'[i] = inc_episodes[i]
LEMMA InForwardKeeps ==
  ASSUME InTyped, InShown, InForward
  PROVE  /\ \A i, n : InOlder(i, n) => InOlder(i, n)'
         /\ inc_preview' = inc_preview => InShown'
<1>1. ASSUME NEW i, NEW n, InOlder(i, n) PROVE InOlder(i, n)'
  <2>1. i \in Inc!Ids /\ n \in Nat /\ inc_episodes[i].revision \in Nat /\ n <= inc_episodes[i].revision
    BY <1>1, InItems DEF InOlder
  <2>2. /\ i \in Inc!Ids' /\ inc_episodes'[i].revision \in Nat /\ inc_episodes'[i].revision >= inc_episodes[i].revision
        /\ inc_episodes'[i].revision = inc_episodes[i].revision => inc_episodes'[i] = inc_episodes[i]
    BY <2>1 DEF InForward
  <2>3. n = inc_episodes'[i].revision => i \in Inc!Open'
    <3>1. SUFFICES ASSUME n = inc_episodes'[i].revision PROVE i \in Inc!Open'
      OBVIOUS
    <3>2. inc_episodes'[i].revision = inc_episodes[i].revision
      BY <2>1, <2>2, <3>1
    <3> QED BY <1>1, <2>2, <3>1, <3>2 DEF InOlder, Inc!Open
  <2> QED BY <2>1, <2>2, <2>3 DEF InOlder
<1>2. ASSUME inc_preview' = inc_preview, NEW t \in inc_preview.items
      PROVE  /\ t[1] \in Inc!Ids' /\ t[2] \in Nat /\ t[2] <= inc_episodes'[t[1]].revision
             /\ t[2] = inc_episodes'[t[1]].revision => t[3] = inc_episodes'[t[1]].failure
  <2>1. /\ t[1] \in Inc!Ids /\ t[2] \in Nat /\ t[2] <= inc_episodes[t[1]].revision
        /\ t[2] = inc_episodes[t[1]].revision => t[3] = inc_episodes[t[1]].failure
    BY <1>2 DEF InShown
  <2>2. inc_episodes[t[1]].revision \in Nat
    BY <2>1, InItems
  <2>3. /\ t[1] \in Inc!Ids' /\ inc_episodes'[t[1]].revision \in Nat
        /\ inc_episodes'[t[1]].revision >= inc_episodes[t[1]].revision
        /\ inc_episodes'[t[1]].revision = inc_episodes[t[1]].revision => inc_episodes'[t[1]] = inc_episodes[t[1]]
    BY <2>1 DEF InForward
  <2>4. t[2] <= inc_episodes'[t[1]].revision
    BY <2>1, <2>2, <2>3
  <2>5. t[2] = inc_episodes'[t[1]].revision => inc_episodes'[t[1]].revision = inc_episodes[t[1]].revision
    BY <2>1, <2>2, <2>3
  <2> QED BY <2>1, <2>3, <2>4, <2>5
<1> QED BY <1>1, <1>2 DEF InShown

InKept == UNCHANGED <<inc_todo, inc_visit>>
\* A change of one episode, which keeps it forward and opens nothing that another is open for.
LEMMA InSaves ==
  ASSUME InInv, NEW i \in Inc!Ids, NEW item \in InItem, Inc!Save(i, item),
         item.revision >= inc_episodes[i].revision,
         item.revision = inc_episodes[i].revision => item = inc_episodes[i],
         item.restriction \in Inc!Held => item.code = inc_episodes[i].code /\ i \in Inc!Open,
         inc_sequence' \in Nat, inc_sequence' >= inc_sequence, item.failure <= inc_sequence',
         inc_context' \in InContext, inc_signs' = inc_signs
  PROVE  /\ InTyped' /\ InOne' /\ Inc!TotalsAgree' /\ \A k, n : InOlder(k, n) => InOlder(k, n)'
         /\ inc_preview' = inc_preview => InShown'
<1>0. InTyped /\ InShown /\ InOne /\ Inc!TotalsAgree
  BY DEF InInv
<1>1. /\ inc_episodes' \in Seq(InItem) /\ Inc!Ids' = Inc!Ids /\ inc_totals' \in [Inc!Held \cup {"released"} -> Int]
      /\ \A j \in Inc!Ids : inc_episodes'[j] = IF j = i THEN item ELSE inc_episodes[j]
      /\ Inc!TotalsAgree'
  BY <1>0, InSaved
<1>2. \A j \in Inc!Ids : inc_episodes[j] \in InItem /\ inc_episodes[j].revision \in Nat /\ inc_episodes[j].failure \in Nat
  BY <1>0, InItems
<1>3. item.revision \in Nat
  BY DEF InItem
<1>4. InForward
  <2>1. ASSUME NEW j \in Inc!Ids
        PROVE  /\ inc_episodes'[j].revision \in Nat /\ inc_episodes'[j].revision >= inc_episodes[j].revision
               /\ inc_episodes'[j].revision = inc_episodes[j].revision => inc_episodes'[j] = inc_episodes[j]
    <3>1. CASE j = i
      BY <1>1, <1>3, <3>1
    <3>2. CASE j # i
      BY <1>1, <1>2, <3>2
    <3> QED BY <3>1, <3>2
  <2> QED BY <1>1, <2>1 DEF InForward
<1>5. \A j \in Inc!Ids : inc_episodes'[j].failure <= inc_sequence'
  <2>1. ASSUME NEW j \in Inc!Ids PROVE inc_episodes'[j].failure <= inc_sequence'
    <3>1. CASE j = i
      BY <1>1, <3>1
    <3>2. CASE j # i
      <4>1. inc_episodes[j].failure <= inc_sequence /\ inc_sequence \in Nat
        BY <1>0 DEF InTyped
      <4> QED BY <1>1, <1>2, <3>2, <4>1
    <3> QED BY <3>1, <3>2
  <2> QED BY <2>1
<1>6. InTyped'
  BY <1>0, <1>1, <1>5 DEF InTyped
<1>7. \A j \in Inc!Open' : j \in Inc!Open /\ inc_episodes'[j].code = inc_episodes[j].code
  BY <1>1 DEF Inc!Open
<1>8. InOne'
  BY <1>0, <1>7 DEF InOne
<1>9. (\A k, n : InOlder(k, n) => InOlder(k, n)') /\ (inc_preview' = inc_preview => InShown')
  BY <1>0, <1>4, InForwardKeeps
<1> QED BY <1>1, <1>6, <1>8, <1>9

\* The engine and the operator: what becomes of an episode that holds.
InNext(item, new) ==
  /\ new \in InItem /\ new.revision >= item.revision /\ new.failure = item.failure /\ new.code = item.code
  /\ new.revision = item.revision => new = item
LEMMA InBooked ==
  ASSUME NEW item \in InItem
  PROVE  /\ InNext(item, item) /\ InNext(item, Inc!Recovered(item)) /\ InNext(item, Inc!Withheld(item))
         /\ InNext(item, Inc!Released(item)) /\ Inc!Released(item).restriction = "released"
         /\ InNext(item, [Inc!Released(item) EXCEPT !.condition = "unknown"])
<1>1. item.revision \in Nat /\ item.revision + 1 > item.revision /\ item.revision + 1 \in Nat
  BY DEF InItem
<1>2. InNext(item, item)
  BY <1>1 DEF InNext
<1>3. ASSUME NEW condition \in {"active", "recovered", "unknown"}, NEW restriction \in Inc!Held \cup {"released"},
             NEW n \in Nat, n > item.revision
      PROVE  InNext(item, [item EXCEPT !.condition = condition, !.restriction = restriction, !.revision = n])
  <2> DEFINE new == [item EXCEPT !.condition = condition, !.restriction = restriction, !.revision = n]
  <2>1. new \in InItem
    BY DEF InItem
  <2>2. new.revision = n /\ new.code = item.code /\ new.failure = item.failure
    BY DEF InItem
  <2> QED BY <1>1, <1>3, <2>1, <2>2 DEF InNext
<1>4. item.condition \in {"active", "recovered", "unknown"} /\ {"held", "ready_for_release"} = Inc!Held
  BY DEF InItem, Inc!Held
<1>5. InNext(item, Inc!Recovered(item)) /\ InNext(item, Inc!Withheld(item))
  BY <1>1, <1>2, <1>3, <1>4 DEF Inc!Recovered, Inc!Withheld
<1>6. /\ Inc!Released(item) = [item EXCEPT !.condition = item.condition, !.restriction = "released", !.revision = item.revision + 1]
      /\ [Inc!Released(item) EXCEPT !.condition = "unknown"]
            = [item EXCEPT !.condition = "unknown", !.restriction = "released", !.revision = item.revision + 1]
      /\ Inc!Released(item).restriction = "released"
  BY DEF Inc!Released, InItem
<1>7. InNext(item, Inc!Released(item)) /\ InNext(item, [Inc!Released(item) EXCEPT !.condition = "unknown"])
  <2>1. "released" \in Inc!Held \cup {"released"} /\ "unknown" \in {"active", "recovered", "unknown"}
    OBVIOUS
  <2>2. \A condition \in {"active", "recovered", "unknown"} :
          InNext(item, [item EXCEPT !.condition = condition, !.restriction = "released", !.revision = item.revision + 1])
    BY <1>1, <1>3, <2>1
  <2> QED BY <1>4, <1>6, <2>1, <2>2, Zenon
<1> QED BY <1>2, <1>5, <1>6, <1>7
LEMMA InVisited ==
  ASSUME NEW item \in InItem
  PROVE  /\ InNext(item, Inc!Visited(item))
         /\ Inc!Visited(item).restriction = "released" /\ item.restriction # "released" => Inc!Evidence(item)
<1>1. Inc!Recovered(item) \in InItem /\ item.revision \in Nat
  BY InBooked DEF InNext, InItem
<1>2. InNext(item, Inc!Released(Inc!Recovered(item)))
  <2>1. InNext(item, Inc!Recovered(item)) /\ InNext(Inc!Recovered(item), Inc!Released(Inc!Recovered(item)))
    BY <1>1, InBooked
  <2>2. Inc!Released(Inc!Recovered(item)).revision = Inc!Recovered(item).revision + 1 /\ Inc!Recovered(item).revision \in Nat
    BY <1>1 DEF Inc!Released, InItem
  <2> QED BY <1>1, <2>1, <2>2 DEF InNext
<1>3. InNext(item, Inc!Visited(item))
  BY <1>2, InBooked, Zenon DEF Inc!Visited
<1>4. Inc!Withheld(item).restriction = "released" => item.restriction = "released"
  BY DEF Inc!Withheld
<1>5. Inc!Visited(item).restriction = "released" /\ item.restriction # "released" => Inc!Evidence(item)
  BY <1>4, Zenon DEF Inc!Visited
<1> QED BY <1>3, <1>5

InElse == <<inc_todo, inc_visit, inc_preview, inc_context, inc_signs>>
\* A failure, of the engine or seen by the watchdog: a new episode, or the open one of the code anew.
LEMMA InRaises ==
  ASSUME InInv, NEW c \in InCodes, Inc!RaiseIn(c), UNCHANGED InElse
  PROVE  InInv'
<1>0. InTyped /\ InRead /\ InShown /\ InOne /\ Inc!TotalsAgree
  BY DEF InInv
<1>1. inc_sequence \in Nat /\ inc_sequence' = inc_sequence + 1 /\ inc_context \in InContext
  BY <1>0 DEF InTyped, Inc!RaiseIn
<1>2. Inc!Raised(c) \in InItem /\ Inc!Raised(c).failure = inc_sequence + 1 /\ Inc!Raised(c).code = c /\ Inc!Raised(c).restriction = "held"
  BY <1>1 DEF Inc!Raised, InItem, Inc!Held
<1>3. UNCHANGED <<inc_todo, inc_visit, inc_preview, inc_context, inc_signs>>
  BY DEF InElse
<1>4. CASE Inc!OpenOf(c) = {}
  <2>1. inc_episodes' = Append(inc_episodes, Inc!Raised(c)) /\ inc_totals' = Inc!Moved("", "held")
    BY <1>4 DEF Inc!RaiseIn
  <2> DEFINE n == Len(inc_episodes) + 1
  <2>2. inc_episodes \in Seq(InItem) /\ Len(inc_episodes) \in Nat /\ Inc!Ids = 1..Len(inc_episodes)
    BY <1>0 DEF InTyped, Inc!Ids
  <2>3. /\ inc_episodes' \in Seq(InItem) /\ Inc!Ids' = 1..n /\ inc_episodes'[n] = Inc!Raised(c)
        /\ \A j \in Inc!Ids : inc_episodes'[j] = inc_episodes[j]
    <3>1. inc_episodes' \in Seq(InItem) /\ Len(inc_episodes') = n
      BY <1>2, <2>1, <2>2, AppendProperties
    <3>2. inc_episodes'[n] = Inc!Raised(c) /\ \A j \in 1..Len(inc_episodes) : inc_episodes'[j] = inc_episodes[j]
      <4>1. /\ Append(inc_episodes, Inc!Raised(c))[Len(inc_episodes) + 1] = Inc!Raised(c)
            /\ \A j \in 1..Len(inc_episodes) : Append(inc_episodes, Inc!Raised(c))[j] = inc_episodes[j]
        BY <1>2, <2>2, AppendProperties
      <4> QED BY <2>1, <4>1, Zenon
    <3>3. DOMAIN inc_episodes' = 1..n
      BY <3>1
    <3> QED BY <2>2, <3>1, <3>2, <3>3 DEF Inc!Ids
  <2>4. Inc!Ids' = Inc!Ids \cup {n} /\ n \notin Inc!Ids
    BY <2>2, <2>3
  <2> HIDE DEF n
  <2>5. \A j \in Inc!Ids : inc_episodes[j].revision \in Nat /\ inc_episodes[j].failure \in Nat /\ inc_episodes[j].failure <= inc_sequence
    BY <1>0, InItems DEF InTyped
  <2>6. InForward
    <3>1. ASSUME NEW j \in Inc!Ids PROVE inc_episodes'[j] = inc_episodes[j] /\ inc_episodes[j].revision \in Nat
      BY <2>3, <2>5
    <3> QED BY <2>4, <3>1 DEF InForward
  <2>7. inc_totals' \in [Inc!Held \cup {"released"} -> Int] /\ Inc!TotalsAgree'
    <3>1. inc_totals' = [r \in DOMAIN inc_totals |-> inc_totals[r] - (IF r = "" THEN 1 ELSE 0) + (IF r = "held" THEN 1 ELSE 0)]
      BY <2>1 DEF Inc!Moved
    <3>2. inc_totals \in [Inc!Held \cup {"released"} -> Int]
      BY <1>0 DEF InTyped
    <3>3. inc_totals' \in [Inc!Held \cup {"released"} -> Int]
      <4>1. \A r \in DOMAIN inc_totals : inc_totals[r] - (IF r = "" THEN 1 ELSE 0) + (IF r = "held" THEN 1 ELSE 0) \in Int
        <5>1. \A x \in Int, P, Q \in BOOLEAN : x - (IF P THEN 1 ELSE 0) + (IF Q THEN 1 ELSE 0) \in Int
          OBVIOUS
        <5>2. ASSUME NEW r \in DOMAIN inc_totals PROVE inc_totals[r] \in Int /\ (r = "") \in BOOLEAN /\ (r = "held") \in BOOLEAN
          BY <3>2
        <5> QED BY <5>1, <5>2, Zenon
      <4> QED BY <3>1, <3>2, <4>1
    <3>4. ASSUME NEW r \in DOMAIN inc_totals' PROVE inc_totals'[r] = Cardinality(InOf(r)')
      <4>1. r \in DOMAIN inc_totals
        BY <3>1, <3>4
      <4>2. inc_totals[r] = Cardinality(InOf(r)) /\ inc_totals[r] \in Int
        BY <1>0, <3>2, <4>1, InCardinality DEF Inc!TotalsAgree, InOf
      <4>3. r # ""
        BY <3>2, <4>1 DEF Inc!Held
      <4>4. InOf(r)' = IF r = "held" THEN InOf(r) \cup {n} ELSE InOf(r)
        BY <1>2, <2>3, <2>4 DEF InOf
      <4>5. IsFiniteSet(InOf(r)) /\ Cardinality(InOf(r)) \in Nat /\ n \notin InOf(r)
        BY <1>0, <2>4, InFinite DEF InOf
      <4>6. Cardinality(InOf(r) \cup {n}) = Cardinality(InOf(r)) + 1
        BY <4>5, FS_AddElement
      <4>7. CASE r = "held"
        <5>1. inc_totals'[r] = inc_totals[r] - 0 + 1
          BY <3>1, <4>1, <4>3, <4>7
        <5> QED BY <4>2, <4>4, <4>6, <4>7, <5>1
      <4>8. CASE r # "held"
        <5>1. inc_totals'[r] = inc_totals[r] - 0 + 0
          BY <3>1, <4>1, <4>3, <4>8
        <5> QED BY <4>2, <4>4, <4>8, <5>1
      <4> QED BY <4>7, <4>8
    <3> QED BY <3>3, <3>4, InCardinality DEF Inc!TotalsAgree, InOf
  <2>8. InTyped'
    <3>1. \A j \in Inc!Ids' : inc_episodes'[j].failure <= inc_sequence'
      <4>1. ASSUME NEW j \in Inc!Ids' PROVE inc_episodes'[j].failure <= inc_sequence'
        <5>1. CASE j = n
          BY <1>1, <1>2, <2>3, <5>1
        <5>2. CASE j \in Inc!Ids
          BY <1>1, <2>3, <2>5, <5>2
        <5> QED BY <2>4, <5>1, <5>2
      <4> QED BY <4>1
    <3> QED BY <1>0, <1>1, <1>3, <2>3, <2>7, <3>1 DEF InTyped
  <2>9. InOne'
    <3>1. ASSUME NEW j \in Inc!Open' PROVE (j \in Inc!Open /\ inc_episodes'[j].code = inc_episodes[j].code) \/ (j = n /\ inc_episodes'[j].code = c)
      BY <1>2, <2>3, <2>4 DEF Inc!Open
    <3>2. \A j \in Inc!Open : inc_episodes[j].code # c
      BY <1>4 DEF Inc!OpenOf
    <3> QED BY <1>0, <3>1, <3>2 DEF InOne
  <2>10. (\A k, m : InOlder(k, m) => InOlder(k, m)') /\ InShown'
    BY <1>0, <1>3, <2>6, InForwardKeeps
  <2>11. InRead'
    BY <1>0, <1>3, <2>10 DEF InRead, Inc!NoVisit
  <2> QED BY <2>7, <2>8, <2>9, <2>10, <2>11 DEF InInv
<1>5. CASE Inc!OpenOf(c) # {}
  <2>1. PICK i \in Inc!OpenOf(c) : Inc!Save(i, [Inc!Raised(c) EXCEPT !.revision = inc_episodes[i].revision + 1])
    BY <1>5 DEF Inc!RaiseIn
  <2>2. i \in Inc!Ids /\ i \in Inc!Open /\ inc_episodes[i].code = c
    BY DEF Inc!OpenOf, Inc!Open
  <2>3. inc_episodes[i].revision \in Nat
    BY <1>0, <2>2, InItems
  <2> DEFINE item == [Inc!Raised(c) EXCEPT !.revision = inc_episodes[i].revision + 1]
  <2>4. item \in InItem /\ item.revision = inc_episodes[i].revision + 1 /\ item.failure = inc_sequence + 1 /\ item.code = c
    BY <1>2, <2>3 DEF InItem
  <2>5. Inc!Save(i, item)
    BY <2>1
  <2> HIDE DEF item
  <2>6. /\ InTyped' /\ InOne' /\ Inc!TotalsAgree' /\ \A k, m : InOlder(k, m) => InOlder(k, m)'
        /\ inc_preview' = inc_preview => InShown'
    BY <1>1, <1>3, <2>2, <2>3, <2>4, <2>5, InSaves
  <2>7. InRead'
    BY <1>0, <1>3, <2>6 DEF InRead, Inc!NoVisit
  <2> QED BY <1>3, <2>6, <2>7 DEF InInv
<1> QED BY <1>4, <1>5

\* The book is not touched.
InBook == <<inc_episodes, inc_totals, inc_sequence, inc_preview>>
LEMMA InAside ==
  ASSUME InInv, UNCHANGED InBook, inc_context' \in InContext, DOMAIN inc_signs' = DOMAIN inc_signs,
         InRead'
  PROVE  InInv'
<1>1. UNCHANGED <<inc_episodes, inc_totals, inc_sequence, inc_preview>>
  BY DEF InBook
<1>2. Inc!Ids' = Inc!Ids /\ Inc!Open' = Inc!Open
  BY <1>1 DEF Inc!Ids, Inc!Open
<1> QED BY <1>1, <1>2 DEF InInv, InTyped, InShown, InOne, Inc!TotalsAgree

\* What holds of an episode when it is released: a reconciliation of this connection since it failed.
InEvident(i) ==
  \/ Inc!Unused(inc_episodes[i])
  \/ inc_proof.context = inc_context /\ inc_proof.started >= inc_episodes[i].failure
InReviewed ==
  /\ inc_receipt = {}
  /\ \A i \in inc_receipt' : Inc!Releases(i) /\ \E t \in inc_preview.items : t[1] = i /\ t[3] = inc_episodes[i].failure
InSteps == Inc!ReleasedAfterFailure /\ Inc!BatchAsReviewed
LEMMA InEvidence == \A i : Inc!Evidence(inc_episodes[i]) => InEvident(i)
  BY DEF Inc!Evidence, Inc!ProofAfter, InEvident

\* One episode is saved: it alone may be released.
LEMMA InOneReleased ==
  ASSUME InInv, NEW i \in Inc!Ids, NEW item \in InItem, Inc!Save(i, item), inc_receipt' = inc_receipt,
         item.restriction = "released" /\ i \in Inc!Open => InEvident(i)
  PROVE  InSteps
<1>1. \A j \in Inc!Ids : inc_episodes'[j] = IF j = i THEN item ELSE inc_episodes[j]
  BY InSaved DEF InInv
<1>2. \A j \in Inc!Open : inc_episodes[j].restriction # "released"
  BY DEF Inc!Open, Inc!Held
<1>3. ASSUME NEW j \in Inc!Ids, Inc!Releases(j) PROVE InEvident(j)
  <2>1. j \in Inc!Open /\ inc_episodes'[j].restriction = "released"
    BY <1>3 DEF Inc!Releases
  <2>2. j = i
    BY <1>1, <1>2, <2>1
  <2> QED BY <1>1, <2>1, <2>2
<1> QED BY <1>3 DEF InSteps, Inc!ReleasedAfterFailure, Inc!BatchAsReviewed, InEvident

LEMMA InNothingReleased ==
  ASSUME UNCHANGED <<inc_episodes, inc_receipt>>
  PROVE  InSteps
  BY DEF InSteps, Inc!ReleasedAfterFailure, Inc!BatchAsReviewed, Inc!Releases, Inc!Open, Inc!Held

\* The transaction of a visit: an episode that has not changed since it was read still holds.
LEMMA InCommit == ASSUME InInv, Inc!Commit PROVE InInv' /\ InSteps
<1>0. InTyped /\ InRead /\ InShown /\ InOne /\ Inc!TotalsAgree
  BY DEF InInv
<1>1. /\ inc_visit # Inc!NoVisit /\ inc_visit' = Inc!NoVisit
      /\ UNCHANGED <<inc_sequence, inc_context, inc_signs, inc_todo, inc_preview, inc_receipt>>
  BY DEF Inc!Commit, Inc!Quiet, Inc!engine, Inc!batch
<1> DEFINE i == inc_visit.id
<1>2. InOlder(i, inc_visit.revision)
  BY <1>0, <1>1 DEF InRead
<1>3. CASE inc_running /\ inc_episodes[i].revision = inc_visit.revision
  <2>1. i \in Inc!Ids /\ i \in Inc!Open /\ inc_episodes[i] \in InItem
    BY <1>0, <1>2, <1>3, InItems DEF InOlder
  <2> DEFINE item == Inc!Visited(inc_episodes[i])
  <2>2. Inc!Save(i, item)
    BY <1>3 DEF Inc!Commit
  <2>3. InNext(inc_episodes[i], item) /\ (item.restriction = "released" /\ inc_episodes[i].restriction # "released" => Inc!Evidence(inc_episodes[i]))
    BY <2>1, InVisited
  <2>4. inc_episodes[i].restriction # "released"
    BY <2>1 DEF Inc!Open, Inc!Held
  <2>5. inc_episodes[i].failure <= inc_sequence /\ inc_sequence \in Nat /\ inc_context \in InContext
    BY <1>0, <2>1 DEF InTyped
  <2> HIDE DEF item, i
  <2>6. item \in InItem /\ item.revision >= inc_episodes[i].revision /\ item.failure = inc_episodes[i].failure
        /\ item.code = inc_episodes[i].code /\ (item.revision = inc_episodes[i].revision => item = inc_episodes[i])
    BY <2>3 DEF InNext
  <2>7. inc_sequence' \in Nat /\ inc_sequence' >= inc_sequence /\ item.failure <= inc_sequence'
        /\ inc_context' \in InContext /\ inc_signs' = inc_signs
    BY <1>1, <2>5, <2>6
  <2>8. /\ InTyped' /\ InOne' /\ Inc!TotalsAgree' /\ \A k, m : InOlder(k, m) => InOlder(k, m)'
        /\ inc_preview' = inc_preview => InShown'
    BY <2>1, <2>2, <2>6, <2>7, InSaves
  <2>9. InRead'
    BY <1>0, <1>1, <2>8 DEF InRead, Inc!NoVisit
  <2>10. InSteps
    BY <1>1, <2>1, <2>2, <2>3, <2>4, <2>6, InOneReleased, InEvidence
  <2> QED BY <1>1, <2>8, <2>9, <2>10 DEF InInv
<1>4. CASE ~(inc_running /\ inc_episodes[i].revision = inc_visit.revision)
  <2>1. UNCHANGED <<inc_episodes, inc_totals>>
    BY <1>4 DEF Inc!Commit
  <2>2. inc_context' \in InContext /\ UNCHANGED InBook /\ DOMAIN inc_signs' = DOMAIN inc_signs
    BY <1>0, <1>1, <2>1 DEF InTyped, InBook
  <2>3. InRead'
    BY <1>0, <1>1, <2>1 DEF InRead, Inc!NoVisit, InOlder, Inc!Ids, Inc!Open
  <2> QED BY <1>1, <2>1, <2>2, <2>3, InAside, InNothingReleased
<1> QED BY <1>3, <1>4

\* The operator releases one episode, or closes the investigation of a released one.
LEMMA InReview == ASSUME InInv, Inc!Review PROVE InInv' /\ InSteps
<1>0. InTyped /\ InRead /\ InShown /\ InOne /\ Inc!TotalsAgree
  BY DEF InInv
<1>1. PICK i \in Inc!Open : Inc!Ready(i) /\ Inc!Save(i, Inc!Released(inc_episodes[i]))
  BY DEF Inc!Review
<1>2. UNCHANGED <<inc_sequence, inc_context, inc_signs, inc_todo, inc_visit, inc_preview, inc_receipt>>
  BY DEF Inc!Review, Inc!engine, Inc!batch, Inc!cycle
<1> DEFINE item == Inc!Released(inc_episodes[i])
<1>3. i \in Inc!Ids /\ inc_episodes[i] \in InItem
  BY <1>0, InItems DEF Inc!Open
<1>4. InNext(inc_episodes[i], item) /\ item.restriction = "released" /\ Inc!Save(i, item)
  BY <1>1, <1>3, InBooked
<1>5. InEvident(i)
  BY <1>1, InEvidence DEF Inc!Ready
<1>6. inc_episodes[i].failure <= inc_sequence /\ inc_sequence \in Nat /\ inc_context \in InContext
  BY <1>0, <1>3 DEF InTyped
<1> HIDE DEF item
<1>7. item \in InItem /\ item.revision >= inc_episodes[i].revision /\ item.failure = inc_episodes[i].failure
      /\ item.code = inc_episodes[i].code /\ (item.revision = inc_episodes[i].revision => item = inc_episodes[i])
  BY <1>4 DEF InNext
<1>8. inc_sequence' \in Nat /\ inc_sequence' >= inc_sequence /\ item.failure <= inc_sequence'
      /\ inc_context' \in InContext /\ inc_signs' = inc_signs
  BY <1>2, <1>6, <1>7
<1>9. /\ InTyped' /\ InOne' /\ Inc!TotalsAgree' /\ \A k, m : InOlder(k, m) => InOlder(k, m)'
      /\ inc_preview' = inc_preview => InShown'
  BY <1>3, <1>4, <1>7, <1>8, InSaves
<1>10. InRead'
  BY <1>0, <1>2, <1>9 DEF InRead, Inc!NoVisit
<1>11. InSteps
  BY <1>2, <1>3, <1>4, <1>5, <1>7, InOneReleased
<1> QED BY <1>2, <1>9, <1>10, <1>11 DEF InInv

LEMMA InClosing ==
  ASSUME NEW old \in InItem, NEW n \in Nat
  PROVE  LET new == [old EXCEPT !.investigation = "closed", !.revision = n]
         IN new \in InItem /\ new.revision = n /\ new.failure = old.failure /\ new.restriction = old.restriction
<1> DEFINE new == [old EXCEPT !.investigation = "closed", !.revision = n]
<1>1. new \in InItem
  BY DEF InItem
<1>2. new.revision = n /\ new.failure = old.failure /\ new.restriction = old.restriction
  BY DEF InItem
<1> QED BY <1>1, <1>2
LEMMA InClosed == ASSUME InInv, Inc!CloseInvestigation PROVE InInv' /\ InSteps
<1>0. InTyped /\ InRead /\ InShown /\ InOne /\ Inc!TotalsAgree
  BY DEF InInv
<1>1. PICK i \in Inc!Ids \ Inc!Open :
        Inc!Save(i, [inc_episodes[i] EXCEPT !.investigation = "closed", !.revision = inc_episodes[i].revision + 1])
  BY DEF Inc!CloseInvestigation
<1>2. UNCHANGED <<inc_sequence, inc_context, inc_signs, inc_todo, inc_visit, inc_preview, inc_receipt>>
  BY DEF Inc!CloseInvestigation, Inc!engine, Inc!batch, Inc!cycle
<1> DEFINE item == [inc_episodes[i] EXCEPT !.investigation = "closed", !.revision = inc_episodes[i].revision + 1]
<1>3. inc_episodes[i] \in InItem /\ inc_episodes[i].revision \in Nat /\ inc_episodes[i].restriction = "released"
  BY <1>0, InItems DEF Inc!Open
<1>4. Inc!Save(i, item)
  BY <1>1
<1>5. item \in InItem /\ item.revision = inc_episodes[i].revision + 1 /\ item.failure = inc_episodes[i].failure
      /\ item.restriction = "released"
  <2>1. inc_episodes[i].revision + 1 \in Nat
    BY <1>3
  <2> QED BY <1>3, <2>1, InClosing
<1>6. inc_episodes[i].failure <= inc_sequence /\ inc_sequence \in Nat /\ inc_context \in InContext
  BY <1>0 DEF InTyped
<1> HIDE DEF item
<1>7. item.revision >= inc_episodes[i].revision /\ item.revision # inc_episodes[i].revision /\ item.restriction \notin Inc!Held
  BY <1>3, <1>5 DEF Inc!Held
<1>8. inc_sequence' \in Nat /\ inc_sequence' >= inc_sequence /\ item.failure <= inc_sequence'
      /\ inc_context' \in InContext /\ inc_signs' = inc_signs
  BY <1>2, <1>5, <1>6
<1>9. /\ InTyped' /\ InOne' /\ Inc!TotalsAgree' /\ \A k, m : InOlder(k, m) => InOlder(k, m)'
      /\ inc_preview' = inc_preview => InShown'
  BY <1>4, <1>5, <1>7, <1>8, InSaves
<1>10. InRead'
  BY <1>0, <1>2, <1>9 DEF InRead, Inc!NoVisit
<1>11. InSteps
  BY <1>2, <1>4, <1>5, InOneReleased
<1> QED BY <1>2, <1>9, <1>10, <1>11 DEF InInv

\* The batch: what was previewed and has not changed since is released, all of it.
LEMMA InBatch == ASSUME InInv, Inc!BatchConfirm PROVE InInv' /\ InSteps
<1>0. InTyped /\ InRead /\ InShown /\ InOne /\ Inc!TotalsAgree
  BY DEF InInv
<1> DEFINE chosen == {t[1] : t \in inc_preview.items}
<1>1. /\ inc_receipt = {} /\ inc_receipt' = chosen /\ \A t \in inc_preview.items : Inc!Unchanged(t)
      /\ inc_episodes' = [i \in Inc!Ids |-> IF i \in chosen THEN Inc!Released(inc_episodes[i]) ELSE inc_episodes[i]]
      /\ inc_totals' = [inc_totals EXCEPT !["ready_for_release"] = inc_totals["ready_for_release"] - Cardinality(chosen),
                                          !["released"] = inc_totals["released"] + Cardinality(chosen)]
  BY InCardinality DEF Inc!BatchConfirm
<1>2. UNCHANGED <<inc_sequence, inc_context, inc_signs, inc_todo, inc_visit, inc_preview>>
  BY DEF Inc!BatchConfirm, Inc!engine, Inc!cycle
<1>3. ASSUME NEW i \in chosen
      PROVE  /\ i \in Inc!Open /\ i \in InOf("ready_for_release") /\ InEvident(i)
             /\ \E t \in inc_preview.items : t[1] = i /\ t[3] = inc_episodes[i].failure
  <2>1. PICK t \in inc_preview.items : t[1] = i
    BY <1>3
  <2>2. Inc!Ready(i) /\ inc_episodes[i].revision = t[2]
    BY <1>1, <2>1 DEF Inc!Unchanged
  <2>3. t[3] = inc_episodes[i].failure
    BY <1>0, <2>1, <2>2 DEF InShown
  <2>4. i \in Inc!Open /\ i \in Inc!Ids /\ inc_episodes[i].restriction = "ready_for_release" /\ InEvident(i)
    BY <2>2, InEvidence DEF Inc!Ready, Inc!Open
  <2> QED BY <2>1, <2>3, <2>4 DEF InOf
<1> HIDE DEF chosen
<1>4. \A j \in Inc!Ids : inc_episodes[j] \in InItem /\ inc_episodes[j].revision \in Nat /\ inc_episodes[j].failure \in Nat
  BY <1>0, InItems
<1>5. /\ Inc!Ids' = Inc!Ids
      /\ \A j \in Inc!Ids : inc_episodes'[j] = IF j \in chosen THEN Inc!Released(inc_episodes[j]) ELSE inc_episodes[j]
  <2>1. DOMAIN inc_episodes' = Inc!Ids
    BY <1>1
  <2> QED BY <1>1, <2>1 DEF Inc!Ids
<1>6. \A j \in Inc!Ids : InNext(inc_episodes[j], inc_episodes'[j]) /\ (j \in chosen => inc_episodes'[j].restriction = "released")
  <2>1. ASSUME NEW j \in Inc!Ids PROVE InNext(inc_episodes[j], inc_episodes'[j]) /\ (j \in chosen => inc_episodes'[j].restriction = "released")
    <3>1. /\ InNext(inc_episodes[j], inc_episodes[j]) /\ InNext(inc_episodes[j], Inc!Released(inc_episodes[j]))
          /\ Inc!Released(inc_episodes[j]).restriction = "released"
      BY <1>4, InBooked
    <3> QED BY <1>5, <3>1
  <2> QED BY <2>1
<1>7. inc_episodes' \in Seq(InItem) /\ \A j \in Inc!Ids' : inc_episodes'[j].failure <= inc_sequence'
  <2>1. Inc!Ids = 1..Len(inc_episodes) /\ Len(inc_episodes) \in Nat
    BY <1>0 DEF InTyped, Inc!Ids
  <2>2. \A j \in 1..Len(inc_episodes) : inc_episodes'[j] \in InItem
    BY <1>6, <2>1 DEF InNext
  <2>3. inc_episodes' = [j \in 1..Len(inc_episodes) |-> inc_episodes'[j]]
    BY <1>1, <2>1
  <2>4. inc_episodes' \in Seq(InItem)
    BY <2>1, <2>2, <2>3, SeqDef
  <2> QED BY <1>0, <1>2, <1>5, <1>6, <2>4 DEF InNext, InTyped
<1>8. InForward
  BY <1>5, <1>6 DEF InForward, InNext, InItem
<1>9. IsFiniteSet(chosen) /\ chosen \subseteq InOf("ready_for_release") /\ chosen \cap InOf("released") = {} /\ Cardinality(chosen) \in Nat
  <2>1. chosen \subseteq InOf("ready_for_release")
    BY <1>3
  <2>2. IsFiniteSet(InOf("ready_for_release"))
    BY <1>0, InFinite
  <2>3. IsFiniteSet(chosen)
    BY <2>1, <2>2, FS_Subset
  <2> QED BY <2>1, <2>3, FS_CardinalityType DEF InOf
<1>10. /\ InOf("ready_for_release")' = InOf("ready_for_release") \ chosen /\ InOf("released")' = InOf("released") \cup chosen
       /\ InOf("held")' = InOf("held")
  <2>1. \A j \in Inc!Ids : (j \in chosen => inc_episodes'[j].restriction = "released" /\ inc_episodes[j].restriction = "ready_for_release")
                           /\ (j \notin chosen => inc_episodes'[j] = inc_episodes[j])
    BY <1>5, <1>6, <1>9 DEF InOf
  <2>2. chosen \subseteq Inc!Ids
    BY <1>9 DEF InOf
  <2> QED BY <1>5, <2>1, <2>2 DEF InOf
<1>11. /\ inc_totals \in [Inc!Held \cup {"released"} -> Int] /\ Inc!Held = {"held", "ready_for_release"}
       /\ \A r \in {"held", "ready_for_release", "released"} : inc_totals[r] = Cardinality(InOf(r)) /\ Cardinality(InOf(r)) \in Nat /\ IsFiniteSet(InOf(r))
  <2>1. inc_totals \in [Inc!Held \cup {"released"} -> Int] /\ Inc!Held = {"held", "ready_for_release"}
    BY <1>0 DEF InTyped, Inc!Held
  <2>2. \A r \in {"held", "ready_for_release", "released"} : r \in DOMAIN inc_totals
    BY <2>1
  <2> QED BY <1>0, <2>1, <2>2, InCardinality, InFinite DEF Inc!TotalsAgree, InOf
<1>12. /\ Cardinality(InOf("ready_for_release") \ chosen) = Cardinality(InOf("ready_for_release")) - Cardinality(chosen)
       /\ Cardinality(InOf("released") \cup chosen) = Cardinality(InOf("released")) + Cardinality(chosen)
  <2>1. InOf("ready_for_release") \cap chosen = chosen
    BY <1>9
  <2>2. Cardinality(InOf("ready_for_release") \ chosen) = Cardinality(InOf("ready_for_release")) - Cardinality(InOf("ready_for_release") \cap chosen)
    BY <1>9, <1>11, FS_Difference
  <2>3. Cardinality(InOf("released") \cup chosen) = Cardinality(InOf("released")) + Cardinality(chosen) - Cardinality(InOf("released") \cap chosen)
    BY <1>9, <1>11, FS_Union
  <2>4. Cardinality(InOf("released") \cap chosen) = 0
    <3>1. InOf("released") \cap chosen = {}
      BY <1>9
    <3> QED BY <3>1, FS_EmptySet
  <2>5. Cardinality(InOf("ready_for_release") \ chosen) = Cardinality(InOf("ready_for_release")) - Cardinality(chosen)
    BY <2>1, <2>2, Zenon
  <2>6. Cardinality(InOf("released")) \in Nat
    BY <1>11, Zenon
  <2>7. Cardinality(InOf("released") \cup chosen) = Cardinality(InOf("released")) + Cardinality(chosen)
    <3>1. Cardinality(InOf("released")) + Cardinality(chosen) - Cardinality(InOf("released") \cap chosen) = Cardinality(InOf("released")) + Cardinality(chosen)
      BY <1>9, <2>4, <2>6
    <3> QED BY <2>3, <3>1, Zenon
  <2> QED BY <2>5, <2>7
<1>13. /\ inc_totals' \in [Inc!Held \cup {"released"} -> Int]
       /\ inc_totals'["held"] = inc_totals["held"]
       /\ inc_totals'["ready_for_release"] = inc_totals["ready_for_release"] - Cardinality(chosen)
       /\ inc_totals'["released"] = inc_totals["released"] + Cardinality(chosen)
  BY <1>1, <1>9, <1>11
<1>14. Inc!TotalsAgree'
  <2>1. ASSUME NEW r \in DOMAIN inc_totals' PROVE inc_totals'[r] = Cardinality(InOf(r)')
    <3>1. r \in {"held", "ready_for_release", "released"}
      BY <1>11, <1>13, <2>1
    <3> QED BY <1>10, <1>11, <1>12, <1>13, <3>1
  <2> QED BY <2>1, InCardinality DEF Inc!TotalsAgree, InOf
<1>15. InTyped'
  BY <1>0, <1>2, <1>7, <1>13 DEF InTyped
<1>16. InOne'
  <2>1. \A j \in Inc!Open' : j \in Inc!Open /\ inc_episodes'[j].code = inc_episodes[j].code
    BY <1>5, <1>6 DEF Inc!Open, Inc!Held, InNext
  <2> QED BY <1>0, <2>1 DEF InOne
<1>17. InRead' /\ InShown'
  <2>1. (\A k, m : InOlder(k, m) => InOlder(k, m)') /\ InShown'
    BY <1>0, <1>2, <1>8, InForwardKeeps
  <2> QED BY <1>0, <1>2, <2>1 DEF InRead, Inc!NoVisit
<1>18. \A i \in Inc!Ids : (Inc!Releases(i) <=> i \in chosen)
  <2>1. \A j \in Inc!Open : inc_episodes[j].restriction # "released" /\ j \in Inc!Ids
    BY DEF Inc!Open, Inc!Held
  <2> QED BY <1>3, <1>5, <1>6, <2>1 DEF Inc!Releases
<1>19. InSteps
  <2>1. \A i \in chosen : i \in Inc!Ids
    BY <1>9 DEF InOf
  <2>2. Inc!ReleasedAfterFailure
    BY <1>3, <1>18 DEF Inc!ReleasedAfterFailure, InEvident
  <2>3. Inc!BatchAsReviewed
    BY <1>1, <1>3, <1>18, <2>1 DEF Inc!BatchAsReviewed
  <2> QED BY <2>2, <2>3 DEF InSteps
<1> QED BY <1>14, <1>15, <1>16, <1>17, <1>19 DEF InInv

InQuiet ==
  Inc!Sign \/ Inc!BeginReconcile \/ Inc!EndReconcile \/ Inc!Invalidate \/ Inc!Retire \/ Inc!Reconnect
  \/ Inc!Stop \/ Inc!Restart \/ Inc!Refresh \/ Inc!Evaluate \/ Inc!Preview
LEMMA InQuietBook ==
  ASSUME InQuiet
  PROVE  UNCHANGED <<inc_episodes, inc_totals, inc_sequence, inc_receipt>>
<1>1. CASE Inc!Sign
  BY <1>1 DEF Inc!Sign, Inc!batch
<1>2. CASE Inc!BeginReconcile
  BY <1>2 DEF Inc!BeginReconcile, Inc!batch
<1>3. CASE Inc!EndReconcile
  BY <1>3 DEF Inc!EndReconcile, Inc!batch
<1>4. CASE Inc!Invalidate \/ Inc!Retire
  BY <1>4 DEF Inc!Invalidate, Inc!Retire, Inc!batch
<1>5. CASE Inc!Reconnect \/ Inc!Stop \/ Inc!Restart
  BY <1>5 DEF Inc!Reconnect, Inc!Stop, Inc!Restart, Inc!batch
<1>6. CASE Inc!Refresh \/ Inc!Evaluate \/ Inc!Preview
  BY <1>6 DEF Inc!Refresh, Inc!Evaluate, Inc!Preview, Inc!batch
<1> QED BY <1>1, <1>2, <1>3, <1>4, <1>5, <1>6 DEF InQuiet

LEMMA InQuietKeeps == ASSUME InInv, InQuiet PROVE InInv'
<1>0. InTyped /\ InRead /\ InShown /\ inc_context \in InContext
  BY DEF InInv, InTyped
<1>1. UNCHANGED <<inc_episodes, inc_totals, inc_sequence, inc_receipt>> /\ Inc!Ids' = Inc!Ids /\ Inc!Open' = Inc!Open
  BY InQuietBook DEF Inc!Ids, Inc!Open
<1>2. \A i, n : InOlder(i, n) => InOlder(i, n)'
  BY <1>1 DEF InOlder
<1>3. ASSUME UNCHANGED <<inc_todo, inc_visit>> PROVE InRead'
  BY <1>0, <1>2, <1>3 DEF InRead, Inc!NoVisit
<1>4. ASSUME inc_context' \in InContext, DOMAIN inc_signs' = DOMAIN inc_signs, inc_preview' = inc_preview, InRead' PROVE InInv'
  BY <1>1, <1>4, InAside DEF InBook
<1>5. CASE Inc!Sign
  BY <1>0, <1>3, <1>4, <1>5 DEF Inc!Sign, Inc!engine, Inc!cycle, Inc!batch
<1>6. CASE Inc!BeginReconcile \/ Inc!EndReconcile
  BY <1>0, <1>3, <1>4, <1>6 DEF Inc!BeginReconcile, Inc!EndReconcile, Inc!engine, Inc!cycle, Inc!batch
<1>7. CASE Inc!Invalidate \/ Inc!Retire \/ Inc!Stop
  BY <1>0, <1>3, <1>4, <1>7 DEF Inc!Invalidate, Inc!Retire, Inc!Stop, Inc!engine, Inc!cycle, Inc!batch
<1>8. CASE Inc!Reconnect
  <2>1. inc_context' \in InContext
    BY <1>0, <1>8 DEF Inc!Reconnect, InContext
  <2> QED BY <1>3, <1>4, <1>8, <2>1 DEF Inc!Reconnect, Inc!cycle, Inc!batch
<1>9. CASE Inc!Restart
  <2>1. inc_context' \in InContext
    BY <1>0, <1>9 DEF Inc!Restart, InContext
  <2>2. inc_visit = Inc!NoVisit /\ inc_visit' = inc_visit /\ inc_todo' = {}
    BY <1>9 DEF Inc!Restart, Inc!Quiet
  <2>3. InRead'
    BY <2>2 DEF InRead, Inc!NoVisit
  <2> QED BY <1>4, <1>9, <2>1, <2>3 DEF Inc!Restart, Inc!batch
<1>10. CASE Inc!Refresh
  <2>1. inc_todo' = {<<i, inc_episodes[i].revision>> : i \in Inc!Open} /\ inc_visit' = Inc!NoVisit /\ UNCHANGED <<inc_context, inc_signs, inc_preview>>
    BY <1>10 DEF Inc!Refresh, Inc!Quiet, Inc!engine, Inc!batch
  <2>2. ASSUME NEW i \in Inc!Open PROVE InOlder(i, inc_episodes[i].revision)
    <3>1. i \in Inc!Ids
      BY DEF Inc!Open
    <3>2. inc_episodes[i].revision \in Nat
      BY <1>0, <3>1, InItems
    <3> QED BY <3>1, <3>2 DEF InOlder
  <2>3. \A t \in inc_todo' : InOlder(t[1], t[2])'
    BY <1>2, <2>1, <2>2
  <2>4. InRead'
    BY <2>1, <2>3 DEF InRead, Inc!NoVisit
  <2> QED BY <1>0, <1>4, <2>1, <2>4
<1>11. CASE Inc!Evaluate
  <2>1. PICK t \in inc_todo : /\ inc_todo' = inc_todo \ {t}
                              /\ inc_visit' = [id |-> t[1], revision |-> t[2], evidence |-> Inc!Evidence(inc_episodes[t[1]])]
    BY <1>11 DEF Inc!Evaluate
  <2>2. InOlder(inc_visit.id, inc_visit.revision)'
    <3>1. inc_visit'.id = t[1] /\ inc_visit'.revision = t[2] /\ InOlder(t[1], t[2])'
      BY <1>0, <1>2, <2>1 DEF InRead
    <3> QED BY <3>1 DEF InOlder
  <2>3. \A u \in inc_todo' : InOlder(u[1], u[2])'
    BY <1>0, <1>2, <2>1 DEF InRead
  <2>4. InRead'
    BY <2>2, <2>3 DEF InRead, Inc!NoVisit
  <2> QED BY <1>0, <1>4, <1>11, <2>4 DEF Inc!Evaluate, Inc!engine, Inc!batch
<1>12. CASE Inc!Preview
  <2>1. /\ inc_preview'.items = {<<i, inc_episodes[i].revision, inc_episodes[i].failure>> : i \in
             {j \in Inc!Open : inc_episodes[j].code \in Inc!ROUTINE /\ inc_episodes[j].restriction = "ready_for_release"}}
        /\ UNCHANGED <<inc_context, inc_signs, inc_todo, inc_visit>>
    BY <1>12 DEF Inc!Preview, Inc!engine, Inc!cycle
  <2>2. \A i \in Inc!Open : i \in Inc!Ids /\ inc_episodes[i].revision \in Nat
    BY <1>0, InItems DEF Inc!Open
  <2>3. InShown'
    BY <1>1, <2>1, <2>2 DEF InShown
  <2>4. InRead'
    BY <1>3, <2>1
  <2> QED BY <1>0, <1>1, <2>1, <2>3, <2>4 DEF InInv, InTyped, InOne, Inc!TotalsAgree
<1> QED BY <1>1, <1>5, <1>6, <1>7, <1>8, <1>9, <1>10, <1>11, <1>12 DEF InQuiet

\* A failure releases nothing.
LEMMA InRaisesOnly == ASSUME InInv, NEW c \in InCodes, Inc!RaiseIn(c), inc_receipt' = inc_receipt PROVE InSteps
<1>1. ASSUME NEW i \in Inc!Ids, Inc!Releases(i) PROVE FALSE
  <2>1. i \in Inc!Open /\ inc_episodes'[i].restriction = "released" /\ inc_episodes[i].restriction # "released"
    BY <1>1 DEF Inc!Releases, Inc!Open, Inc!Held
  <2>2. CASE Inc!OpenOf(c) = {}
    <3>1. inc_episodes' = Append(inc_episodes, Inc!Raised(c))
      BY <2>2 DEF Inc!RaiseIn
    <3>2. i \in 1..Len(inc_episodes) /\ inc_episodes \in Seq(InItem)
      BY <1>1 DEF InInv, InTyped, Inc!Ids
    <3>3. inc_episodes'[i] = inc_episodes[i]
      BY <3>1, <3>2
    <3> QED BY <2>1, <3>3
  <2>3. CASE Inc!OpenOf(c) # {}
    <3>1. PICK j \in Inc!OpenOf(c) : Inc!Save(j, [Inc!Raised(c) EXCEPT !.revision = inc_episodes[j].revision + 1])
      BY <2>3 DEF Inc!RaiseIn
    <3>2. [Inc!Raised(c) EXCEPT !.revision = inc_episodes[j].revision + 1].restriction = "held"
      BY DEF Inc!Raised
    <3>3. inc_episodes' = [inc_episodes EXCEPT ![j] = [Inc!Raised(c) EXCEPT !.revision = inc_episodes[j].revision + 1]]
      BY <3>1 DEF Inc!Save
    <3>4. inc_episodes'[i] = inc_episodes[i] \/ inc_episodes'[i] = [Inc!Raised(c) EXCEPT !.revision = inc_episodes[j].revision + 1]
      BY <3>3 DEF Inc!Ids
    <3> QED BY <2>1, <3>2, <3>4
  <2> QED BY <2>2, <2>3
<1> QED BY <1>1 DEF InSteps, Inc!ReleasedAfterFailure, Inc!BatchAsReviewed

\* The book of incidents: its counts, what was read of it, and what may be released.
THEOREM IncidentsInductive == InInv /\ [Inc!Next]_inc => InInv' /\ InSteps
<1> SUFFICES ASSUME InInv, [Inc!Next]_inc PROVE InInv' /\ InSteps
  OBVIOUS
<1>0. DOMAIN inc_signs \subseteq InCodes /\ inc_context \in InContext
  BY DEF InInv, InTyped
<1>1. CASE Inc!Raise
  <2>1. PICK c \in DOMAIN inc_signs : Inc!RaiseIn(c)
    BY <1>1 DEF Inc!Raise
  <2>2. UNCHANGED InElse /\ inc_receipt' = inc_receipt
    BY <1>1 DEF Inc!Raise, InElse, Inc!engine, Inc!cycle, Inc!batch
  <2> QED BY <1>0, <2>1, <2>2, InRaises, InRaisesOnly
<1>2. CASE Inc!Watchdog
  <2>1. "watchdog" \in DOMAIN inc_signs /\ Inc!RaiseIn("watchdog")
    BY <1>2 DEF Inc!Watchdog
  <2>2. UNCHANGED InElse /\ inc_receipt' = inc_receipt
    BY <1>2 DEF Inc!Watchdog, InElse, Inc!engine, Inc!cycle, Inc!batch
  <2> QED BY <1>0, <2>1, <2>2, InRaises, InRaisesOnly
<1>3. CASE InQuiet
  BY <1>3, InQuietKeeps, InQuietBook, InNothingReleased
<1>4. CASE UNCHANGED inc
  <2>1. UNCHANGED <<inc_episodes, inc_totals, inc_sequence, inc_preview, inc_context, inc_signs, inc_todo, inc_visit, inc_receipt>>
    BY <1>4 DEF inc
  <2>2. InRead'
    BY <2>1 DEF InInv, InRead, InOlder, Inc!NoVisit, Inc!Ids, Inc!Open
  <2> QED BY <1>0, <2>1, <2>2, InAside, InNothingReleased DEF InBook
<1> QED BY <1>1, <1>2, <1>3, <1>4, InCommit, InReview, InClosed, InBatch, Zenon DEF Inc!Next, InQuiet

LEMMA InStart == Inc!Init => InInv
<1> SUFFICES ASSUME Inc!Init PROVE InInv
  OBVIOUS
<1>1. /\ inc_episodes = <<>> /\ inc_totals = [r \in Inc!Held \cup {"released"} |-> 0] /\ inc_sequence = 0
      /\ inc_context = <<1, 1>> /\ inc_todo = {} /\ inc_visit = Inc!NoVisit /\ inc_preview = Inc!Nobody
  BY DEF Inc!Init
<1>2. DOMAIN inc_signs \subseteq InCodes
  <2>1. PICK s \in IncScenarios : inc_signs = [c \in s.codes |-> [context |-> <<0, 0>>, at |-> -1]]
    BY DEF Inc!Init
  <2> QED BY <2>1 DEF InCodes
<1>3. inc_episodes \in Seq(InItem) /\ Inc!Ids = {} /\ inc_context \in InContext
  BY <1>1 DEF Inc!Ids, InContext
<1>4. InTyped
  BY <1>1, <1>2, <1>3 DEF InTyped
<1>5. InRead /\ InShown /\ InOne
  BY <1>1, <1>3 DEF InRead, InShown, InOne, Inc!Open, Inc!Nobody
<1>6. Inc!TotalsAgree
  <2>1. \A r : {i \in Inc!Ids : inc_episodes[i].restriction = r} = {}
    BY <1>3
  <2> QED BY <1>1, <2>1, InCardinality, FS_EmptySet DEF Inc!TotalsAgree
<1> QED BY <1>4, <1>5, <1>6 DEF InInv

-----------------------------------------------------------------------------
(* Account snapshots.                                                      *)

SnIds == Nat \ {0}
SnKinds == SnapUncorrelated \cup {"positions_end", "executions_end"} \cup Snap!Account
SnMarkers == [type : Snap!Parts \cup {"order"}, generation : Nat, epoch : Nat, at : Nat]
SnStaged == {<<>>} \cup (Nat \X Nat)
SnEngine ==
  [connected : BOOLEAN, inflight : BOOLEAN, generation : Nat, parts : SUBSET Snap!Parts, revision : Nat,
   staged : SnStaged, reconciled : BOOLEAN]
SnRequests == SnKinds \X Nat \X SnIds
SnExecuted == {"executions_end"} \X Nat \X SnIds
SnAccounted == Snap!Account \X Nat \X SnIds
SnUnnumbered == UNION {[K -> SnIds] : K \in SUBSET SnapUncorrelated}
SnAdapter ==
  [epoch : Nat, positions : {"none", "requested", "complete"}, uncorrelated : SnUnnumbered,
   executions : SUBSET SnExecuted, account : SUBSET SnAccounted,
   reconciliation_id : Nat, next : Nat, overflow : BOOLEAN]
SnWaits == {snap_queue[i] : i \in 1..Len(snap_queue)}
SnTyped ==
  /\ snap_engine \in SnEngine /\ snap_adapter \in SnAdapter /\ snap_queue \in Seq(SnMarkers)
  /\ snap_pending \subseteq SnRequests /\ snap_version \in Nat /\ snap_seen \in Nat /\ snap_begun \in Nat
  /\ snap_seen <= snap_version /\ snap_begun <= snap_version

\* Nothing is of a snapshot, or of a connection, that has not begun.
SnBegun ==
  /\ snap_engine.inflight => snap_engine.connected /\ snap_engine.generation \in SnIds
       /\ snap_adapter.reconciliation_id = snap_engine.generation
  /\ \A r \in snap_pending \cup snap_adapter.executions \cup snap_adapter.account : r[3] <= snap_engine.generation
  /\ \A k \in DOMAIN snap_adapter.uncorrelated : snap_adapter.uncorrelated[k] <= snap_engine.generation
  /\ \A m \in SnWaits : /\ m.generation <= snap_engine.generation /\ m.epoch <= snap_adapter.epoch
                        /\ m.at <= snap_version /\ (m.type # "order" => m.generation \in SnIds)
\* An unnumbered marker that is awaited is of the snapshot in flight, and is not on its way.
SnAwaited ==
  snap_engine.connected => \A k \in DOMAIN snap_adapter.uncorrelated :
    /\ snap_engine.inflight /\ k \notin snap_engine.parts
    /\ \A m \in SnWaits : m.type = k => ~Snap!Current(m)
\* What answers the snapshot in flight is not older than its beginning; and as long as it is not
\* superseded, the engine has observed nothing since.
SnAnswers ==
  snap_engine.inflight =>
    /\ \A m \in SnWaits : m.type # "order" /\ Snap!Current(m) => m.at >= snap_begun
    /\ \A p \in snap_engine.parts : p \in DOMAIN snap_collected /\ snap_collected[p] \in Nat /\ snap_collected[p] >= snap_begun
    /\ snap_engine.staged \in Nat \X Nat /\ snap_engine.staged[2] <= snap_engine.revision
    /\ snap_engine.staged = <<snap_adapter.epoch, snap_engine.revision>> => snap_seen <= snap_begun
SnInv == SnTyped /\ SnBegun /\ SnAwaited /\ SnAnswers
SnapAssumption == SnapUncorrelated \subseteq {"orders_end", "completed_orders_end"}

LEMMA SnWaiting ==
  ASSUME SnTyped
  PROVE  /\ SnWaits \subseteq SnMarkers
         /\ \A m \in SnMarkers : snap_queue' = Append(snap_queue, m) => snap_queue' \in Seq(SnMarkers) /\ SnWaits' = SnWaits \cup {m}
         /\ snap_queue # <<>> => /\ Head(snap_queue) \in SnWaits
                                 /\ snap_queue' = Tail(snap_queue) => snap_queue' \in Seq(SnMarkers) /\ SnWaits' \subseteq SnWaits
         /\ snap_queue' = snap_queue => SnWaits' = SnWaits
<1>1. snap_queue \in Seq(SnMarkers) /\ Len(snap_queue) \in Nat
  BY DEF SnTyped
<1>2. SnWaits \subseteq SnMarkers
  BY <1>1 DEF SnWaits
<1>3. ASSUME NEW m \in SnMarkers, snap_queue' = Append(snap_queue, m)
      PROVE  snap_queue' \in Seq(SnMarkers) /\ SnWaits' = SnWaits \cup {m}
  <2>1. /\ snap_queue' \in Seq(SnMarkers) /\ Len(snap_queue') = Len(snap_queue) + 1
        /\ \A i \in 1..Len(snap_queue) : snap_queue'[i] = snap_queue[i]
        /\ snap_queue'[Len(snap_queue) + 1] = m
    BY <1>1, <1>3, AppendProperties
  <2>2. 1..Len(snap_queue') = (1..Len(snap_queue)) \cup {Len(snap_queue) + 1}
    BY <1>1, <2>1
  <2> QED BY <2>1, <2>2 DEF SnWaits
<1>4. ASSUME snap_queue # <<>>
      PROVE  /\ Head(snap_queue) \in SnWaits
             /\ snap_queue' = Tail(snap_queue) => snap_queue' \in Seq(SnMarkers) /\ SnWaits' \subseteq SnWaits
  <2>1. Len(snap_queue) >= 1 /\ Head(snap_queue) = snap_queue[1]
    BY <1>1, <1>4
  <2>2. ASSUME snap_queue' = Tail(snap_queue) PROVE snap_queue' \in Seq(SnMarkers) /\ SnWaits' \subseteq SnWaits
    <3>1. /\ snap_queue' \in Seq(SnMarkers) /\ Len(snap_queue') = Len(snap_queue) - 1
          /\ \A i \in 1..Len(snap_queue') : snap_queue'[i] = snap_queue[i + 1]
      BY <1>1, <1>4, <2>2, HeadTailProperties
    <3>2. \A i \in 1..Len(snap_queue') : i + 1 \in 1..Len(snap_queue)
      BY <1>1, <3>1
    <3> QED BY <3>1, <3>2 DEF SnWaits
  <2>3. Head(snap_queue) \in SnWaits
    <3>1. 1 \in 1..Len(snap_queue)
      BY <1>1, <2>1
    <3> QED BY <2>1, <3>1 DEF SnWaits
  <2> QED BY <2>2, <2>3
<1> QED BY <1>2, <1>3, <1>4 DEF SnWaits

\* Numbered requests are of the snapshot that is asked for.
LEMMA SnExecutions ==
  ASSUME NEW a \in SnAdapter, a.reconciliation_id \in SnIds
  PROVE  LET b == Snap!Executions(a)
         IN /\ b \in SnAdapter /\ b.epoch = a.epoch /\ b.positions = a.positions /\ b.uncorrelated = a.uncorrelated
            /\ b.account = a.account /\ b.reconciliation_id = a.reconciliation_id /\ b.overflow = a.overflow
            /\ \A r \in b.executions : r[3] = a.reconciliation_id
<1> DEFINE b == Snap!Executions(a)
<1>1. b = [a EXCEPT !.executions = {<<"executions_end", a.next, a.reconciliation_id>>}, !.next = a.next + 1]
  BY DEF Snap!Executions
<1>2. {<<"executions_end", a.next, a.reconciliation_id>>} \in SUBSET SnExecuted /\ a.next + 1 \in Nat
  BY DEF SnAdapter, SnExecuted
<1>3. b \in SnAdapter
  BY <1>1, <1>2 DEF SnAdapter
<1>4. /\ b.epoch = a.epoch /\ b.positions = a.positions /\ b.uncorrelated = a.uncorrelated
      /\ b.account = a.account /\ b.reconciliation_id = a.reconciliation_id /\ b.overflow = a.overflow
      /\ b.executions = {<<"executions_end", a.next, a.reconciliation_id>>}
  BY <1>1 DEF SnAdapter
<1> QED BY <1>3, <1>4
LEMMA SnAccounts ==
  ASSUME NEW a \in SnAdapter, a.reconciliation_id \in SnIds
  PROVE  LET b == Snap!Accounts(a)
         IN /\ b \in SnAdapter /\ b.epoch = a.epoch /\ b.positions = a.positions /\ b.uncorrelated = a.uncorrelated
            /\ b.executions = a.executions /\ b.reconciliation_id = a.reconciliation_id /\ b.overflow = a.overflow
            /\ \A r \in b.account : r[3] = a.reconciliation_id
<1> DEFINE b == Snap!Accounts(a)
<1>1. b = [a EXCEPT !.account = {<<k, a.next, a.reconciliation_id>> : k \in Snap!Account}, !.next = a.next + 1]
  BY DEF Snap!Accounts
<1>2. {<<k, a.next, a.reconciliation_id>> : k \in Snap!Account} \in SUBSET SnAccounted /\ a.next + 1 \in Nat
  BY DEF SnAdapter, SnAccounted
<1>3. b \in SnAdapter
  BY <1>1, <1>2 DEF SnAdapter
<1>4. /\ b.epoch = a.epoch /\ b.positions = a.positions /\ b.uncorrelated = a.uncorrelated
      /\ b.executions = a.executions /\ b.reconciliation_id = a.reconciliation_id /\ b.overflow = a.overflow
      /\ b.account = {<<k, a.next, a.reconciliation_id>> : k \in Snap!Account}
  BY <1>1 DEF SnAdapter
<1> QED BY <1>3, <1>4
LEMMA SnAsked ==
  ASSUME NEW a \in SnAdapter, NEW kinds
  PROVE  Snap!Asked(a, kinds) \subseteq a.executions \cup a.account /\ a.executions \cup a.account \subseteq SnRequests
  BY DEF Snap!Asked, SnAdapter, SnRequests, SnKinds, SnExecuted, SnAccounted

\* A snapshot begins.
LEMMA SnStage ==
  ASSUME SnInv, Snap!Stage
  PROVE  /\ snap_engine' \in SnEngine /\ snap_engine'.connected /\ snap_engine'.inflight /\ snap_engine'.parts = {}
         /\ snap_engine'.generation = snap_engine.generation + 1 /\ snap_engine'.generation \in SnIds
         /\ snap_engine'.revision = snap_engine.revision /\ snap_engine'.staged = <<snap_adapter.epoch, snap_engine.revision>>
         /\ snap_begun' = snap_version /\ snap_engine.generation \in Nat /\ snap_engine.connected /\ ~snap_engine.inflight
<1>1. snap_engine \in SnEngine /\ snap_adapter.epoch \in Nat
  BY DEF SnInv, SnTyped, SnAdapter
<1>2. <<snap_adapter.epoch, snap_engine.revision>> \in SnStaged /\ snap_engine.generation + 1 \in SnIds
      /\ snap_engine.generation \in Nat /\ snap_engine.revision \in Nat
  BY <1>1 DEF SnEngine, SnStaged, SnIds
<1>3. snap_engine' = [snap_engine EXCEPT !.inflight = TRUE, !.generation = snap_engine.generation + 1,
                        !.parts = {}, !.staged = <<snap_adapter.epoch, snap_engine.revision>>]
  BY DEF Snap!Stage
<1>4. snap_engine' \in SnEngine
  BY <1>1, <1>2, <1>3 DEF SnEngine, SnIds
<1>5. /\ snap_engine'.connected = snap_engine.connected /\ snap_engine'.inflight /\ snap_engine'.parts = {}
      /\ snap_engine'.generation = snap_engine.generation + 1
      /\ snap_engine'.revision = snap_engine.revision /\ snap_engine'.staged = <<snap_adapter.epoch, snap_engine.revision>>
  BY <1>1, <1>3 DEF SnEngine
<1> QED BY <1>2, <1>4, <1>5 DEF Snap!Stage

\* What is on its way when a snapshot begins is not of it, except that positions are known.
LEMMA SnStarts ==
  ASSUME SnapAssumption, SnInv, Snap!Stage, SnTyped', snap_adapter'.epoch = snap_adapter.epoch,
         snap_adapter'.reconciliation_id = snap_engine.generation + 1,
         \A r \in snap_pending' \cup snap_adapter'.executions \cup snap_adapter'.account : r[3] <= snap_engine.generation + 1,
         \A k \in DOMAIN snap_adapter'.uncorrelated : k \in SnapUncorrelated /\ snap_adapter'.uncorrelated[k] <= snap_engine.generation + 1,
         snap_version' = snap_version, snap_seen' = snap_seen,
         \A m \in SnWaits' : m \in SnWaits \/
           (m.type = "positions_end" /\ m.at = snap_version /\ m.generation = snap_engine.generation + 1 /\ m.epoch = snap_adapter.epoch)
  PROVE  SnInv'
<1>1. /\ snap_engine' \in SnEngine /\ snap_engine'.connected /\ snap_engine'.inflight /\ snap_engine'.parts = {}
      /\ snap_engine'.generation = snap_engine.generation + 1 /\ snap_engine'.generation \in SnIds
      /\ snap_engine'.revision = snap_engine.revision /\ snap_engine'.staged = <<snap_adapter.epoch, snap_engine.revision>>
      /\ snap_begun' = snap_version /\ snap_engine.generation \in Nat
  BY SnStage
<1>2. /\ snap_adapter.epoch \in Nat /\ snap_version \in Nat /\ snap_seen \in Nat /\ snap_seen <= snap_version
      /\ snap_engine.revision \in Nat /\ SnWaits \subseteq SnMarkers
  BY SnWaiting DEF SnInv, SnTyped, SnAdapter, SnEngine
<1>3. ASSUME NEW m \in SnWaits
      PROVE  /\ m.generation \in Nat /\ m.generation <= snap_engine.generation /\ m.epoch <= snap_adapter.epoch
             /\ m.at <= snap_version /\ (m.type # "order" => m.generation \in SnIds)
  BY <1>2 DEF SnMarkers, SnInv, SnBegun
<1>4. ASSUME NEW m \in SnWaits, m.type # "order" PROVE ~Snap!Current(m)'
  <2>1. m.generation # 0 /\ m.generation # snap_engine.generation + 1
    BY <1>1, <1>3, <1>4 DEF SnIds
  <2> QED BY <1>1, <2>1 DEF Snap!Current
<1>5. SnBegun'
  <2>1. ASSUME NEW m \in SnWaits'
        PROVE  /\ m.generation <= snap_engine'.generation /\ m.epoch <= snap_adapter'.epoch
               /\ m.at <= snap_version' /\ (m.type # "order" => m.generation \in SnIds)
    BY <1>1, <1>2, <1>3
  <2> QED BY <1>1, <2>1 DEF SnBegun
<1>6. SnAwaited'
  <2>1. \A k \in DOMAIN snap_adapter'.uncorrelated : k # "positions_end" /\ k # "order"
    BY DEF SnapAssumption
  <2>2. ASSUME NEW k \in DOMAIN snap_adapter'.uncorrelated, NEW m \in SnWaits', m.type = k PROVE ~Snap!Current(m)'
    BY <1>4, <2>1, <2>2
  <2> QED BY <1>1, <2>2 DEF SnAwaited
<1>7. SnAnswers'
  <2>1. ASSUME NEW m \in SnWaits', m.type # "order", Snap!Current(m)' PROVE m.at >= snap_begun'
    BY <1>1, <1>2, <1>4, <2>1
  <2>2. snap_engine'.staged \in Nat \X Nat /\ snap_engine'.staged[2] <= snap_engine'.revision
    BY <1>1, <1>2
  <2> QED BY <1>1, <1>2, <2>1, <2>2 DEF SnAnswers
<1> QED BY <1>5, <1>6, <1>7 DEF SnInv

LEMMA SnBeginRaises == ASSUME SnapAssumption, SnInv, Snap!BeginRaises PROVE SnInv'
<1>1. /\ Snap!Stage /\ snap_adapter' = [snap_adapter EXCEPT !.reconciliation_id = snap_engine.generation + 1]
      /\ UNCHANGED <<snap_queue, snap_pending, snap_version, snap_seen>>
  BY DEF Snap!BeginRaises
<1>2. snap_engine' \in SnEngine /\ snap_begun' = snap_version /\ snap_engine.generation \in Nat /\ ~snap_engine.inflight /\ snap_engine.connected
  BY <1>1, SnStage
<1>3. snap_adapter \in SnAdapter /\ snap_version \in Nat
  BY DEF SnInv, SnTyped
<1>4. /\ snap_adapter' \in SnAdapter /\ snap_adapter'.epoch = snap_adapter.epoch /\ snap_adapter'.reconciliation_id = snap_engine.generation + 1
      /\ snap_adapter'.executions = snap_adapter.executions /\ snap_adapter'.account = snap_adapter.account
      /\ snap_adapter'.uncorrelated = snap_adapter.uncorrelated
  BY <1>1, <1>2, <1>3 DEF SnAdapter
<1>5. SnTyped'
  BY <1>1, <1>2, <1>3, <1>4 DEF SnInv, SnTyped
<1>6. DOMAIN snap_adapter'.uncorrelated = {}
  BY <1>2, <1>4 DEF SnInv, SnAwaited
<1>7. \A r \in snap_pending' \cup snap_adapter'.executions \cup snap_adapter'.account : r[3] <= snap_engine.generation + 1
  <2>1. \A r \in snap_pending \cup snap_adapter.executions \cup snap_adapter.account : r[3] \in Nat /\ r[3] <= snap_engine.generation
    BY DEF SnInv, SnTyped, SnBegun, SnAdapter, SnRequests, SnIds, SnExecuted, SnAccounted
  <2> QED BY <1>1, <1>2, <1>4, <2>1
<1>8. SnWaits' = SnWaits
  BY <1>1, SnWaiting DEF SnInv
<1> QED BY <1>1, <1>4, <1>5, <1>6, <1>7, <1>8, SnStarts

LEMMA SnIdsOfRequests ==
  ASSUME SnInv
  PROVE  \A r \in snap_pending \cup snap_adapter.executions \cup snap_adapter.account : r[3] \in Nat /\ r[3] <= snap_engine.generation
  BY DEF SnInv, SnTyped, SnBegun, SnAdapter, SnRequests, SnIds, SnExecuted, SnAccounted

LEMMA SnBegin == ASSUME SnapAssumption, SnInv, Snap!BeginReconcile PROVE SnInv'
<1> DEFINE g == snap_engine.generation + 1
           start == [snap_adapter EXCEPT !.reconciliation_id = g]
           a == Snap!Accounts(Snap!Executions(Snap!Positions(start)))
<1>1. /\ Snap!Stage /\ snap_adapter' = [a EXCEPT !.uncorrelated = [k \in SnapUncorrelated |-> g]]
      /\ snap_queue' = (IF snap_adapter.positions = "complete"
                        THEN Append(snap_queue, Snap!Marker("positions_end", g, snap_version)) ELSE snap_queue)
      /\ snap_pending' = snap_pending \cup Snap!Asked(a, Snap!Parts) \cup {<<k, 0, g>> : k \in SnapUncorrelated}
                         \cup (IF snap_adapter.positions = "none" THEN {<<"positions_end", 0, g>>} ELSE {})
      /\ UNCHANGED <<snap_version, snap_seen>>
  BY DEF Snap!BeginReconcile
<1>2. /\ snap_engine' \in SnEngine /\ snap_begun' = snap_version /\ snap_engine.generation \in Nat /\ g \in SnIds
      /\ ~snap_engine.inflight /\ snap_engine.connected
  BY <1>1, SnStage DEF SnIds
<1>3. snap_adapter \in SnAdapter /\ snap_version \in Nat /\ snap_adapter.epoch \in Nat
  BY DEF SnInv, SnTyped, SnAdapter
<1>4. start \in SnAdapter /\ start.reconciliation_id = g /\ start.epoch = snap_adapter.epoch
  BY <1>2, <1>3 DEF SnAdapter, SnIds
<1> HIDE DEF start, g
<1>5. /\ Snap!Positions(start) \in SnAdapter /\ Snap!Positions(start).reconciliation_id = g
      /\ Snap!Positions(start).epoch = snap_adapter.epoch
  BY <1>4 DEF Snap!Positions, SnAdapter
<1>6. /\ a \in SnAdapter /\ a.epoch = snap_adapter.epoch /\ a.reconciliation_id = g
      /\ \A r \in a.executions \cup a.account : r[3] = g
  <2> DEFINE e == Snap!Executions(Snap!Positions(start))
  <2>1. /\ e \in SnAdapter /\ e.epoch = snap_adapter.epoch /\ e.reconciliation_id = g /\ \A r \in e.executions : r[3] = g
    BY <1>2, <1>5, SnExecutions
  <2> HIDE DEF e
  <2>2. LET b == Snap!Accounts(e) IN b \in SnAdapter /\ b.epoch = e.epoch /\ b.executions = e.executions
          /\ b.reconciliation_id = g /\ \A r \in b.account : r[3] = g
    BY <1>2, <2>1, SnAccounts
  <2> QED BY <2>1, <2>2 DEF e
<1> HIDE DEF a
<1>7. [k \in SnapUncorrelated |-> g] \in SnUnnumbered
  BY <1>2 DEF SnUnnumbered
<1>8. /\ snap_adapter' \in SnAdapter /\ snap_adapter'.epoch = snap_adapter.epoch /\ snap_adapter'.reconciliation_id = g
      /\ snap_adapter'.executions = a.executions /\ snap_adapter'.account = a.account
      /\ snap_adapter'.uncorrelated = [k \in SnapUncorrelated |-> g]
  BY <1>1, <1>6, <1>7 DEF SnAdapter
<1>9. Snap!Asked(a, Snap!Parts) \subseteq a.executions \cup a.account /\ Snap!Asked(a, Snap!Parts) \subseteq SnRequests
  BY <1>6, SnAsked
<1>10. snap_pending' \subseteq SnRequests
  <2>1. \A k \in SnapUncorrelated \cup {"positions_end"} : <<k, 0, g>> \in SnRequests
    BY <1>2 DEF SnRequests, SnKinds
  <2> QED BY <1>1, <1>9, <2>1 DEF SnInv, SnTyped
<1>11. \A r \in snap_pending' \cup snap_adapter'.executions \cup snap_adapter'.account : r[3] <= g
  <2>1. \A r \in snap_pending : r[3] <= g
    BY <1>2, SnIdsOfRequests DEF g
  <2>2. \A r \in a.executions \cup a.account : r[3] <= g
    BY <1>2, <1>6 DEF SnIds
  <2>3. \A k \in SnapUncorrelated \cup {"positions_end"} : <<k, 0, g>>[3] <= g
    BY <1>2 DEF SnIds
  <2> QED BY <1>1, <1>8, <1>9, <2>1, <2>2, <2>3
<1> DEFINE m == Snap!Marker("positions_end", g, snap_version)
<1>12. m \in SnMarkers /\ m.type = "positions_end" /\ m.at = snap_version /\ m.generation = g /\ m.epoch = snap_adapter.epoch
  BY <1>2, <1>3 DEF Snap!Marker, SnMarkers, Snap!Parts, SnIds
<1> HIDE DEF m
<1>13. snap_queue' \in Seq(SnMarkers) /\ \A w \in SnWaits' : w \in SnWaits \/ w = m
  <2>1. CASE snap_queue' = Append(snap_queue, m)
    BY <1>12, <2>1, SnWaiting DEF SnInv
  <2>2. CASE snap_queue' = snap_queue
    BY <2>2, SnWaiting DEF SnInv, SnTyped
  <2> QED BY <1>1, <2>1, <2>2 DEF m
<1>14. SnTyped'
  BY <1>1, <1>2, <1>3, <1>8, <1>10, <1>13 DEF SnInv, SnTyped
<1>15. \A k \in DOMAIN snap_adapter'.uncorrelated : k \in SnapUncorrelated /\ snap_adapter'.uncorrelated[k] <= g
  BY <1>2, <1>8 DEF SnIds
<1> QED BY <1>1, <1>8, <1>11, <1>12, <1>13, <1>14, <1>15, SnStarts DEF g

\* The deadline asks again in the name of the snapshot in flight.
LEMMA SnDeadline == ASSUME SnInv, Snap!Deadline PROVE SnInv'
<1> DEFINE e == IF "executions_end" \in Snap!Missing THEN Snap!Executions(snap_adapter) ELSE snap_adapter
           a == IF "account_end" \in Snap!Missing THEN Snap!Accounts(e) ELSE e
<1>1. /\ snap_engine.inflight /\ snap_engine' = [snap_engine EXCEPT !.reconciled = FALSE]
      /\ snap_adapter' = a /\ snap_pending' = snap_pending \cup Snap!Asked(a, Snap!Missing)
      /\ UNCHANGED <<snap_queue, snap_version, snap_seen, snap_begun, snap_collected>>
  BY DEF Snap!Deadline
<1>2. snap_engine \in SnEngine /\ snap_adapter \in SnAdapter
  BY DEF SnInv, SnTyped
<1>3. snap_adapter.reconciliation_id = snap_engine.generation /\ snap_engine.generation \in SnIds
  BY <1>1 DEF SnInv, SnBegun
<1>4. /\ snap_engine' \in SnEngine /\ snap_engine'.inflight = snap_engine.inflight /\ snap_engine'.connected = snap_engine.connected
      /\ snap_engine'.generation = snap_engine.generation /\ snap_engine'.parts = snap_engine.parts
      /\ snap_engine'.revision = snap_engine.revision /\ snap_engine'.staged = snap_engine.staged
  BY <1>1, <1>2 DEF SnEngine
<1>5. /\ e \in SnAdapter /\ e.epoch = snap_adapter.epoch /\ e.uncorrelated = snap_adapter.uncorrelated
      /\ e.reconciliation_id = snap_adapter.reconciliation_id /\ e.account = snap_adapter.account
      /\ \A r \in e.executions : r \in snap_adapter.executions \/ r[3] = snap_engine.generation
  BY <1>2, <1>3, SnExecutions
<1> HIDE DEF e
<1>6. /\ a \in SnAdapter /\ a.epoch = snap_adapter.epoch /\ a.uncorrelated = snap_adapter.uncorrelated
      /\ a.reconciliation_id = snap_adapter.reconciliation_id /\ a.executions = e.executions
      /\ \A r \in a.account : r \in snap_adapter.account \/ r[3] = snap_engine.generation
  BY <1>3, <1>5, SnAccounts
<1> HIDE DEF a
<1>7. /\ Snap!Asked(a, Snap!Missing) \subseteq a.executions \cup a.account /\ Snap!Asked(a, Snap!Missing) \subseteq SnRequests
  BY <1>6, SnAsked
<1>8. SnTyped'
  BY <1>1, <1>2, <1>4, <1>6, <1>7 DEF SnInv, SnTyped
<1>9. SnWaits' = SnWaits /\ \A m : Snap!Current(m)' <=> Snap!Current(m)
  BY <1>1, <1>4, <1>6, SnWaiting DEF SnInv, Snap!Current
<1>10. \A r \in snap_pending' \cup snap_adapter'.executions \cup snap_adapter'.account : r[3] <= snap_engine'.generation
  <2>1. \A r \in snap_pending \cup snap_adapter.executions \cup snap_adapter.account : r[3] <= snap_engine.generation
    BY SnIdsOfRequests
  <2>2. snap_engine.generation <= snap_engine.generation
    BY <1>3 DEF SnIds
  <2> QED BY <1>1, <1>4, <1>5, <1>6, <1>7, <2>1, <2>2
<1>11. SnBegun'
  BY <1>1, <1>4, <1>6, <1>9, <1>10 DEF SnInv, SnBegun
<1>12. SnAwaited'
  BY <1>1, <1>4, <1>6, <1>9 DEF SnInv, SnAwaited
<1>13. SnAnswers'
  BY <1>1, <1>4, <1>6, <1>9 DEF SnInv, SnAnswers
<1> QED BY <1>8, <1>11, <1>12, <1>13 DEF SnInv

\* Replies that are lost, changes at the broker, and what the engine distrusts.
LEMMA SnLose == ASSUME SnInv, Snap!Lose PROVE SnInv'
<1>1. /\ snap_pending' \subseteq snap_pending
      /\ UNCHANGED <<snap_engine, snap_adapter, snap_queue, snap_version, snap_seen, snap_begun, snap_collected>>
  BY DEF Snap!Lose
<1>2. SnWaits' = SnWaits /\ \A m : Snap!Current(m)' <=> Snap!Current(m)
  BY <1>1, SnWaiting DEF SnInv, Snap!Current
<1> QED BY <1>1, <1>2 DEF SnInv, SnTyped, SnBegun, SnAwaited, SnAnswers

\* The broker says more: an answer to what was asked, which is not older than the snapshot, or a change.
LEMMA SnTold ==
  ASSUME SnInv, SnTyped', UNCHANGED <<snap_engine, snap_seen, snap_begun, snap_collected>>,
         snap_version' >= snap_version, snap_pending' \subseteq snap_pending,
         snap_adapter'.epoch = snap_adapter.epoch, snap_adapter'.reconciliation_id = snap_adapter.reconciliation_id,
         snap_adapter'.executions \subseteq snap_adapter.executions, snap_adapter'.account \subseteq snap_adapter.account,
         \A k \in DOMAIN snap_adapter'.uncorrelated :
           k \in DOMAIN snap_adapter.uncorrelated /\ snap_adapter'.uncorrelated[k] = snap_adapter.uncorrelated[k],
         \A w \in SnWaits' : w \in SnWaits \/
           /\ w.generation <= snap_engine.generation /\ w.epoch = snap_adapter.epoch /\ w.at <= snap_version'
           /\ w.type \notin DOMAIN snap_adapter'.uncorrelated
           /\ w.type # "order" => w.generation \in SnIds /\ w.at >= snap_version
  PROVE  SnInv'
<1>1. \A w : Snap!Current(w)' <=> Snap!Current(w)
  BY DEF Snap!Current
<1>2. /\ snap_version \in Nat /\ snap_version' \in Nat /\ snap_begun \in Nat /\ snap_begun <= snap_version
      /\ SnWaits \subseteq SnMarkers /\ SnWaits' \subseteq SnMarkers /\ snap_adapter.epoch \in Nat
  <2>1. SnWaits' \subseteq SnMarkers
    BY DEF SnTyped, SnWaits
  <2>2. SnWaits \subseteq SnMarkers
    BY SnWaiting DEF SnInv
  <2> QED BY <2>1, <2>2 DEF SnInv, SnTyped, SnAdapter
<1>3. ASSUME NEW w \in SnWaits'
      PROVE  /\ w.generation <= snap_engine.generation /\ w.epoch <= snap_adapter.epoch
             /\ w.at <= snap_version' /\ (w.type # "order" => w.generation \in SnIds)
  <2>1. w.at \in Nat /\ w.epoch \in Nat
    BY <1>2 DEF SnMarkers
  <2>2. CASE w \in SnWaits
    BY <1>2, <2>1, <2>2 DEF SnInv, SnBegun
  <2>3. CASE w \notin SnWaits
    BY <1>2, <2>3
  <2> QED BY <2>2, <2>3
<1>4. SnBegun'
  BY <1>3 DEF SnInv, SnBegun
<1>5. SnAwaited'
  BY <1>1 DEF SnInv, SnAwaited
<1>6. SnAnswers'
  <2>1. ASSUME snap_engine.inflight, NEW w \in SnWaits', w.type # "order", Snap!Current(w) PROVE w.at >= snap_begun
    <3>1. w.at \in Nat
      BY <1>2 DEF SnMarkers
    <3>2. CASE w \in SnWaits
      BY <2>1, <3>2 DEF SnInv, SnAnswers
    <3>3. CASE w \notin SnWaits
      BY <1>2, <2>1, <3>1, <3>3
    <3> QED BY <3>2, <3>3
  <2> QED BY <1>1, <2>1 DEF SnInv, SnAnswers
<1> QED BY <1>4, <1>5, <1>6 DEF SnInv

LEMMA SnMarked ==
  ASSUME SnTyped, NEW kind \in Snap!Parts \cup {"order"}, NEW g \in Nat, NEW at \in Nat
  PROVE  LET m == Snap!Marker(kind, g, at)
         IN m \in SnMarkers /\ m.type = kind /\ m.generation = g /\ m.at = at /\ m.epoch = snap_adapter.epoch
<1>1. snap_adapter.epoch \in Nat
  BY DEF SnTyped, SnAdapter
<1> QED BY <1>1 DEF Snap!Marker, SnMarkers

LEMMA SnAnswer == ASSUME SnapAssumption, SnInv, Snap!Answer PROVE SnInv'
<1>1. PICK r \in snap_pending : snap_pending' = snap_pending \ {r} /\ Snap!Answers(r)
  BY DEF Snap!Answer
<1>2. UNCHANGED <<snap_engine, snap_version, snap_seen, snap_begun, snap_collected>>
  BY DEF Snap!Answer
<1>3. /\ SnTyped /\ snap_adapter \in SnAdapter /\ r \in SnRequests /\ r[3] \in SnIds /\ r[3] <= snap_engine.generation /\ snap_version \in Nat
      /\ snap_engine.generation \in Nat
  <2>1. SnTyped /\ snap_adapter \in SnAdapter /\ r \in SnRequests /\ snap_version \in Nat /\ snap_engine.generation \in Nat
    BY DEF SnInv, SnTyped, SnEngine
  <2> QED BY <2>1, SnIdsOfRequests DEF SnRequests
<1> DEFINE U == snap_adapter.uncorrelated
<1>4. /\ DOMAIN U \subseteq SnapUncorrelated /\ U \in [DOMAIN U -> SnIds] /\ SnapUncorrelated \subseteq Snap!Parts
      /\ \A k \in DOMAIN U : U[k] <= snap_engine.generation
  <2>1. U \in SnUnnumbered
    BY <1>3 DEF SnAdapter
  <2> QED BY <2>1 DEF SnUnnumbered, Snap!Parts, SnInv, SnBegun
<1>5. SnIds \subseteq Nat
  BY DEF SnIds
\* What an answer may be, of four kinds that exclude each other.
<1> DEFINE A == r[1] \in DOMAIN snap_adapter.uncorrelated
           B == r \in snap_adapter.executions
           C == r[1] = "positions_end"
           D == r \in snap_adapter.account
           DoesA == /\ snap_adapter' = [snap_adapter EXCEPT !.uncorrelated = [k \in DOMAIN U \ {r[1]} |-> U[k]]]
                    /\ snap_queue' = Append(snap_queue, Snap!Marker(r[1], U[r[1]], snap_version))
           DoesB == snap_queue' = Append(snap_queue, Snap!Marker(r[1], r[3], snap_version)) /\ UNCHANGED snap_adapter
           DoesC == /\ snap_queue' = Append(snap_queue, Snap!Marker(r[1], r[3], snap_version))
                    /\ snap_adapter' = [snap_adapter EXCEPT !.positions = "complete"]
           DoesD == /\ snap_adapter' = [snap_adapter EXCEPT !.account = snap_adapter.account \ {r}]
                    /\ snap_queue' = (IF snap_adapter.account = {r}
                          THEN Append(snap_queue, Snap!Marker("account_end", r[3], snap_version)) ELSE snap_queue)
           None == UNCHANGED <<snap_queue, snap_adapter>>
<1>20. /\ A => r[1] # "executions_end" /\ ~C /\ r[1] \notin Snap!Account
       /\ B => r[1] = "executions_end" /\ (D => r[1] \in Snap!Account)
       /\ D => r[1] \in Snap!Account /\ ~C /\ r[1] # "executions_end"
  <2>1. DOMAIN snap_adapter.uncorrelated \subseteq {"orders_end", "completed_orders_end"}
    BY <1>4 DEF SnapAssumption
  <2>2. Snap!Account = {"account_summary", "account_ledger"}
    BY DEF Snap!Account
  <2>3. B => r[1] = "executions_end"
    BY <1>3 DEF SnAdapter, SnExecuted
  <2>4. D => r[1] \in Snap!Account
    BY <1>3 DEF SnAdapter, SnAccounted
  <2> QED BY <2>1, <2>2, <2>3, <2>4
<1>21. /\ A => ~B /\ ~C /\ ~D
       /\ B => ~A /\ ~C /\ ~D
       /\ C => ~A /\ ~B /\ ~D
       /\ D => ~A /\ ~B /\ ~C
  BY <1>20
<1>22. (CASE A -> DoesA [] B -> DoesB [] C -> DoesC [] D -> DoesD [] OTHER -> None)
  BY <1>1, Zenon DEF Snap!Answers
<1> HIDE DEF DoesA, DoesB, DoesC, DoesD, None, A, B, C, D
<1>23. (A => DoesA) /\ (B => DoesB) /\ (C => DoesC) /\ (D => DoesD) /\ (~A /\ ~B /\ ~C /\ ~D => None)
  BY <1>21, <1>22, Zenon
<1> USE DEF A, B, C, D
<1> HIDE DEF U
\* What an answer adds to the queue, and takes from what is awaited.
<1>6. ASSUME NEW kind \in Snap!Parts, NEW g \in SnIds, g <= snap_engine.generation,
             snap_queue' = Append(snap_queue, Snap!Marker(kind, g, snap_version)), snap_adapter' \in SnAdapter,
             snap_adapter'.epoch = snap_adapter.epoch, snap_adapter'.reconciliation_id = snap_adapter.reconciliation_id,
             snap_adapter'.executions \subseteq snap_adapter.executions, snap_adapter'.account \subseteq snap_adapter.account,
             \A k \in DOMAIN snap_adapter'.uncorrelated : k \in DOMAIN U /\ snap_adapter'.uncorrelated[k] = U[k],
             kind \notin DOMAIN snap_adapter'.uncorrelated
      PROVE  SnInv'
  <2> DEFINE m == Snap!Marker(kind, g, snap_version)
  <2>1. m \in SnMarkers /\ m.type = kind /\ m.generation = g /\ m.at = snap_version /\ m.epoch = snap_adapter.epoch
    BY <1>3, <1>5, SnMarked
  <2>2. snap_queue' = Append(snap_queue, m)
    BY <1>6
  <2> HIDE DEF m
  <2>3. snap_queue' \in Seq(SnMarkers) /\ \A w \in SnWaits' : w \in SnWaits \/ w = m
    BY <1>3, <2>1, <2>2, SnWaiting
  <2>4. snap_pending' \subseteq SnRequests
    BY <1>1, <1>3 DEF SnTyped
  <2>5. SnTyped'
    BY <1>2, <1>3, <1>6, <2>3, <2>4 DEF SnTyped
  <2>6. snap_version >= snap_version /\ snap_version <= snap_version
    BY <1>3
  <2>7. \A w \in SnWaits' : w \in SnWaits \/
           /\ w.generation <= snap_engine.generation /\ w.epoch = snap_adapter.epoch /\ w.at <= snap_version'
           /\ w.type \notin DOMAIN snap_adapter'.uncorrelated
           /\ w.type # "order" => w.generation \in SnIds /\ w.at >= snap_version
    BY <1>2, <1>6, <2>1, <2>3, <2>6
  <2>8. snap_pending' \subseteq snap_pending
    BY <1>1
  <2> QED BY <1>2, <1>6, <2>5, <2>6, <2>7, <2>8, SnTold DEF U
<1>7. ASSUME snap_queue' = snap_queue, snap_adapter' \in SnAdapter, snap_adapter'.epoch = snap_adapter.epoch,
             snap_adapter'.reconciliation_id = snap_adapter.reconciliation_id,
             snap_adapter'.executions \subseteq snap_adapter.executions, snap_adapter'.account \subseteq snap_adapter.account,
             snap_adapter'.uncorrelated = U
      PROVE  SnInv'
  <2>1. SnWaits' = SnWaits
    BY <1>3, <1>7, SnWaiting
  <2>2. SnTyped'
    BY <1>1, <1>2, <1>3, <1>7 DEF SnTyped
  <2>3. snap_version' >= snap_version /\ snap_pending' \subseteq snap_pending
    BY <1>1, <1>2, <1>3
  <2> QED BY <1>2, <1>7, <2>1, <2>2, <2>3, SnTold DEF U
<1>8. CASE r[1] \in DOMAIN U
  <2>1. /\ snap_adapter' = [snap_adapter EXCEPT !.uncorrelated = [k \in DOMAIN U \ {r[1]} |-> U[k]]]
        /\ snap_queue' = Append(snap_queue, Snap!Marker(r[1], U[r[1]], snap_version))
    BY <1>8, <1>23 DEF DoesA, U
  <2>2. [k \in DOMAIN U \ {r[1]} |-> U[k]] \in SnUnnumbered
    <3> DEFINE K == DOMAIN U \ {r[1]}
    <3>1. K \in SUBSET SnapUncorrelated /\ \A k \in K : U[k] \in SnIds
      BY <1>4
    <3> HIDE DEF K
    <3>2. [k \in K |-> U[k]] \in [K -> SnIds]
      BY <3>1
    <3> QED BY <3>1, <3>2 DEF SnUnnumbered, K
  <2>3. /\ snap_adapter' \in SnAdapter /\ snap_adapter'.epoch = snap_adapter.epoch
        /\ snap_adapter'.reconciliation_id = snap_adapter.reconciliation_id
        /\ snap_adapter'.executions = snap_adapter.executions /\ snap_adapter'.account = snap_adapter.account
        /\ snap_adapter'.uncorrelated = [k \in DOMAIN U \ {r[1]} |-> U[k]]
    BY <1>3, <2>1, <2>2 DEF SnAdapter
  <2>4. r[1] \in Snap!Parts /\ U[r[1]] \in SnIds /\ U[r[1]] <= snap_engine.generation
    BY <1>4, <1>8
  <2> QED BY <1>6, <2>1, <2>3, <2>4
<1>9. CASE r[1] \notin DOMAIN U /\ r \in snap_adapter.executions
  <2>1. snap_queue' = Append(snap_queue, Snap!Marker(r[1], r[3], snap_version)) /\ UNCHANGED snap_adapter
    BY <1>9, <1>23 DEF DoesB, U
  <2>2. r[1] = "executions_end"
    BY <1>3, <1>9 DEF SnAdapter, SnExecuted
  <2>3. r[1] \in Snap!Parts
    BY <2>2 DEF Snap!Parts
  <2> QED BY <1>3, <1>6, <1>9, <2>1, <2>3 DEF U
<1>10. CASE r[1] \notin DOMAIN U /\ r \notin snap_adapter.executions /\ r[1] = "positions_end"
  <2>1. /\ snap_queue' = Append(snap_queue, Snap!Marker(r[1], r[3], snap_version))
        /\ snap_adapter' = [snap_adapter EXCEPT !.positions = "complete"]
    BY <1>10, <1>23 DEF DoesC, U
  <2>2. r[1] \in Snap!Parts
    BY <1>10 DEF Snap!Parts
  <2>3. /\ snap_adapter' \in SnAdapter /\ snap_adapter'.epoch = snap_adapter.epoch
        /\ snap_adapter'.reconciliation_id = snap_adapter.reconciliation_id
        /\ snap_adapter'.executions = snap_adapter.executions /\ snap_adapter'.account = snap_adapter.account
        /\ snap_adapter'.uncorrelated = U
    BY <1>3, <2>1 DEF SnAdapter, U
  <2> QED BY <1>3, <1>6, <1>10, <2>1, <2>2, <2>3
<1>11. CASE r[1] \notin DOMAIN U /\ r \notin snap_adapter.executions /\ r[1] # "positions_end" /\ r \in snap_adapter.account
  <2>1. /\ snap_adapter' = [snap_adapter EXCEPT !.account = snap_adapter.account \ {r}]
        /\ snap_queue' = (IF snap_adapter.account = {r}
                          THEN Append(snap_queue, Snap!Marker("account_end", r[3], snap_version)) ELSE snap_queue)
    BY <1>11, <1>23 DEF DoesD, U
  <2>2. "account_end" \in Snap!Parts /\ "account_end" \notin DOMAIN U
    BY <1>4 DEF Snap!Parts, SnapAssumption
  <2>3. /\ snap_adapter' \in SnAdapter /\ snap_adapter'.epoch = snap_adapter.epoch
        /\ snap_adapter'.reconciliation_id = snap_adapter.reconciliation_id
        /\ snap_adapter'.executions = snap_adapter.executions /\ snap_adapter'.account \subseteq snap_adapter.account
        /\ snap_adapter'.uncorrelated = U
    <3>1. snap_adapter.account \ {r} \in SUBSET SnAccounted
      BY <1>3 DEF SnAdapter
    <3> QED BY <1>3, <2>1, <3>1 DEF SnAdapter, U
  <2>4. CASE snap_adapter.account = {r}
    BY <1>3, <1>6, <2>1, <2>2, <2>3, <2>4
  <2>5. CASE snap_adapter.account # {r}
    BY <1>7, <2>1, <2>3, <2>5
  <2> QED BY <2>4, <2>5
<1>12. CASE r[1] \notin DOMAIN U /\ r \notin snap_adapter.executions /\ r[1] # "positions_end" /\ r \notin snap_adapter.account
  <2>1. UNCHANGED <<snap_queue, snap_adapter>>
    BY <1>12, <1>23 DEF None, U
  <2> QED BY <1>3, <1>7, <2>1 DEF U
<1> QED BY <1>8, <1>9, <1>10, <1>11, <1>12

LEMMA SnChange == ASSUME SnapAssumption, SnInv, Snap!Change PROVE SnInv'
<1>1. /\ snap_version' = snap_version + 1
      /\ snap_queue' = Append(snap_queue, Snap!Marker("order", 0, snap_version + 1)) \/ UNCHANGED snap_queue
      /\ UNCHANGED <<snap_engine, snap_adapter, snap_pending, snap_seen, snap_begun, snap_collected>>
  BY DEF Snap!Change
<1>2. /\ SnTyped /\ snap_version \in Nat /\ snap_engine.generation \in Nat /\ snap_seen \in Nat /\ snap_begun \in Nat
      /\ snap_seen <= snap_version /\ snap_begun <= snap_version
  BY DEF SnInv, SnTyped, SnEngine
<1> DEFINE m == Snap!Marker("order", 0, snap_version + 1)
<1>3. m \in SnMarkers /\ m.type = "order" /\ m.generation = 0 /\ m.at = snap_version + 1 /\ m.epoch = snap_adapter.epoch
  <2>1. "order" \in Snap!Parts \cup {"order"} /\ 0 \in Nat /\ snap_version + 1 \in Nat
    BY <1>2
  <2>2. snap_adapter.epoch \in Nat
    BY <1>2 DEF SnTyped, SnAdapter
  <2> QED BY <2>1, <2>2 DEF Snap!Marker, SnMarkers
<1> HIDE DEF m
<1>4. snap_queue' \in Seq(SnMarkers) /\ \A w \in SnWaits' : w \in SnWaits \/ w = m
  <2>1. CASE snap_queue' = Append(snap_queue, m)
    BY <1>2, <1>3, <2>1, SnWaiting
  <2>2. CASE snap_queue' = snap_queue
    BY <1>2, <2>2, SnWaiting DEF SnTyped
  <2> QED BY <1>1, <2>1, <2>2 DEF m
<1>5. SnTyped'
  BY <1>1, <1>2, <1>4 DEF SnTyped
<1>6. "order" \notin DOMAIN snap_adapter.uncorrelated
  BY <1>2 DEF SnTyped, SnAdapter, SnUnnumbered, SnapAssumption
<1>7. \A w \in SnWaits' : w \in SnWaits \/
        /\ w.generation <= snap_engine.generation /\ w.epoch = snap_adapter.epoch /\ w.at <= snap_version'
        /\ w.type \notin DOMAIN snap_adapter'.uncorrelated
        /\ w.type # "order" => w.generation \in SnIds /\ w.at >= snap_version
  BY <1>1, <1>2, <1>3, <1>4, <1>6
<1> QED BY <1>1, <1>2, <1>5, <1>7, SnTold

LEMMA SnOverflow == ASSUME SnInv, Snap!Overflow PROVE SnInv'
<1>1. /\ snap_version' = snap_version + 1 /\ snap_adapter' = [snap_adapter EXCEPT !.overflow = TRUE]
      /\ UNCHANGED <<snap_engine, snap_queue, snap_pending, snap_seen, snap_begun, snap_collected>>
  BY DEF Snap!Overflow
<1>2. /\ SnTyped /\ snap_adapter \in SnAdapter /\ snap_version \in Nat /\ snap_seen \in Nat /\ snap_begun \in Nat
      /\ snap_seen <= snap_version /\ snap_begun <= snap_version
  BY DEF SnInv, SnTyped
<1>3. /\ snap_adapter' \in SnAdapter /\ snap_adapter'.epoch = snap_adapter.epoch
      /\ snap_adapter'.reconciliation_id = snap_adapter.reconciliation_id
      /\ snap_adapter'.executions = snap_adapter.executions /\ snap_adapter'.account = snap_adapter.account
      /\ snap_adapter'.uncorrelated = snap_adapter.uncorrelated
  BY <1>1, <1>2 DEF SnAdapter
<1>4. SnTyped' /\ snap_version' >= snap_version /\ SnWaits' = SnWaits
  BY <1>1, <1>2, <1>3, SnWaiting DEF SnTyped
<1> QED BY <1>1, <1>3, <1>4, SnTold

\* The engine observes what was queued.  A part is taken, and the last one publishes.
SnPublished == snap_engine.inflight /\ snap_engine'.reconciled /\ ~snap_engine'.inflight =>
                 \A p \in Snap!Parts : snap_collected'[p] >= snap_begun /\ snap_collected'[p] >= snap_seen
LEMMA SnPart ==
  ASSUME SnapAssumption, SnInv, NEW m \in SnWaits, Snap!Current(m), m.type # "order", snap_engine.inflight, Snap!Part(m)
  PROVE  /\ snap_engine' \in SnEngine /\ snap_engine'.connected /\ snap_engine'.generation = snap_engine.generation
         /\ snap_engine'.revision = snap_engine.revision /\ snap_engine'.staged = snap_engine.staged
         /\ snap_engine'.parts = snap_engine.parts \cup {m.type}
         /\ \A p \in snap_engine'.parts : p \in DOMAIN snap_collected' /\ snap_collected'[p] \in Nat /\ snap_collected'[p] >= snap_begun
         /\ ~snap_engine'.inflight =>
              /\ snap_engine'.parts = Snap!Parts
              /\ snap_engine'.reconciled => snap_engine.staged = <<snap_adapter.epoch, snap_engine.revision>>
<1>1. /\ snap_engine \in SnEngine /\ m \in SnMarkers /\ m.type \in Snap!Parts /\ m.at \in Nat /\ m.at >= snap_begun
      /\ snap_engine.connected /\ snap_begun \in Nat
  <2>1. snap_engine \in SnEngine /\ m \in SnMarkers /\ snap_begun \in Nat
    BY SnWaiting DEF SnInv, SnTyped
  <2>2. m.type \in Snap!Parts /\ m.at \in Nat
    BY <2>1 DEF SnMarkers
  <2> QED BY <2>1, <2>2 DEF SnInv, SnAnswers, SnBegun
<1> DEFINE P == snap_engine.parts \cup {m.type}
           e == [snap_engine EXCEPT !.parts = P]
<1>2. /\ snap_collected' = [p \in DOMAIN snap_collected \cup {m.type} |-> IF p = m.type THEN m.at ELSE snap_collected[p]]
      /\ snap_engine' = IF e.parts = Snap!Parts THEN Snap!Publish(e) ELSE e
  BY DEF Snap!Part
<1>3. P \in SUBSET Snap!Parts
  BY <1>1 DEF SnEngine
<1>4. /\ e \in SnEngine /\ e.parts = P /\ e.connected /\ e.inflight /\ e.generation = snap_engine.generation
      /\ e.revision = snap_engine.revision /\ e.staged = snap_engine.staged
  BY <1>1, <1>3 DEF SnEngine
<1> HIDE DEF e
<1>5. /\ Snap!Publish(e) \in SnEngine /\ Snap!Publish(e).parts = P /\ Snap!Publish(e).connected
      /\ Snap!Publish(e).generation = snap_engine.generation /\ Snap!Publish(e).revision = snap_engine.revision
      /\ Snap!Publish(e).staged = snap_engine.staged
      /\ Snap!Publish(e).reconciled => snap_engine.staged = <<snap_adapter.epoch, snap_engine.revision>>
  <2> DEFINE b == e.staged = <<snap_adapter.epoch, e.revision>>
  <2>1. Snap!Publish(e) = [e EXCEPT !.inflight = FALSE, !.reconciled = b] /\ b \in BOOLEAN
    BY DEF Snap!Publish
  <2>2. b => snap_engine.staged = <<snap_adapter.epoch, snap_engine.revision>>
    BY <1>4
  <2> HIDE DEF b
  <2> QED BY <1>4, <2>1, <2>2 DEF SnEngine
<1>6. \A p \in P : p \in DOMAIN snap_collected' /\ snap_collected'[p] \in Nat /\ snap_collected'[p] >= snap_begun
  <2>1. \A p \in snap_engine.parts : p \in DOMAIN snap_collected /\ snap_collected[p] \in Nat /\ snap_collected[p] >= snap_begun
    BY DEF SnInv, SnAnswers
  <2> QED BY <1>1, <1>2, <2>1
<1> QED BY <1>2, <1>4, <1>5, <1>6

LEMMA SnInvalidated ==
  ASSUME NEW e \in SnEngine
  PROVE  LET n == Snap!Invalidated(e)
         IN /\ n \in SnEngine /\ n.connected = e.connected /\ n.inflight = e.inflight /\ n.generation = e.generation
            /\ n.parts = e.parts /\ n.staged = e.staged /\ n.revision = e.revision + 1 /\ e.revision \in Nat /\ ~n.reconciled
<1>1. e.revision \in Nat /\ e.revision + 1 \in Nat
  BY DEF SnEngine
<1> DEFINE n == e.revision + 1
           i == [e EXCEPT !.reconciled = FALSE, !.revision = n]
<1>2. Snap!Invalidated(e) = i
  BY DEF Snap!Invalidated
<1> HIDE DEF n
<1>3. i \in SnEngine
  BY <1>1 DEF SnEngine, n
<1>4. /\ i.connected = e.connected /\ i.inflight = e.inflight /\ i.generation = e.generation
      /\ i.parts = e.parts /\ i.staged = e.staged /\ i.revision = n /\ ~i.reconciled
  BY DEF SnEngine
<1> QED BY <1>1, <1>2, <1>3, <1>4 DEF n

LEMMA SnObserve == ASSUME SnapAssumption, SnInv, Snap!Observe PROVE SnInv' /\ SnPublished
<1> DEFINE m == Head(snap_queue)
<1>1. /\ snap_queue # <<>> /\ snap_queue' = Tail(snap_queue)
      /\ UNCHANGED <<snap_adapter, snap_pending, snap_version, snap_begun>>
  BY DEF Snap!Observe
<1>2. m \in SnWaits /\ snap_queue' \in Seq(SnMarkers) /\ SnWaits' \subseteq SnWaits /\ SnWaits \subseteq SnMarkers
  BY <1>1, SnWaiting DEF SnInv
<1> HIDE DEF m
<1>3. \/ ~Snap!Current(m) /\ UNCHANGED <<snap_engine, snap_collected, snap_seen>>
      \/ Snap!Current(m) /\ m.type = "order" /\ snap_seen' = m.at /\ snap_engine' = Snap!Invalidated(snap_engine) /\ UNCHANGED snap_collected
      \/ Snap!Current(m) /\ m.type # "order" /\ ~snap_engine.inflight /\ UNCHANGED <<snap_engine, snap_collected, snap_seen>>
      \/ Snap!Current(m) /\ m.type # "order" /\ snap_engine.inflight /\ Snap!Part(m) /\ UNCHANGED snap_seen
  BY Zenon DEF Snap!Observe, m
<1>4. /\ snap_engine \in SnEngine /\ snap_adapter \in SnAdapter /\ snap_version \in Nat /\ snap_seen \in Nat /\ snap_begun \in Nat
      /\ snap_seen <= snap_version /\ snap_begun <= snap_version /\ m \in SnMarkers /\ m.at \in Nat /\ m.at <= snap_version
  BY <1>2 DEF SnInv, SnTyped, SnBegun, SnMarkers
<1>5. CASE UNCHANGED <<snap_engine, snap_collected, snap_seen>>
  <2>1. SnTyped'
    BY <1>1, <1>2, <1>5 DEF SnInv, SnTyped
  <2>2. \A w : Snap!Current(w)' <=> Snap!Current(w)
    BY <1>1, <1>5 DEF Snap!Current
  <2>3. SnBegun' /\ SnAwaited' /\ SnAnswers'
    BY <1>1, <1>2, <1>5, <2>2 DEF SnInv, SnBegun, SnAwaited, SnAnswers
  <2>4. SnPublished
    BY <1>5 DEF SnPublished
  <2> QED BY <2>1, <2>3, <2>4 DEF SnInv
<1>6. CASE Snap!Current(m) /\ snap_seen' = m.at /\ snap_engine' = Snap!Invalidated(snap_engine) /\ UNCHANGED snap_collected
  <2>1. /\ snap_engine' \in SnEngine /\ snap_engine'.connected = snap_engine.connected /\ snap_engine'.inflight = snap_engine.inflight
        /\ snap_engine'.generation = snap_engine.generation /\ snap_engine'.parts = snap_engine.parts
        /\ snap_engine'.staged = snap_engine.staged /\ snap_engine'.revision = snap_engine.revision + 1
        /\ snap_engine.revision \in Nat /\ ~snap_engine'.reconciled
    BY <1>4, <1>6, SnInvalidated
  <2>2. SnTyped'
    BY <1>1, <1>2, <1>4, <1>6, <2>1 DEF SnInv, SnTyped
  <2>3. \A w : Snap!Current(w)' <=> Snap!Current(w)
    BY <1>1, <2>1 DEF Snap!Current
  <2>4. SnBegun' /\ SnAwaited'
    BY <1>1, <1>2, <1>6, <2>1, <2>3 DEF SnInv, SnBegun, SnAwaited
  <2>5. SnAnswers'
    <3>1. ASSUME snap_engine.inflight
          PROVE  snap_engine'.staged \in Nat \X Nat /\ snap_engine'.staged[2] <= snap_engine'.revision
                 /\ snap_engine'.staged # <<snap_adapter.epoch, snap_engine'.revision>>
      <4>1. snap_engine.staged \in Nat \X Nat /\ snap_engine.staged[2] <= snap_engine.revision
        BY <3>1 DEF SnInv, SnAnswers
      <4> QED BY <2>1, <4>1
    <3> QED BY <1>1, <1>2, <1>6, <2>1, <2>3, <3>1 DEF SnInv, SnAnswers
  <2>6. SnPublished
    BY <2>1 DEF SnPublished
  <2> QED BY <2>2, <2>4, <2>5, <2>6 DEF SnInv
<1>7. CASE Snap!Current(m) /\ m.type # "order" /\ snap_engine.inflight /\ Snap!Part(m) /\ UNCHANGED snap_seen
  <2>1. /\ snap_engine' \in SnEngine /\ snap_engine'.connected /\ snap_engine'.generation = snap_engine.generation
        /\ snap_engine'.revision = snap_engine.revision /\ snap_engine'.staged = snap_engine.staged
        /\ snap_engine'.parts = snap_engine.parts \cup {m.type}
        /\ \A p \in snap_engine'.parts : p \in DOMAIN snap_collected' /\ snap_collected'[p] \in Nat /\ snap_collected'[p] >= snap_begun
        /\ ~snap_engine'.inflight =>
              /\ snap_engine'.parts = Snap!Parts
              /\ snap_engine'.reconciled => snap_engine.staged = <<snap_adapter.epoch, snap_engine.revision>>
    BY <1>2, <1>7, SnPart
  <2>2. SnTyped'
    BY <1>1, <1>2, <1>7, <2>1 DEF SnInv, SnTyped
  <2>3. \A w : Snap!Current(w)' <=> Snap!Current(w)
    BY <1>1, <2>1 DEF Snap!Current
  <2>4. snap_engine.connected
    BY <1>7 DEF SnInv, SnBegun
  <2>5. SnBegun'
    <3>1. snap_engine'.inflight => snap_engine'.connected /\ snap_engine'.generation \in SnIds
            /\ snap_adapter'.reconciliation_id = snap_engine'.generation
      BY <1>1, <1>7, <2>1 DEF SnInv, SnBegun
    <3> QED BY <1>1, <1>2, <2>1, <3>1 DEF SnInv, SnBegun
  <2>6. SnAwaited'
    <3>1. ASSUME NEW k \in DOMAIN snap_adapter.uncorrelated
          PROVE  /\ snap_engine'.inflight /\ k \notin snap_engine'.parts
                 /\ \A w \in SnWaits' : w.type = k => ~Snap!Current(w)
      <4>1. /\ k \notin snap_engine.parts
            /\ \A w \in SnWaits : w.type = k => ~Snap!Current(w)
        BY <2>4, <3>1 DEF SnInv, SnAwaited
      <4>2. k # m.type
        BY <1>2, <1>7, <4>1
      <4>3. k \in Snap!Parts
        BY <1>4, <3>1 DEF SnAdapter, SnUnnumbered, Snap!Parts
      <4>4. k \notin snap_engine'.parts
        BY <2>1, <4>1, <4>2
      <4> QED BY <1>2, <2>1, <4>1, <4>3, <4>4
    <3> QED BY <1>1, <2>3, <3>1 DEF SnAwaited
  <2>7. SnAnswers'
    BY <1>1, <1>2, <1>7, <2>1, <2>3 DEF SnInv, SnAnswers
  <2>8. SnPublished
    <3>1. ASSUME snap_engine'.reconciled, ~snap_engine'.inflight, NEW p \in Snap!Parts
          PROVE  snap_collected'[p] >= snap_begun /\ snap_collected'[p] >= snap_seen
      <4>1. snap_seen <= snap_begun
        BY <1>7, <2>1, <3>1 DEF SnInv, SnAnswers
      <4>2. snap_collected'[p] \in Nat /\ snap_collected'[p] >= snap_begun
        BY <2>1, <3>1
      <4> QED BY <1>4, <4>1, <4>2
    <3> QED BY <3>1 DEF SnPublished
  <2> QED BY <2>2, <2>5, <2>6, <2>7, <2>8 DEF SnInv
<1> QED BY <1>3, <1>5, <1>6, <1>7

LEMMA SnDistrust == ASSUME SnInv, Snap!Distrust PROVE SnInv'
<1>1. /\ snap_engine' = Snap!Invalidated(snap_engine)
      /\ UNCHANGED <<snap_adapter, snap_queue, snap_pending, snap_version, snap_seen, snap_begun, snap_collected>>
  BY DEF Snap!Distrust
<1>2. snap_engine \in SnEngine
  BY DEF SnInv, SnTyped
<1>3. /\ snap_engine' \in SnEngine /\ snap_engine'.connected = snap_engine.connected /\ snap_engine'.inflight = snap_engine.inflight
      /\ snap_engine'.generation = snap_engine.generation /\ snap_engine'.parts = snap_engine.parts
      /\ snap_engine'.staged = snap_engine.staged /\ snap_engine'.revision = snap_engine.revision + 1
      /\ snap_engine.revision \in Nat /\ ~snap_engine'.reconciled
  BY <1>1, <1>2, SnInvalidated
<1>4. SnWaits' = SnWaits /\ \A w : Snap!Current(w)' <=> Snap!Current(w)
  BY <1>1, <1>3, SnWaiting DEF SnInv, Snap!Current
<1>5. SnTyped' /\ SnBegun' /\ SnAwaited'
  BY <1>1, <1>3, <1>4 DEF SnInv, SnTyped, SnBegun, SnAwaited
<1>6. SnAnswers'
  <2>1. ASSUME snap_engine.inflight
        PROVE  snap_engine'.staged \in Nat \X Nat /\ snap_engine'.staged[2] <= snap_engine'.revision
               /\ snap_engine'.staged # <<snap_adapter.epoch, snap_engine'.revision>>
    <3>1. snap_engine.staged \in Nat \X Nat /\ snap_engine.staged[2] <= snap_engine.revision
      BY <2>1 DEF SnInv, SnAnswers
    <3> QED BY <1>3, <3>1
  <2> QED BY <1>1, <1>3, <1>4, <2>1 DEF SnInv, SnAnswers
<1> QED BY <1>5, <1>6 DEF SnInv

\* The connection is lost, and another one begins, of which nothing is awaited yet.
LEMMA SnConnectionLost == ASSUME SnInv, Snap!ConnectionLost PROVE SnInv'
<1>1. /\ snap_pending' = {} /\ snap_engine' = [snap_engine EXCEPT !.connected = FALSE, !.inflight = FALSE, !.reconciled = FALSE]
      /\ UNCHANGED <<snap_adapter, snap_queue, snap_version, snap_seen, snap_begun, snap_collected>>
  BY DEF Snap!ConnectionLost
<1>2. snap_engine \in SnEngine
  BY DEF SnInv, SnTyped
<1>3. /\ snap_engine' \in SnEngine /\ ~snap_engine'.connected /\ ~snap_engine'.inflight
      /\ snap_engine'.generation = snap_engine.generation
  BY <1>1, <1>2 DEF SnEngine
<1>4. SnWaits' = SnWaits
  BY <1>1, SnWaiting DEF SnInv
<1> QED BY <1>1, <1>3, <1>4 DEF SnInv, SnTyped, SnBegun, SnAwaited, SnAnswers

LEMMA SnReset ==
  ASSUME NEW n \in Nat
  PROVE  /\ Snap!Reset(n) \in SnAdapter /\ Snap!Reset(n).epoch = n /\ DOMAIN Snap!Reset(n).uncorrelated = {}
         /\ Snap!Reset(n).executions = {} /\ Snap!Reset(n).account = {}
<1>1. Snap!Nothing \in SnUnnumbered /\ DOMAIN Snap!Nothing = {}
  <2>1. Snap!Nothing \in [{} -> SnIds] /\ DOMAIN Snap!Nothing = {}
    BY DEF Snap!Nothing
  <2>2. {} \in SUBSET SnapUncorrelated
    OBVIOUS
  <2> QED BY <2>1, <2>2 DEF SnUnnumbered
<1>2. {} \in SUBSET SnExecuted /\ {} \in SUBSET SnAccounted
  OBVIOUS
<1> QED BY <1>1, <1>2 DEF Snap!Reset, SnAdapter

LEMMA SnConnect == ASSUME SnInv, Snap!Connect PROVE SnInv'
<1> DEFINE a == Snap!Reset(snap_adapter.epoch + 1)
<1>1. /\ ~snap_engine.connected /\ snap_engine' = [snap_engine EXCEPT !.connected = TRUE]
      /\ snap_adapter' = [a EXCEPT !.overflow = snap_adapter.overflow]
      /\ UNCHANGED <<snap_queue, snap_pending, snap_version, snap_seen, snap_begun, snap_collected>>
  BY DEF Snap!Connect
<1>2. snap_engine \in SnEngine /\ snap_adapter.epoch \in Nat /\ snap_adapter.overflow \in BOOLEAN /\ snap_adapter.epoch + 1 \in Nat
  BY DEF SnInv, SnTyped, SnAdapter
<1>3. a \in SnAdapter /\ a.epoch = snap_adapter.epoch + 1 /\ DOMAIN a.uncorrelated = {} /\ a.executions = {} /\ a.account = {}
  BY <1>2, SnReset
<1> HIDE DEF a
<1>4. /\ snap_adapter' \in SnAdapter /\ snap_adapter'.epoch = snap_adapter.epoch + 1 /\ DOMAIN snap_adapter'.uncorrelated = {}
      /\ snap_adapter'.executions = {} /\ snap_adapter'.account = {}
  BY <1>1, <1>2, <1>3 DEF SnAdapter
<1>5. /\ snap_engine' \in SnEngine /\ snap_engine'.inflight = snap_engine.inflight
      /\ snap_engine'.generation = snap_engine.generation /\ ~snap_engine.inflight
  BY <1>1, <1>2 DEF SnInv, SnBegun, SnEngine
<1>6. SnTyped'
  BY <1>1, <1>4, <1>5 DEF SnInv, SnTyped
<1>7. SnWaits' = SnWaits /\ SnWaits \subseteq SnMarkers
  BY <1>1, SnWaiting DEF SnInv
<1>8. \A w \in SnWaits : w.epoch <= snap_adapter'.epoch
  <2>1. \A w \in SnWaits : w.epoch \in Nat /\ w.epoch <= snap_adapter.epoch
    BY <1>7 DEF SnInv, SnBegun, SnMarkers
  <2> QED BY <1>2, <1>4, <2>1
<1>9. SnBegun'
  BY <1>1, <1>4, <1>5, <1>7, <1>8 DEF SnInv, SnBegun
<1>10. SnAwaited' /\ SnAnswers'
  BY <1>4, <1>5 DEF SnAwaited, SnAnswers
<1> QED BY <1>6, <1>9, <1>10 DEF SnInv

\* Every step keeps what is known of snapshots, and publishes only what is current.
THEOREM SnapshotInductive ==
  ASSUME SnapAssumption, SnInv, [Snap!Next]_snap
  PROVE  SnInv' /\ SnPublished
<1>1. CASE Snap!Observe
  BY <1>1, SnObserve
<1>2. CASE Snap!Next /\ ~Snap!Observe
  <2>1. SnInv'
    BY <1>2, SnBegin, SnBeginRaises, SnDeadline, SnAnswer, SnLose, SnChange, SnOverflow, SnDistrust, SnConnectionLost, SnConnect
       DEF Snap!Next
  <2>2. ~snap_engine.inflight \/ snap_engine'.inflight \/ ~snap_engine'.reconciled
    <3>1. snap_engine \in SnEngine
      BY DEF SnInv, SnTyped
    <3>2. CASE UNCHANGED snap_engine
      BY <3>2
    <3>3. CASE Snap!Stage
      BY <3>3, SnStage
    <3>4. CASE Snap!Deadline \/ Snap!Distrust \/ Snap!ConnectionLost \/ Snap!Connect
      BY <3>1, <3>4 DEF Snap!Deadline, Snap!Distrust, Snap!ConnectionLost, Snap!Connect, Snap!Invalidated, SnEngine
    <3> QED BY <1>2, <3>2, <3>3, <3>4
         DEF Snap!Next, Snap!BeginReconcile, Snap!BeginRaises, Snap!Answer, Snap!Lose, Snap!Change, Snap!Overflow
  <2> QED BY <2>1, <2>2 DEF SnPublished
<1>3. CASE UNCHANGED snap
  <2>1. UNCHANGED <<snap_engine, snap_adapter, snap_queue, snap_pending, snap_version, snap_seen, snap_begun, snap_collected>>
    BY <1>3 DEF snap
  <2>2. SnWaits' = SnWaits /\ \A w : Snap!Current(w)' <=> Snap!Current(w)
    BY <2>1, SnWaiting DEF SnInv, Snap!Current
  <2> QED BY <2>1, <2>2 DEF SnInv, SnTyped, SnBegun, SnAwaited, SnAnswers, SnPublished
<1> QED BY <1>1, <1>2, <1>3

LEMMA SnInit == ASSUME Snap!Init PROVE SnInv
<1>1. /\ snap_engine = [connected |-> TRUE, inflight |-> FALSE, generation |-> 0, parts |-> {},
                        revision |-> 0, staged |-> <<>>, reconciled |-> FALSE]
      /\ snap_adapter = Snap!Reset(1) /\ snap_queue = <<>> /\ snap_pending = {}
      /\ snap_version = 0 /\ snap_seen = 0 /\ snap_begun = 0
  BY DEF Snap!Init
<1>2. /\ snap_adapter \in SnAdapter /\ DOMAIN snap_adapter.uncorrelated = {}
      /\ snap_adapter.executions = {} /\ snap_adapter.account = {}
  BY <1>1, SnReset
<1>3. <<>> \in SnStaged /\ {} \in SUBSET Snap!Parts
  BY DEF SnStaged
<1>4. snap_engine \in SnEngine /\ ~snap_engine.inflight
  BY <1>1, <1>3 DEF SnEngine
<1>5. snap_queue \in Seq(SnMarkers) /\ SnWaits = {}
  BY <1>1 DEF SnWaits
<1> QED BY <1>1, <1>2, <1>4, <1>5 DEF SnInv, SnTyped, SnBegun, SnAwaited, SnAnswers

\* The adapter never has to refuse a snapshot: what it awaits is of the one in flight.
LEMMA SnRefusesNone == ASSUME SnInv PROVE Snap!NeverRefused
<1>1. ASSUME snap_engine.connected, ~snap_engine.inflight PROVE snap_adapter.uncorrelated = Snap!Nothing
  <2>1. DOMAIN snap_adapter.uncorrelated = {}
    BY <1>1 DEF SnInv, SnAwaited
  <2>2. snap_adapter.uncorrelated = [k \in DOMAIN snap_adapter.uncorrelated |-> snap_adapter.uncorrelated[k]]
    BY DEF SnInv, SnTyped, SnAdapter, SnUnnumbered
  <2> QED BY <2>1, <2>2 DEF Snap!Nothing
<1> QED BY <1>1 DEF Snap!NeverRefused

LEMMA SnSteps == ASSUME SnapAssumption, SnInv, [Snap!Next]_snap PROVE Snap!PublishedIsCurrent
  BY SnapshotInductive DEF SnPublished, Snap!PublishedIsCurrent

-----------------------------------------------------------------------------
(* The machines together.                                                  *)

TradesInv ==
  /\ part = "ids" => IdsInv
  /\ part = "snap" => SnInv
  /\ part = "inc" => InInv
  /\ part = "crypto" => CrInv
  /\ part = "fx" => FXInv
  /\ part = "stock" => StInv
  /\ part = "adapter" => AdInv

LEMMA IdsInit == Ids!Init => IdsInv
  BY DEF Ids!Init, IdsInv, IdsTyped, IdsBelow, Ids!IdsAreDistinct

LEMMA SnapUnnumbered == SnapAssumption
  BY TradesAssumption DEF SnapAssumption

LEMMA TradesStart == TradesInit \/ Elsewhere => TradesInv
<1>1. CASE Elsewhere
  BY <1>1 DEF Elsewhere, TRADING, TradesInv
<1>2. CASE part = "ids" /\ Ids!Init
  BY <1>2, IdsInit DEF TradesInv
<1>3. CASE part = "snap" /\ Snap!Init
  BY <1>3, SnInit DEF TradesInv
<1>4. CASE part = "inc" /\ Inc!Init
  BY <1>4, InStart DEF TradesInv
<1>5. CASE part = "crypto" /\ Crypto!Init
  BY <1>5, CrInit, TradesAssumption DEF TradesInv
<1>6. CASE part = "fx" /\ FX!Init
  BY <1>6, FXInit, TradesAssumption DEF TradesInv
<1>7. CASE part = "stock" /\ Stock!Init
  BY <1>7, StInit, TradesAssumption DEF TradesInv
<1>8. CASE part = "adapter" /\ Adapter!Init
  BY <1>8, AdInit DEF TradesInv
<1>9. QED
  BY <1>1, <1>2, <1>3, <1>4, <1>5, <1>6, <1>7, <1>8 DEF TradesInit

\* A step is one of the machine, or leaves it.
LEMMA TradesStep ==
  [TradesNext]_trades =>
    /\ part' = part
    /\ part = "ids" => [Ids!Next]_ids
    /\ part = "snap" => [Snap!Next]_snap
    /\ part = "inc" => [Inc!Next]_inc
    /\ part = "crypto" => [Crypto!Next]_crypto
    /\ part = "fx" => [FX!Next]_fx
    /\ part = "stock" => [Stock!Next]_stock
    /\ part = "adapter" => [Adapter!Next]_adapter
  BY Zenon DEF TradesNext, IdsNext, SnapNext, IncNext, CryptoNext, FXNext, StockNext, AdapterNext,
               IdsOnly, SnapOnly, IncOnly, CryptoOnly, FXOnly, StockOnly, AdapterOnly, trades

LEMMA TradesKeep == TradesInv /\ [TradesNext]_trades => TradesInv'
<1> SUFFICES ASSUME TradesInv, [TradesNext]_trades PROVE TradesInv'
  OBVIOUS
<1>1. /\ part' = part
      /\ part = "ids" => [Ids!Next]_ids
      /\ part = "snap" => [Snap!Next]_snap
      /\ part = "inc" => [Inc!Next]_inc
      /\ part = "crypto" => [Crypto!Next]_crypto
      /\ part = "fx" => [FX!Next]_fx
      /\ part = "stock" => [Stock!Next]_stock
      /\ part = "adapter" => [Adapter!Next]_adapter
  BY TradesStep
<1>2. part = "ids" => IdsInv'
  BY <1>1, IdsInductive, Zenon DEF TradesInv
<1>3. part = "snap" => SnInv'
  BY <1>1, SnapUnnumbered, SnapshotInductive, Zenon DEF TradesInv
<1>4. part = "inc" => InInv'
  BY <1>1, IncidentsInductive, Zenon DEF TradesInv
<1>5. part = "crypto" => CrInv'
  BY <1>1, CryptoInductive, Zenon DEF TradesInv
<1>6. part = "fx" => FXInv'
  BY <1>1, FXInductive, Zenon DEF TradesInv
<1>7. part = "stock" => StInv'
  BY <1>1, StockInductive, Zenon DEF TradesInv
<1>8. part = "adapter" => AdInv'
  BY <1>1, AdapterInductive, TradesAssumption, Zenon DEF TradesInv
<1>9. QED
  BY <1>1, <1>2, <1>3, <1>4, <1>5, <1>6, <1>7, <1>8 DEF TradesInv

\* No run sells, or has a stop for, more than it owns: a crypto run (crypto_engine.py), a spot FX run
\* (fx_engine.py) and a stock run (stock_engine.py), for any numbers of orders, units, shares, prices,
\* authorizations, restarts, late fills and calls that raise.
THEOREM SellsStayCovered == TradesSpec => []SellsAreCovered
<1>1. TradesInv => SellsAreCovered
  BY CrCoverIsAll, FXCoverIsAll, StFitsFills DEF TradesInv, SellsAreCovered
<1>2. QED
  BY <1>1, TradesStart, TradesKeep, PTL DEF TradesSpec

\* Identifiers name one order for ever (store.py); no snapshot is refused (broker_snapshots.py); the
\* counts of incidents are those of the episodes (incidents.py); what a stock run has bought is reserved,
\* and one of its amendments is unanswered until the stop has begun to execute; and the paper adapter
\* sends a key again only in doubt, takes fills that grow, and stays in doubt (ibkr_paper_adapter.py).
THEOREM TradesStayAgreed == TradesSpec => []TradesAgree
<1>1. part = "ids" /\ TradesInv => Ids!IdsAreDistinct
  BY DEF TradesInv, IdsInv
<1>2. part = "snap" /\ TradesInv => Snap!NeverRefused
  BY SnRefusesNone DEF TradesInv
<1>3. part = "inc" /\ TradesInv => Inc!TotalsAgree
  BY DEF TradesInv, InInv
<1>4. part = "stock" /\ TradesInv => Stock!ExposureIsReserved /\ Stock!OneAmendment
  BY StOneAmendment DEF TradesInv, StInv
<1>5. part = "adapter" /\ TradesInv => Adapter!SentOnce /\ Adapter!FillsGrow /\ Adapter!DoubtIsKept
  BY DEF TradesInv, AdInv
<1>6. TradesInv => TradesAgree
  BY <1>1, <1>2, <1>3, <1>4, <1>5, Zenon DEF TradesAgree
<1>7. QED
  BY <1>6, TradesStart, TradesKeep, PTL DEF TradesSpec

LEMMA ActsOnEvidence == TradesInv /\ [TradesNext]_trades => TradesActOnEvidence
<1> SUFFICES ASSUME TradesInv, [TradesNext]_trades PROVE TradesActOnEvidence
  OBVIOUS
<1>1. part = "snap" => Snap!PublishedIsCurrent
  BY SnSteps, SnapUnnumbered, TradesStep, Zenon DEF TradesInv
<1>2. part = "inc" => Inc!ReleasedAfterFailure
  BY IncidentsInductive, TradesStep, Zenon DEF TradesInv, InSteps
<1>3. /\ part = "crypto" => Crypto!QualifiedByTrade
      /\ part = "stock" => Stock!QualifiedByTrade
  BY CrSteps, StSteps, TradesStep, Zenon DEF TradesInv
<1> QED BY <1>1, <1>2, <1>3, Zenon DEF TradesActOnEvidence
LEMMA ActsAsAuthorized == TradesInv /\ [TradesNext]_trades => TradesActAsAuthorized
<1> SUFFICES ASSUME TradesInv, [TradesNext]_trades PROVE TradesActAsAuthorized
  OBVIOUS
<1>1. part = "inc" => Inc!BatchAsReviewed
  BY IncidentsInductive, TradesStep, Zenon DEF TradesInv, InSteps
<1>2. /\ part = "fx" => FX!SignalOfAuthorization
      /\ part = "stock" => Stock!EnteredAsAuthorized
  BY FXSteps, StSteps, TradesStep, Zenon DEF TradesInv
<1> QED BY <1>1, <1>2, Zenon DEF TradesActAsAuthorized

\* A snapshot is published only when it is complete and current (reconciliation.py), a restriction
\* released only by evidence gathered after the last failure or as the operator reviewed it
\* (incident_recovery.py), a ceiling raised only by a whole trade that was seen protected
\* (_crypto_reconciled, _stock_reconciled), and an entry made only under the authorization its signal
\* was of (_fx_maintain, _stock_enter).
THEOREM TradesActAsTold == TradesSpec => TradesAct
<1>1. TradesInv /\ [TradesNext]_trades => TradesActOnEvidence /\ TradesActAsAuthorized
  BY ActsOnEvidence, ActsAsAuthorized
<1>2. QED
  BY <1>1, TradesStart, TradesKeep, PTL DEF TradesSpec, TradesAct
=============================================================================
