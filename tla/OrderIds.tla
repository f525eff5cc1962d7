------------------------------ MODULE OrderIds ------------------------------
(***************************************************************************)
(* Broker order identifiers (store.py, reserve_order and                   *)
(* allocate_broker_id).  One row of the outbox stands for one order at the *)
(* broker, for a bracket of three or for a pair of four, with consecutive  *)
(* identifiers; a credit preview takes one and leaves no row.  The next    *)
(* base is the largest of what the broker last offered, what the durable   *)
(* allocator kept and what the outbox shows.                               *)
(***************************************************************************)
EXTENDS Integers, FiniteSets, FiniteSetsExt

CONSTANTS Keys,       \* identities of orders
          MaxId,      \* bound: identifiers
          MaxRestarts \* bound: process restarts

VARIABLES
  outbox,     \* durable: rows [base, kind]
  allocator,  \* durable: next_id of the allocator document, 0 when there is none
  previews,   \* identifiers of credit previews
  next_id,    \* engine: the largest identifier the broker has offered this process
  offered,    \* broker: the identifier it would offer next
  sent,       \* broker: identifiers it has been given, with the key that owns them
  restarts    \* restarts so far

vars == <<outbox, allocator, previews, next_id, offered, sent, restarts>>

KINDS == {"single", "bracket", "pair"}
\* LEG_OFFSETS and order_ids: what a row occupies at the broker.
Ids(base, kind) == base..(base + (CASE kind = "single" -> 0 [] kind = "bracket" -> 2 [] OTHER -> 3))

Init == /\ outbox = [k \in {} |-> [base |-> 0, kind |-> "single"]] /\ allocator = 0
        /\ previews = {} /\ next_id = 1 /\ offered = 1 /\ sent = {} /\ restarts = 0

Highest == Max({0} \cup {outbox[k].base : k \in DOMAIN outbox})
Base(gap) == Max({next_id, allocator, Highest + gap})

ReserveOrder_PairOfThree(k, kind) ==
  /\ k \notin DOMAIN outbox /\ Base(3) + 3 <= MaxId
  /\ outbox' = [x \in DOMAIN outbox \cup {k} |->
                  IF x = k THEN [base |-> Base(3), kind |-> kind] ELSE outbox[x]]
  /\ allocator' = Base(3) + 3
  /\ UNCHANGED <<previews, next_id, offered, sent, restarts>>

\* A new key gets a base; a known key gets the row it already has.
ReserveOrder(k, kind) ==
  /\ k \notin DOMAIN outbox /\ Base(3) + 3 <= MaxId
  /\ outbox' = [x \in DOMAIN outbox \cup {k} |->
                  IF x = k THEN [base |-> Base(3), kind |-> kind] ELSE outbox[x]]
  /\ allocator' = Base(3) + (IF kind = "pair" THEN 4 ELSE 3)
  /\ UNCHANGED <<previews, next_id, offered, sent, restarts>>

AllocateBrokerId ==
  /\ Base(4) + 1 <= MaxId
  /\ previews' = previews \cup {Base(4)} /\ allocator' = Base(4) + 1
  /\ UNCHANGED <<outbox, next_id, offered, sent, restarts>>

\* The broker gets the orders of a row: it offers a larger identifier from now on.
Dispatch(k) ==
  /\ k \in DOMAIN outbox
  /\ sent' = sent \cup (Ids(outbox[k].base, outbox[k].kind) \X {k})
  /\ offered' = Max({offered} \cup {i + 1 : i \in Ids(outbox[k].base, outbox[k].kind)})
  /\ UNCHANGED <<outbox, allocator, previews, next_id, restarts>>

\* The handshake of a connection, which may come from a broker that was reset.
Handshake ==
  /\ \E n \in {offered, 1} : next_id' = Max({next_id, n})
  /\ UNCHANGED <<outbox, allocator, previews, offered, sent, restarts>>

Restart == /\ restarts < MaxRestarts /\ restarts' = restarts + 1 /\ next_id' = 0
           /\ UNCHANGED <<outbox, allocator, previews, offered, sent>>

Next == \/ \E k \in Keys : Dispatch(k) \/ \E kind \in KINDS : ReserveOrder(k, kind)
        \/ AllocateBrokerId \/ Handshake \/ Restart

Spec == Init /\ [][Next]_vars

-----------------------------------------------------------------------------
TypeOK == /\ allocator \in 0..(MaxId + 1) /\ next_id \in Nat /\ offered \in Nat
          /\ \A k \in DOMAIN outbox : outbox[k].base \in 1..MaxId /\ outbox[k].kind \in KINDS

Owner(k) == Ids(outbox[k].base, outbox[k].kind)

\* An identifier names one order for ever: rows, legs and previews never share one, whatever the
\* broker offers after a restart.
IdsAreDistinct ==
  /\ \A j, k \in DOMAIN outbox : j # k => Owner(j) \cap Owner(k) = {}
  /\ \A k \in DOMAIN outbox : Owner(k) \cap previews = {}
=============================================================================
