--------------------------- MODULE EntryCapacity ---------------------------
(***************************************************************************)
(* What the owner of the risk limits may rely on for one entry, whatever   *)
(* crashes, reconnects or reordered callbacks happen below: capacity is    *)
(* held before an order can reach the market, at most one order is sent    *)
(* for it, and capacity is returned only when that order can buy nothing   *)
(* any more and has bought nothing.  EntryOrder implements this            *)
(* specification.                                                          *)
(***************************************************************************)
EXTENDS Naturals

CONSTANT Qty

VARIABLES capacity,   \* "free", "held", "returned"
          exposure,   \* "none": nothing sent, "open": may still buy, "closed"
          bought

vars == <<capacity, exposure, bought>>

Init == capacity = "free" /\ exposure = "none" /\ bought = 0

Hold == capacity = "free" /\ capacity' = "held" /\ UNCHANGED <<exposure, bought>>

Send == /\ capacity = "held" /\ exposure = "none"
        /\ exposure' \in {"open", "closed"} /\ UNCHANGED <<capacity, bought>>

Buy == /\ exposure = "open" /\ bought < Qty /\ bought' = bought + 1
       /\ exposure' \in {"open", "closed"} /\ UNCHANGED capacity

Close == exposure = "open" /\ exposure' = "closed" /\ UNCHANGED <<capacity, bought>>

Return == /\ capacity = "held" /\ exposure # "open" /\ bought = 0
          /\ capacity' = "returned" /\ UNCHANGED <<exposure, bought>>

Next == Hold \/ Send \/ Buy \/ Close \/ Return

Spec == Init /\ [][Next]_vars
=============================================================================
