-------------------------------- MODULE Escrow --------------------------------
(***************************************************************************)
(* What the platform promises about the money of its deliveries, and       *)
(* nothing about how.  A payment for an item is collected once.  One       *)
(* payment of an item at most is credited to it; what is credited is held, *)
(* and then either released to the traveler in full or given back, in part *)
(* or in full.  A payment that is not credited is neither released nor     *)
(* given back: nothing is promised of it.                                  *)
(***************************************************************************)
EXTENDS Integers

CONSTANTS
  Payments,
  Items,
  NoItem  \* what a payment is for before it is collected

VARIABLE escrow

NoPayment == [state |-> "none", item |-> NoItem, amount |-> 0, returned |-> 0]

Credited(p) == escrow[p].state \in {"held", "released", "returned"}

Init == escrow = [p \in Payments |-> NoPayment]

Collect(p) ==
  /\ escrow[p].state = "none"
  /\ escrow'[p].item \in Items
  /\ escrow'[p].amount > 0
  /\ escrow' = [escrow EXCEPT ![p] = [state |-> "collected", item |-> escrow'[p].item,
                                      amount |-> escrow'[p].amount, returned |-> 0]]

Credit(p) ==
  /\ escrow[p].state = "collected"
  /\ \A q \in Payments : Credited(q) => escrow[q].item # escrow[p].item
  /\ escrow' = [escrow EXCEPT ![p].state = "held"]

Release(p) ==
  /\ escrow[p].state = "held"
  /\ escrow' = [escrow EXCEPT ![p].state = "released"]

GiveBack(p) ==
  /\ escrow[p].state = "held"
  /\ \E a \in 1 .. escrow[p].amount :
       escrow' = [escrow EXCEPT ![p] = [@ EXCEPT !.state = "returned", !.returned = a]]

Next == \E p \in Payments : Collect(p) \/ Credit(p) \/ Release(p) \/ GiveBack(p)

Spec == Init /\ [][Next]_escrow

=============================================================================
