---------------------------- MODULE MCStorefront ----------------------------
(* Small instances of Storefront; the bounds are in the .cfg files. *)
EXTENDS Storefront, TLC

CONSTANTS lamp, o1, o2

OneProduct == [o \in Orders |-> lamp]
OneUnit == [o \in Orders |-> 1]

\* Stock for one order of the two, and a product that is not for sale yet.
Shelf == {[status |-> "Available", onHand |-> 1], [status |-> "Draft", onHand |-> 1]}
=============================================================================
