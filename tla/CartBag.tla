------------------------------- MODULE CartBag -------------------------------
(***************************************************************************)
(* What a cart store promises (spec.md 2 and 4.1): a mapping from product *)
(* id to quantity.  addItem adds at least 1 to one product (creating it),  *)
(* updateQuantity sets the quantity of one product already in the cart,   *)
(* removeItem deletes one product, clear empties the mapping; no step     *)
(* touches any other product.  The carts of modules Cart and AppShell are *)
(* shown to implement it through a refinement mapping.                    *)
(***************************************************************************)
EXTENDS Integers

CONSTANTS
    Products,     \* product ids
    Quantities    \* quantities a line may be set to (a finite set of integers)

VARIABLE contents   \* function from the products in the cart to their quantity

Add(p, q) ==
    /\ q \in Quantities /\ q >= 1
    /\ contents' = IF p \in DOMAIN contents
                   THEN [contents EXCEPT ![p] = @ + q]
                   ELSE [x \in DOMAIN contents \cup {p} |->
                            IF x = p THEN q ELSE contents[x]]

Update(p, n) ==
    /\ p \in DOMAIN contents /\ n \in Quantities
    /\ contents' = [contents EXCEPT ![p] = n]

Remove(p) ==
    /\ p \in DOMAIN contents
    /\ contents' = [x \in DOMAIN contents \ {p} |-> contents[x]]

Clear ==
    contents' = [x \in {} |-> 0]

Init == contents = [x \in {} |-> 0]

Next ==
    \/ \E p \in Products, q \in Quantities : Add(p, q) \/ Update(p, q)
    \/ \E p \in Products : Remove(p)
    \/ Clear

Spec == Init /\ [][Next]_contents
=============================================================================
