------------------------------- MODULE AppShell -------------------------------
(***************************************************************************)
(* App.js: the stand-alone root component.  It keeps its own cart in a    *)
(* useState array (independent of CartContext), appends or increments a   *)
(* line with a functional setCart updater, shows the item count on the    *)
(* cart badge, and sets cartOpen from the cart icon (no Drawer reads it). *)
(* A line is abstracted to its id and quantity; the copied product fields *)
(* are never read.                                                          *)
(***************************************************************************)
EXTENDS Integers, Sequences, SequencesExt

CONSTANT MaxQty   \* bound: no line is driven above MaxQty

VARIABLES
    cart,       \* App cart
    cartOpen    \* App cartOpen

appVars == <<cart, cartOpen>>

\* sampleProducts: the ids of the three product cards.
sampleProducts == {1, 2, 3}

CartIds == {cart[i].id : i \in DOMAIN cart}

-----------------------------------------------------------------------------
\* Fault: the updater without the find/map branch.
AddToCartAlwaysAppend(p) ==
    /\ cart' = Append(cart, [id |-> p, quantity |-> 1])
    /\ UNCHANGED cartOpen

\* Fault: the appended line without quantity: 1.
AddToCartNoQuantity(p) ==
    /\ cart' = IF p \in CartIds THEN cart ELSE Append(cart, [id |-> p])
    /\ UNCHANGED cartOpen

\* Fault: the map callback without the item.id === product.id test.
AddToCartIncrementsAll(p) ==
    /\ \A i \in DOMAIN cart : cart[i].quantity < MaxQty
    /\ cart' = IF p \in CartIds
               THEN [i \in DOMAIN cart |-> [cart[i] EXCEPT !.quantity = @ + 1]]
               ELSE Append(cart, [id |-> p, quantity |-> 1])
    /\ UNCHANGED cartOpen

\* A card's "Add to Cart": addToCart(product), setCart(prevCart => ...):
\* increment the line with the product's id if find() returns one, else
\* append { ...product, quantity: 1 }.
AddToCart(p) ==
    /\ \A i \in DOMAIN cart : cart[i].id = p => cart[i].quantity < MaxQty
    /\ cart' = IF p \in CartIds
               THEN [i \in DOMAIN cart |->
                        IF cart[i].id = p THEN [cart[i] EXCEPT !.quantity = @ + 1]
                                          ELSE cart[i]]
               ELSE Append(cart, [id |-> p, quantity |-> 1])
    /\ UNCHANGED cartOpen

\* The cart icon: setCartOpen(true).
OpenCart ==
    /\ cartOpen' = TRUE
    /\ UNCHANGED cart

\* getTotalItems: cart.reduce((total, item) => total + item.quantity, 0).
getTotalItems == FoldLeft(LAMBDA total, item : total + item.quantity, 0, cart)

AppInit == cart = <<>> /\ cartOpen = FALSE

AppNext == (\E p \in sampleProducts : AddToCart(p)) \/ OpenCart

AppSpec == AppInit /\ [][AppNext]_appVars

-----------------------------------------------------------------------------
AppTypeOK ==
    /\ cart \in Seq([id : sampleProducts, quantity : 1..MaxQty])
    /\ cartOpen \in BOOLEAN

\* The mapping onto CartBag: a product's quantity is the sum over its lines.
AppContents ==
    [p \in CartIds |->
        FoldLeft(LAMBDA acc, l : acc + (IF l.id = p THEN l.quantity ELSE 0), 0, cart)]

AppBag == INSTANCE CartBag WITH
              Products <- sampleProducts, Quantities <- 1..MaxQty,
              contents <- AppContents

\* spec.md 4.1: App's own cart is a cart store whose only operation is the
\* cards' "Add to Cart": every step that changes it is an addItem of
\* exactly one unit of one product, leaving every other product alone,
\* and the badge (getTotalItems) always shows the number of units the
\* mapping holds.
AppImplementsBag ==
    /\ AppBag!Init
    /\ [][\E p \in sampleProducts : AppBag!Add(p, 1)]_AppContents
    /\ [](getTotalItems = FoldFunction(LAMBDA q, acc : q + acc, 0, AppContents))

\* spec.md 3: App's cart holds at most one line per product, however many
\* times each card's button is clicked.
AppUniqueLines ==
    \A i, j \in DOMAIN cart : i # j => cart[i].id # cart[j].id
=============================================================================
