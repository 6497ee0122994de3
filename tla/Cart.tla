-------------------------------- MODULE Cart --------------------------------
(***************************************************************************)
(* The shopping cart of the storefront and the page handlers that change  *)
(* it.                                                                     *)
(*                                                                         *)
(* The cart store itself (contexts/CartContext.js: addToCart,              *)
(* updateQuantity, removeFromCart, clearCart, getTotalPrice) is imported   *)
(* by every page but is not part of the repository; its operators are     *)
(* modelled from spec.md section 4.1.  The handlers that call it           *)
(* (ProductsPage, ProductDetailPage, CartPage, Header) are modelled from   *)
(* their source.                                                           *)
(*                                                                         *)
(* cartItems is an array of product records extended with a quantity; a   *)
(* line is abstracted to its id and quantity (the record's other fields   *)
(* are copied from the catalogue and never read by the cart logic, except *)
(* the price, which is Price[id]).                                         *)
(***************************************************************************)
EXTENDS Integers, Sequences, SequencesExt, FiniteSets

CONSTANTS
    Products,       \* ids of the catalogue (ProductsPage.js allProducts)
    Price,          \* Price[p]: unit price of product p, in cents
    DetailCatalog,  \* ids ProductDetailPage.js knows about
    DetailFallback, \* the id it shows for any other route id (products[1])
    MaxQty,         \* bound: no quantity is driven above MaxQty
    MinQty,         \* bound: no quantity is driven below MinQty
    TypedValues,    \* what parseInt returns for the text the user types
    NaN             \* parseInt of text that is not a number

ASSUME /\ DetailCatalog \subseteq Products
       /\ DetailFallback \in DetailCatalog
       /\ MinQty \in Int /\ MaxQty \in Nat /\ MinQty < 1 /\ 1 < MaxQty
       /\ TypedValues \subseteq (MinQty..MaxQty) \cup {NaN}

VARIABLES
    cartItems,   \* the cart context's array of lines
    quantity     \* ProductDetailPage's local quantity field

cartVars == <<cartItems, quantity>>

Line(p, q) == [id |-> p, quantity |-> q]
LineIds(c) == {c[i].id : i \in DOMAIN c}
QuantityOf(c, p) == c[CHOOSE i \in DOMAIN c : c[i].id = p].quantity

-----------------------------------------------------------------------------
(* The cart context (not in the repository: spec.md 4.1).                  *)

\* addToCart(product, quantity = 1): increment an existing line, or append.
AddItem(c, p, q) ==
    IF p \in LineIds(c)
    THEN [i \in DOMAIN c |-> IF c[i].id = p
                             THEN [c[i] EXCEPT !.quantity = @ + q]
                             ELSE c[i]]
    ELSE Append(c, Line(p, q))

\* updateQuantity(id, n): sets the line's quantity, with no validation
\* (spec.md 9: "allows direct quantity edits that could be zero or negative").
UpdateQuantity(c, p, n) ==
    [i \in DOMAIN c |-> IF c[i].id = p THEN [c[i] EXCEPT !.quantity = n]
                                       ELSE c[i]]

\* removeFromCart(id): drops the line; a missing id is a no-op.
RemoveFromCart(c, p) == SelectSeq(c, LAMBDA l : l.id # p)

-----------------------------------------------------------------------------
(* `parseInt(e.target.value) || 1`: NaN and 0 are falsy and become 1.      *)
OrOne(v) == IF v \in {NaN, 0} THEN 1 ELSE v

\* ProductsPage.handleAddToCart: addToCart(product), default quantity 1.
ProductsAddToCart(p) ==
    /\ p \in LineIds(cartItems) => QuantityOf(cartItems, p) < MaxQty
    /\ cartItems' = AddItem(cartItems, p, 1)
    /\ UNCHANGED quantity

\* ProductDetailPage: the shown product is products[productId] || products[1].
DetailProduct(route) == IF route \in DetailCatalog THEN route ELSE DetailFallback

\* Fault: the detail quantity field without Math.max(1, .).
SetDetailQuantityUnclamped(v) ==
    /\ quantity' = OrOne(v)
    /\ UNCHANGED cartItems

\* ProductDetailPage quantity field: Math.max(1, parseInt(value) || 1).
SetDetailQuantity(v) ==
    /\ quantity' = IF OrOne(v) > 1 THEN OrOne(v) ELSE 1   \* Math.max(1, .)
    /\ UNCHANGED cartItems

\* ProductDetailPage.handleAddToCart: addToCart(product, quantity).
DetailAddToCart(route) ==
    LET p == DetailProduct(route) IN
    /\ p \in LineIds(cartItems) => QuantityOf(cartItems, p) + quantity <= MaxQty
    /\ cartItems' = AddItem(cartItems, p, quantity)
    /\ UNCHANGED quantity

\* CartPage "-" button: updateQuantity(item.id, item.quantity - 1).
DecrementQuantity(p) ==
    /\ p \in LineIds(cartItems)
    /\ QuantityOf(cartItems, p) - 1 >= MinQty
    /\ cartItems' = UpdateQuantity(cartItems, p, QuantityOf(cartItems, p) - 1)
    /\ UNCHANGED quantity

\* CartPage "+" button: updateQuantity(item.id, item.quantity + 1).
IncrementQuantity(p) ==
    /\ p \in LineIds(cartItems)
    /\ QuantityOf(cartItems, p) + 1 <= MaxQty
    /\ cartItems' = UpdateQuantity(cartItems, p, QuantityOf(cartItems, p) + 1)
    /\ UNCHANGED quantity

\* CartPage quantity text field: updateQuantity(item.id, parseInt(v) || 1).
TypeQuantity(p, v) ==
    /\ p \in LineIds(cartItems)
    /\ cartItems' = UpdateQuantity(cartItems, p, OrOne(v))
    /\ UNCHANGED quantity

\* CartPage delete button: removeFromCart(item.id).
RemoveLine(p) ==
    /\ p \in LineIds(cartItems)
    /\ cartItems' = RemoveFromCart(cartItems, p)
    /\ UNCHANGED quantity

\* CartPage "Clear Cart": clearCart().
ClearCart ==
    /\ cartItems' = <<>>
    /\ UNCHANGED quantity

CartInit ==
    /\ cartItems = <<>>
    /\ quantity = 1

CartNext ==
    \/ \E p \in Products : ProductsAddToCart(p)
    \/ \E v \in TypedValues : SetDetailQuantity(v)
    \/ \E r \in Products : DetailAddToCart(r)
    \/ \E p \in Products : DecrementQuantity(p) \/ IncrementQuantity(p) \/ RemoveLine(p)
    \/ \E p \in Products, v \in TypedValues : TypeQuantity(p, v)
    \/ ClearCart

CartSpec == CartInit /\ [][CartNext]_cartVars

-----------------------------------------------------------------------------
CartTypeOK ==
    /\ cartItems \in Seq([id : Products, quantity : MinQty..MaxQty])
    /\ quantity \in 1..MaxQty

\* spec.md 3: every cart line has quantity >= 1.  CartPage's "-" button and
\* its text field pass item.quantity - 1 and parseInt(v) || 1 straight to
\* updateQuantity, so a line can reach 0 or a negative quantity.
QuantityPositive == \A i \in DOMAIN cartItems : cartItems[i].quantity >= 1
=============================================================================
