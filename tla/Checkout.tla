------------------------------- MODULE Checkout -------------------------------
(***************************************************************************)
(* The checkout wizard (pages/CheckoutPage.js) composed with the cart      *)
(* (module Cart) and the pages that change the cart, under client-side     *)
(* navigation.                                                             *)
(*                                                                         *)
(* CheckoutPage keeps activeStep, orderPlaced, processing and the two      *)
(* forms as component state: they are reset each time the page is        *)
(* mounted.  handlePlaceOrder awaits a 2 s timer and then, whether or not  *)
(* the component is still mounted, clears the (global) cart and arms a    *)
(* 3 s timer that navigates to /orders.  React drops state updates of an   *)
(* unmounted component, so setOrderPlaced and setProcessing of a stale     *)
(* mount have no effect.  Timers of equal length fire in the order they   *)
(* were armed, so pending placements and pending redirects are queues.    *)
(*                                                                         *)
(* Form contents are abstracted to whether they pass validateShipping and *)
(* validatePayment; routing (not in the repository) is spec.md 6.         *)
(***************************************************************************)
EXTENDS Cart

CONSTANTS
    MaxMounts    \* bound: the checkout page is mounted at most MaxMounts times

Pages == {"products", "detail", "cart", "checkout", "orders"}
FormStates == {"invalid", "valid"}

VARIABLES
    page,         \* the route being shown
    detailRoute,  \* the productId route parameter of the detail page
    mount,        \* how many times CheckoutPage has been mounted
    activeStep,   \* CheckoutPage: 0 shipping, 1 payment, 2 confirmation
    orderPlaced,  \* CheckoutPage
    processing,   \* CheckoutPage
    shippingInfo, \* CheckoutPage: does the shipping form validate?
    paymentInfo,  \* CheckoutPage: does the payment form validate?
    placing,      \* armed 2 s timers: [mount, reviewed cart], oldest first
    redirecting,  \* armed 3 s navigate('/orders') timers: mounts, oldest first
    landed        \* history: mounts whose redirect to /orders has fired

checkoutVars == <<mount, activeStep, orderPlaced, processing, shippingInfo,
                  paymentInfo>>
timerVars == <<placing, redirecting, landed>>
vars == <<cartItems, quantity, page, detailRoute, checkoutVars, timerVars>>

Mounted(m) == m = mount /\ page = "checkout"

\* CheckoutPage renders the wizard only when
\* !(cartItems.length === 0 && !orderPlaced) and !orderPlaced.
WizardShown == page = "checkout" /\ Len(cartItems) > 0 /\ ~orderPlaced

-----------------------------------------------------------------------------
(* Navigation.  Entering /checkout mounts a fresh CheckoutPage; entering a *)
(* product route mounts a fresh ProductDetailPage (quantity back to 1).    *)

MountCheckout ==
    /\ mount < MaxMounts
    /\ mount' = mount + 1
    /\ activeStep' = 0
    /\ orderPlaced' = FALSE
    /\ processing' = FALSE
    \* address, city, state and zipCode start empty whoever is logged in
    /\ shippingInfo' = "invalid"
    /\ paymentInfo' = "invalid"

Navigate(to) ==
    /\ to # page
    /\ page' = to
    /\ IF to = "checkout" THEN MountCheckout ELSE UNCHANGED checkoutVars
    /\ IF to = "detail"
       THEN \E r \in Products : detailRoute' = r /\ quantity' = 1
       ELSE UNCHANGED <<detailRoute, quantity>>
    /\ UNCHANGED <<cartItems, timerVars>>

-----------------------------------------------------------------------------
(* Cart handlers, each on the page that renders it.                        *)

OnPage(pg, A) ==
    /\ page = pg
    /\ A
    /\ UNCHANGED <<page, detailRoute, checkoutVars, timerVars>>

CartStep ==
    \/ \E p \in Products : OnPage("products", ProductsAddToCart(p))
    \/ \E v \in TypedValues : OnPage("detail", SetDetailQuantity(v))
    \/ OnPage("detail", DetailAddToCart(detailRoute))
    \/ \E p \in Products :
          \/ OnPage("cart", DecrementQuantity(p))
          \/ OnPage("cart", IncrementQuantity(p))
          \/ OnPage("cart", RemoveLine(p))
    \/ \E p \in Products, v \in TypedValues : OnPage("cart", TypeQuantity(p, v))
    \/ OnPage("cart", ClearCart)

-----------------------------------------------------------------------------
(* CheckoutPage handlers.                                                  *)

\* handleShippingChange (the form is rendered at step 0 only).
EditShipping(s) ==
    /\ WizardShown /\ activeStep = 0
    /\ shippingInfo' = s
    /\ UNCHANGED <<cartItems, quantity, page, detailRoute, mount, activeStep,
                   orderPlaced, processing, paymentInfo, timerVars>>

\* handlePaymentChange (the form is rendered at step 1 only).
EditPayment(s) ==
    /\ WizardShown /\ activeStep = 1
    /\ paymentInfo' = s
    /\ UNCHANGED <<cartItems, quantity, page, detailRoute, mount, activeStep,
                   orderPlaced, processing, shippingInfo, timerVars>>

ValidateShipping == shippingInfo = "valid"
ValidatePayment == paymentInfo = "valid"

\* Fault: handleNext without the validatePayment early return.
HandleNextUnvalidatedPayment ==
    /\ WizardShown /\ ~processing
    /\ \/ activeStep = 0 /\ ValidateShipping
       \/ activeStep = 1
    /\ activeStep' = activeStep + 1
    /\ UNCHANGED <<cartItems, quantity, page, detailRoute, mount, orderPlaced,
                   processing, shippingInfo, paymentInfo, timerVars>>

\* handleNext at steps 0 and 1: the button is disabled while processing;
\* a failed validation only sets the inline errors.
HandleNext ==
    /\ WizardShown /\ ~processing
    /\ \/ activeStep = 0 /\ ValidateShipping
       \/ activeStep = 1 /\ ValidatePayment
    /\ activeStep' = activeStep + 1
    /\ UNCHANGED <<cartItems, quantity, page, detailRoute, mount, orderPlaced,
                   processing, shippingInfo, paymentInfo, timerVars>>

HandlePlaceOrder ==
    /\ WizardShown /\ ~processing
    /\ activeStep = 2
    /\ processing' = TRUE
    /\ placing' = Append(placing, [mount |-> mount, reviewed |-> cartItems])
    /\ UNCHANGED <<cartItems, quantity, page, detailRoute, mount, activeStep,
                   orderPlaced, shippingInfo, paymentInfo, redirecting, landed>>

\* Fault: the Back button rendered on the first step too.
HandleBackFromAnyStep ==
    /\ WizardShown
    /\ activeStep' = activeStep - 1
    /\ UNCHANGED <<cartItems, quantity, page, detailRoute, mount, orderPlaced,
                   processing, shippingInfo, paymentInfo, timerVars>>

\* handleBack: the Back button is shown when activeStep > 0 and is not
\* disabled while processing.
HandleBack ==
    /\ WizardShown /\ activeStep > 0
    /\ activeStep' = activeStep - 1
    /\ UNCHANGED <<cartItems, quantity, page, detailRoute, mount, orderPlaced,
                   processing, shippingInfo, paymentInfo, timerVars>>

\* Fault: the placement resumes without arming the redirect timer.
PlaceOrderResumesNoRedirect ==
    /\ placing # <<>>
    /\ LET f == Head(placing) IN
       /\ placing' = Tail(placing)
       /\ cartItems' = <<>>
       /\ IF Mounted(f.mount)
          THEN orderPlaced' = TRUE /\ processing' = FALSE
          ELSE UNCHANGED <<orderPlaced, processing>>
    /\ UNCHANGED <<quantity, page, detailRoute, mount, activeStep, shippingInfo,
                   paymentInfo, redirecting, landed>>

\* The rest of handlePlaceOrder once the 2 s timer fires: setOrderPlaced(true),
\* clearCart(), arm the 3 s redirect, and finally setProcessing(false).  The
\* set-state calls reach the page only if the same mount is still shown.
PlaceOrderResumes ==
    /\ placing # <<>>
    /\ LET f == Head(placing) IN
       /\ placing' = Tail(placing)
       /\ cartItems' = <<>>
       /\ redirecting' = Append(redirecting, f.mount)
       /\ IF Mounted(f.mount)
          THEN orderPlaced' = TRUE /\ processing' = FALSE
          ELSE UNCHANGED <<orderPlaced, processing>>
    /\ UNCHANGED <<quantity, page, detailRoute, mount, activeStep, shippingInfo,
                   paymentInfo, landed>>

\* The 3 s timer: navigate('/orders'), from whatever page is shown.
RedirectToOrders ==
    /\ redirecting # <<>>
    /\ page' = "orders"
    /\ redirecting' = Tail(redirecting)
    /\ landed' = landed \cup {Head(redirecting)}
    /\ UNCHANGED <<cartItems, quantity, detailRoute, checkoutVars, placing>>

-----------------------------------------------------------------------------
Init ==
    /\ CartInit
    /\ page = "products"
    /\ detailRoute \in Products
    /\ mount = 0
    /\ activeStep = 0
    /\ orderPlaced = FALSE
    /\ processing = FALSE
    /\ shippingInfo = "invalid"
    /\ paymentInfo = "invalid"
    /\ placing = <<>>
    /\ redirecting = <<>>
    /\ landed = {}

UserStep ==
    \/ \E to \in Pages : Navigate(to)
    \/ CartStep
    \/ \E s \in FormStates : EditShipping(s) \/ EditPayment(s)
    \/ HandleNext
    \/ HandlePlaceOrder
    \/ HandleBack

TimerStep == PlaceOrderResumes \/ RedirectToOrders

Next == UserStep \/ TimerStep

\* Timers fire: the browser runs an armed setTimeout callback eventually.
\* Nothing obliges the user to act.
Spec == Init /\ [][Next]_vars /\ WF_vars(PlaceOrderResumes) /\ WF_vars(RedirectToOrders)

-----------------------------------------------------------------------------
Mounts == 1..MaxMounts
Placement == [mount : 0..MaxMounts, reviewed : Seq([id : Products, quantity : MinQty..MaxQty])]

TypeOK ==
    /\ CartTypeOK
    /\ page \in Pages
    /\ detailRoute \in Products
    /\ mount \in 0..MaxMounts
    /\ activeStep \in 0..2
    /\ orderPlaced \in BOOLEAN /\ processing \in BOOLEAN
    /\ shippingInfo \in FormStates /\ paymentInfo \in FormStates
    /\ placing \in Seq(Placement)
    /\ redirecting \in Seq(Mounts)
    /\ landed \subseteq Mounts

\* The shown wizard is past a step only with that step's form valid:
\* Back never re-validates, but every way forward to the payment and the
\* confirmation step goes through validateShipping / validatePayment, and a
\* form can be edited only on its own step.
ReviewedFormsValid ==
    page = "checkout" =>
        /\ activeStep >= 1 => ValidateShipping
        /\ activeStep = 2 => ValidatePayment

PlacementReachesOrders ==
    \A m \in Mounts :
        (\E i \in DOMAIN placing : placing[i].mount = m) ~> (m \in landed)

\* spec.md 4.2/5: the placement empties the cart the user reviewed; a late
\* result must not act on a cart that changed after "Place Order".  The code
\* clears whatever the cart holds 2 s later, mounted or not.
ClearsOnlyReviewedCart ==
    [][Len(placing') < Len(placing) => cartItems = Head(placing).reviewed]_vars
=============================================================================
