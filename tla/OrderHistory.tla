---------------------------- MODULE OrderHistory ----------------------------
(***************************************************************************)
(* pages/OrdersPage.js composed with the session of module Session.        *)
(*                                                                         *)
(* OrdersPage starts with orders = [] and fills it from a mount effect     *)
(* with three hard-coded orders; it renders "Please Login" while           *)
(* AuthContext has no user, "No orders found" while orders is empty, and  *)
(* the list otherwise.  Every route change, the Header's logout, the      *)
(* login redirect and a reload unmount it, so its state is reset to [] by *)
(* each step that changes the page or remounts the app.  Prices and       *)
(* totals are in cents; dates, icons and labels are left out.             *)
(***************************************************************************)
EXTENDS Session, SequencesExt

VARIABLE orders   \* OrdersPage orders

ohVars == <<vars, orders>>

\* The useEffect's mockOrders (dates and item names abstracted away).
mockOrders ==
    <<[id |-> "ORD-001", status |-> "delivered", total |-> 12997,
       items |-> <<[quantity |-> 1, price |-> 9999], [quantity |-> 1, price |-> 2999]>>],
      [id |-> "ORD-002", status |-> "shipped", total |-> 7999,
       items |-> <<[quantity |-> 1, price |-> 7999]>>],
      [id |-> "ORD-003", status |-> "processing", total |-> 19999,
       items |-> <<[quantity |-> 1, price |-> 19999]>>]>>

\* The render: the user gate first, then the empty state, then the list.
OrdersListShown == page = "orders" /\ user # NoUser /\ orders # <<>>

-----------------------------------------------------------------------------
\* Fault: an effect that appends, setOrders(prev => [...prev, ...mockOrders]),
\* run again while mounted.
LoadOrdersAppend ==
    /\ page = "orders"
    /\ orders' = orders \o mockOrders
    /\ UNCHANGED vars

\* The mount effect: setOrders(mockOrders).  It runs whatever the user gate
\* renders, since the hooks come before the early return.
LoadOrders ==
    /\ page = "orders" /\ orders = <<>>
    /\ orders' = mockOrders
    /\ UNCHANGED vars

\* Steps of the session that leave or remount the page drop its state (a
\* Navigate always changes the route; the redirect and the logout go to /).
UnmountingStep ==
    \/ \E to \in Pages : Navigate(to)
    \/ Logout \/ RedirectHome \/ Reload

SessionStep ==
    \/ \E t \in {0, 1} : ChangeTab(t)
    \/ \E e \in Emails : Submit(e)
    \/ LoginResolves \/ SignupResolves \/ RestoreUser
    \/ OpenMenu \/ CloseMenu

\* "My Orders" on /orders navigates to the same route: the page stays.
MenuStep ==
    \E to \in {"orders", "profile"} :
        /\ MenuNavigate(to)
        /\ orders' = IF page = "orders" /\ to = "orders" THEN orders ELSE <<>>

OHInit == Init /\ orders = <<>>

OHNext ==
    \/ UnmountingStep /\ orders' = <<>>
    \/ SessionStep /\ UNCHANGED orders
    \/ MenuStep
    \/ LoadOrders

OHSpec == OHInit /\ [][OHNext]_ohVars
          /\ WF_vars(LoginResolves) /\ WF_vars(SignupResolves)
          /\ WF_vars(RedirectHome) /\ WF_vars(RestoreUser)
          /\ WF_ohVars(LoadOrders)

-----------------------------------------------------------------------------
OHTypeOK == TypeOK /\ orders \in {<<>>, mockOrders}

ItemsTotal(items) == FoldLeft(LAMBDA acc, it : acc + it.price * it.quantity, 0, items)

\* spec.md 3 and 8: an order's total is the sum over its lines of unit
\* price x quantity, exactly; OrdersPage shows order.total next to its items.
OrderTotalsMatchItems ==
    \A i \in DOMAIN orders : orders[i].total = ItemsTotal(orders[i].items)

\* A user with a stored session who opens /orders (or reloads it) is shown
\* the order list, unless they leave or log out: the first render after a
\* reload has user = null and shows "Please Login", and only the
\* AuthProvider's restore effect and the page's own effect end that.
OrdersReachUser ==
    (page = "orders" /\ stored # NoUser)
        ~> (OrdersListShown \/ page # "orders" \/ stored = NoUser)
=============================================================================
