----------------------------- MODULE MC_Checkout -----------------------------
(* Two products (one known to the detail page, one shown through its       *)
(* fallback), quantities -1..2, and three mounts of the checkout page:     *)
(* enough for a placement of one mount to be pending while another mount  *)
(* places its own order.                                                   *)
EXTENDS Checkout

MCProducts == {1, 3}
MCPrice == [p \in MCProducts |-> IF p = 1 THEN 9999 ELSE 7999]
MCDetailCatalog == {1}
MCTypedValues == {NaN, 2}
MCMinQty == 0
MCLiveProducts == {1}
=============================================================================
