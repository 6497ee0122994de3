------------------------------- MODULE MC_Cart -------------------------------
(* Three catalogue products, two of which the detail page knows; typed      *)
(* values cover NaN, 0 (both become 1), a negative and a larger number.    *)
EXTENDS Cart

MCProducts == {1, 2, 3}
MCPrice == [p \in MCProducts |-> CASE p = 1 -> 9999
                                   [] p = 2 -> 19999
                                   [] p = 3 -> 7999]
MCDetailCatalog == {1, 2}
MCTypedValues == {NaN, 0, -1, 2}
MCMinQty == -1
=============================================================================
