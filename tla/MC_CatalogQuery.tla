--------------------------- MODULE MC_CatalogQuery ---------------------------
(* Search texts: empty, one letter in either case, a two-letter prefix in  *)
(* mixed case, and one that matches nothing.  Of the category links,      *)
(* HomePage's 'home & garden' matches no product.                          *)
EXTENDS CatalogQuery

MCTerms == {<<>>, <<"s">>, <<"S">>, <<"r">>, <<"w", "I">>, <<"C", "m">>}
=============================================================================
