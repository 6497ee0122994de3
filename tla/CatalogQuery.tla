---------------------------- MODULE CatalogQuery ----------------------------
(***************************************************************************)
(* The product listing: pages/ProductsPage.js filters its hard-coded      *)
(* catalogue by the route's category and a search term, then sorts a copy *)
(* with a comparator chosen by the "Sort by" select.  The Header's and    *)
(* HomePage's links choose the category; the product cards of HomePage   *)
(* and ProductsPage open pages/ProductDetailPage.js, whose Back button    *)
(* goes back in the history.                                              *)
(*                                                                         *)
(* Data abstraction: a name is a short sequence of one-character strings  *)
(* (the first two letters of the real name, case kept: they keep the      *)
(* names' order); prices are in cents, ratings in tenths.  The route      *)
(* table is not in the repository, so whether going from one category to *)
(* another keeps the mounted ProductsPage (and its search and sort) is a  *)
(* nondeterministic choice.                                               *)
(***************************************************************************)
EXTENDS Integers, Sequences, SequencesExt, FiniteSets

CONSTANTS
    Terms,          \* search texts typed, as sequences of characters
    NoCategory      \* the /products route, without a :category

VARIABLES
    page,        \* the page shown: "home", "products", "detail" or "other"
    category,    \* useParams().category of the products route
    searchTerm,  \* ProductsPage searchTerm
    sortBy,      \* ProductsPage sortBy
    productId,   \* useParams().productId of the detail route
    backTo       \* the page navigate(-1) returns to from the detail page

vars == <<page, category, searchTerm, sortBy, productId, backTo>>

Pages == {"home", "products", "detail", "other"}

SortKeys == {"name", "price-low", "price-high", "rating"}

\* Header's Electronics, Clothing and Books buttons.
headerCategoryRoutes == {"electronics", "clothing", "books"}

\* HomePage's category cards: navigate(`/products/${category.name.toLowerCase()}`).
homeCategoryRoutes == {"electronics", "clothing", "books", "home & garden"}

CategoryLinks == headerCategoryRoutes \cup homeCategoryRoutes

\* HomePage's featuredProducts (only the ids are read by the model).
featuredIds == {1, 2, 3, 4}

\* ProductDetailPage's products object has entries for ids 1 and 2 only.
detailProducts == {1, 2}

\* const product = products[productId] || products[1].
DetailShown(id) == IF id \in detailProducts THEN id ELSE 1

-----------------------------------------------------------------------------
(* String.prototype.toLowerCase, character by character.                  *)
Lower == [c \in {"W", "w", "i", "I", "S", "s", "m", "M", "R", "r", "u",
                 "P", "p", "B", "b", "l", "C", "c", "a"} |->
            CASE c \in {"W", "w"} -> "w" [] c \in {"I", "i"} -> "i"
              [] c \in {"S", "s"} -> "s" [] c \in {"M", "m"} -> "m"
              [] c \in {"R", "r"} -> "r" [] c \in {"P", "p"} -> "p"
              [] c \in {"B", "b"} -> "b" [] c \in {"C", "c"} -> "c"
              [] OTHER -> c]
Lowered(s) == [i \in DOMAIN s |-> Lower[s[i]]]

(* The collation localeCompare applies to lower-case letters.              *)
Collation == <<"a", "b", "c", "i", "l", "m", "p", "r", "s", "u", "w">>
Rank(c) == CHOOSE i \in DOMAIN Collation : Collation[i] = Lower[c]

\* allProducts (image and description are never read by the query).
allProducts ==
    <<[id |-> 1, name |-> <<"W", "i">>, price |-> 9999,  category |-> "electronics", rating |-> 45],
      [id |-> 2, name |-> <<"S", "m">>, price |-> 19999, category |-> "electronics", rating |-> 48],
      [id |-> 3, name |-> <<"R", "u">>, price |-> 7999,  category |-> "clothing",    rating |-> 43],
      [id |-> 4, name |-> <<"P", "r">>, price |-> 2999,  category |-> "books",       rating |-> 47],
      [id |-> 5, name |-> <<"B", "l">>, price |-> 5999,  category |-> "electronics", rating |-> 44],
      [id |-> 6, name |-> <<"C", "a">>, price |-> 2499,  category |-> "clothing",    rating |-> 42]>>

\* a.localeCompare(b): the sign of the first differing letter, ignoring case.
RECURSIVE localeCompare(_, _)
localeCompare(a, b) ==
    CASE a = <<>> /\ b = <<>> -> 0
      [] a = <<>> -> -1
      [] b = <<>> -> 1
      [] Rank(Head(a)) < Rank(Head(b)) -> -1
      [] Rank(Head(a)) > Rank(Head(b)) -> 1
      [] OTHER -> localeCompare(Tail(a), Tail(b))

\* allProducts.filter: !category || product.category === category, and
\* product.name.toLowerCase().includes(searchTerm.toLowerCase()).
filteredProducts(cat, term) ==
    SelectSeq(allProducts, LAMBDA p : /\ cat = NoCategory \/ p.category = cat
                                      /\ Lowered(term) \in SubSeqs(Lowered(p.name)))

\* Fault: 'price-high' with the operands of 'price-low'.
CompareHighAscending(k, a, b) ==
    CASE k \in {"price-low", "price-high"} -> a.price - b.price
      [] k = "rating" -> b.rating - a.rating
      [] OTHER -> localeCompare(a.name, b.name)

\* The comparator passed to sort, switch (sortBy).
Compare(k, a, b) ==
    CASE k = "price-low"  -> a.price - b.price
      [] k = "price-high" -> b.price - a.price
      [] k = "rating"     -> b.rating - a.rating
      [] OTHER            -> localeCompare(a.name, b.name)

\* [...filteredProducts].sort(cmp): Array.prototype.sort is stable, so with
\* a consistent comparator it yields what a stable insertion sort yields.
RECURSIVE Insert(_, _, _)
Insert(s, x, k) ==
    IF s = <<>> THEN <<x>>
    ELSE IF Compare(k, x, Head(s)) < 0 THEN <<x>> \o s
    ELSE <<Head(s)>> \o Insert(Tail(s), x, k)

sortedProducts(cat, term, k) ==
    FoldLeft(LAMBDA acc, x : Insert(acc, x, k), <<>>, filteredProducts(cat, term))

-----------------------------------------------------------------------------
\* Fault: a fresh page whose default sort key is no MenuItem value.
OpenProductsMisnamedDefault(c) ==
    /\ category' = c
    /\ page' = "products"
    /\ \/ page # "products" /\ searchTerm' = <<>> /\ sortBy' = "Name"
       \/ page = "products" /\ UNCHANGED <<searchTerm, sortBy>>
    /\ UNCHANGED <<productId, backTo>>

\* Header "Products", "Electronics", "Clothing", "Books" and HomePage's
\* "Shop Now" and category cards: navigate('/products[/category]').  A
\* ProductsPage mounted from another page starts with '' and 'name'.
OpenProducts(c) ==
    /\ category' = c
    /\ page' = "products"
    /\ \/ page # "products" /\ searchTerm' = <<>> /\ sortBy' = "name"
       \/ page = "products" /\ UNCHANGED <<searchTerm, sortBy>>
       \/ page = "products" /\ searchTerm' = <<>> /\ sortBy' = "name"
    /\ UNCHANGED <<productId, backTo>>

\* The Header's logo and title: navigate('/').
OpenHome ==
    /\ page # "home"
    /\ page' = "home"
    /\ UNCHANGED <<category, searchTerm, sortBy, productId, backTo>>

\* Any other link (cart, login, orders): the page shown unmounts.
Leave ==
    /\ page # "other"
    /\ page' = "other"
    /\ UNCHANGED <<category, searchTerm, sortBy, productId, backTo>>

\* A product card: navigate(`/product/${product.id}`), on HomePage for a
\* featured product, on ProductsPage for a product of the listing.
OpenDetail(id) ==
    /\ \/ page = "home" /\ id \in featuredIds
       \/ page = "products" /\ id \in {p.id : p \in ToSet(sortedProducts(category, searchTerm, sortBy))}
    /\ page' = "detail"
    /\ productId' = id
    /\ backTo' = page
    /\ UNCHANGED <<category, searchTerm, sortBy>>

\* The detail page's Back: navigate(-1).  A ProductsPage returned to is a
\* new mount of the same category: its search and sort start over.
Back ==
    /\ page = "detail"
    /\ page' = backTo
    /\ IF backTo = "products" THEN searchTerm' = <<>> /\ sortBy' = "name"
                              ELSE UNCHANGED <<searchTerm, sortBy>>
    /\ UNCHANGED <<category, productId, backTo>>

\* The search TextField: setSearchTerm(e.target.value).
SetSearchTerm(t) ==
    /\ page = "products"
    /\ searchTerm' = t
    /\ UNCHANGED <<page, category, sortBy, productId, backTo>>

\* The "Sort by" Select: setSortBy(e.target.value).
SetSortBy(k) ==
    /\ page = "products"
    /\ sortBy' = k
    /\ UNCHANGED <<page, category, searchTerm, productId, backTo>>

Init ==
    /\ page = "home"
    /\ category = NoCategory
    /\ searchTerm = <<>>
    /\ sortBy = "name"
    /\ productId = 1
    /\ backTo = "home"

Next ==
    \/ \E c \in CategoryLinks \cup {NoCategory} : OpenProducts(c)
    \/ OpenHome \/ Leave \/ Back
    \/ \E id \in 1..Len(allProducts) : OpenDetail(id)
    \/ \E t \in Terms : SetSearchTerm(t)
    \/ \E k \in SortKeys : SetSortBy(k)

Spec == Init /\ [][Next]_vars

-----------------------------------------------------------------------------
TypeOK ==
    /\ page \in Pages
    /\ productId \in 1..Len(allProducts) /\ backTo \in {"home", "products"}
    /\ category \in CategoryLinks \cup {NoCategory}
    /\ searchTerm \in Terms \cup {<<>>}
    /\ sortBy \in SortKeys

(* The reference of spec.md 4.3, stated without the code's operators.      *)
ContainsIgnoringCase(name, term) ==
    \E o \in 0..(Len(name) - Len(term)) :
        \A j \in 1..Len(term) : Lower[name[o + j]] = Lower[term[j]]

NameBefore(a, b) ==
    \E i \in 0..Len(a) :
        /\ i <= Len(b)
        /\ \A j \in 1..i : Rank(a[j]) = Rank(b[j])
        /\ \/ i = Len(a) /\ i < Len(b)
           \/ i < Len(a) /\ i < Len(b) /\ Rank(a[i + 1]) < Rank(b[i + 1])

KeyBefore(k, a, b) ==
    CASE k = "price-low"  -> a.price < b.price
      [] k = "price-high" -> a.price > b.price
      [] k = "rating"     -> a.rating > b.rating
      [] OTHER            -> NameBefore(a.name, b.name)

\* Ties keep the catalogue's order.
Before(k, a, b) ==
    \/ KeyBefore(k, a, b)
    \/ ~KeyBefore(k, b, a) /\ a.id < b.id

\* spec.md 4.3: the listing shows exactly the products of the route's
\* category (all of them without one) whose name contains the search text,
\* ignoring case, each once, ordered by the chosen key (names ascending,
\* price ascending or descending, rating descending); spec.md 8: e.g.
\* price-low on [99.99, 199.99, 79.99, 29.99] gives them ascending.
QueryMatchesReference ==
    page = "products" =>
        LET s == sortedProducts(category, searchTerm, sortBy)
            want == {p \in ToSet(allProducts) :
                        /\ category = NoCategory \/ p.category = category
                        /\ ContainsIgnoringCase(p.name, searchTerm)}
        IN /\ ToSet(s) = want
           /\ Len(s) = Cardinality(want)
           /\ IsSorted(s, LAMBDA a, b : Before(sortBy, a, b))
\* spec.md 6: the detail route shows the product its identifier names.
\* Every product card of HomePage and ProductsPage links to the detail
\* route of the product it shows; the page opened must show that product,
\* and its Add to Cart add it.
DetailShowsRoutedProduct == page = "detail" => DetailShown(productId) = productId
=============================================================================
