----------------------------- MODULE MC_Catalogue -----------------------------
(* Small instances of Catalogue: the topics are worked on one at a time, so that  *)
(* their interleavings are not multiplied, the product also together with its     *)
(* search index; three categories make the smallest cycle that two moves can close. *)
EXTENDS Catalogue, TLC

CONSTANTS q1, q2, i1, i2

\* Which request is which makes no difference, nor which image.
Symmetry == {p @@ q : p \in Permutations({q1, q2}), q \in Permutations({i1, i2})}

SomeDesks == {{"product"}, {"product", "search"}, {"media"}, {"categories"}, {"attributes"}}

MediaDesk == {{"media"}}

Edit(a, d, c) == [active |-> a, dropship |-> d, category |-> c]

SomeEdits == {Edit({TRUE}, {}, {}), Edit({}, {TRUE}, {}), Edit({TRUE}, {TRUE}, {TRUE}),
              Edit({FALSE}, {FALSE}, {})}

SomeOdooProducts ==
    {[exists |-> TRUE, active |-> a, dropship |-> ~a, category |-> TRUE] : a \in BOOLEAN}

\* A product that is published has an image; its other images make no difference to it.
\* How it is sourced makes none to the index.
PlainProducts ==
    /\ "product" \in desk => images # {}
    /\ "search" \in desk => ~product.dropship
===============================================================================
