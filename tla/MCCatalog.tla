------------------------------ MODULE MCCatalog ------------------------------
(* A tracked product with a variant, in a category, and room for one more of *)
(* each.                                                                     *)
EXTENDS Catalog, TLC

CONSTANTS p1, p2, v1, v2, k, n1, g

NoRow == [row |-> "new", code |-> None, product |-> None, name |-> None, category |-> None]

MCProducts == p1 :> [NoRow EXCEPT !.row = "live", !.name = n1, !.category = g] @@ p2 :> NoRow
MCVariants == v1 :> [NoRow EXCEPT !.row = "live", !.code = k, !.product = p1] @@ v2 :> NoRow

Symmetry == Permutations(Clients) \cup Permutations(Orders)

==============================================================================
