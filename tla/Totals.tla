-------------------------------- MODULE Totals --------------------------------
(***************************************************************************)
(* Sums over a function with finite domain and natural values: the total   *)
(* deposited by all users, the total owed to them, the proceeds of a       *)
(* basket.  A sum is defined as the number of units the function counts,   *)
(* so that the facts about it follow from those about finite sets.         *)
(***************************************************************************)
EXTENDS Naturals, FiniteSets

\* One pair per unit counted by f: <<u, 1>>, ..., <<u, f[u]>> for each u.
Units(f) == UNION {{u} \X (1..f[u]) : u \in DOMAIN f}

\* The sum of f[u] over every u in the domain of f.
Total(f) == Cardinality(Units(f))

===============================================================================
