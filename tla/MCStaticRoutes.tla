-------------------------- MODULE MCStaticRoutes --------------------------
(* None, one or two routes, in either table and by either gateway.  Of two, both may be *)
(* to one network, and in one table once the other is deleted.                           *)
EXTENDS StaticRoutes, TLC

CONSTANTS n1, n2, g1, g2, t

MCEntry(n, r, g) == [network |-> n, rtable |-> r, gateway |-> g]
MCRouteLists == {<<>>, <<MCEntry(n1, DEFAULT, g1)>>,
                 <<MCEntry(n1, DEFAULT, g2), MCEntry(n2, DEFAULT, g1)>>,
                 <<MCEntry(n1, t, g1), MCEntry(n1, DEFAULT, g2)>>}
MCSymmetry == Permutations(Procs)
=============================================================================
