-------------------------- MODULE MCConfigClients --------------------------
(* Four rules: as few as the loop over the sources needs to come round again. *)
EXTENDS ConfigClients, TLC

CONSTANTS first, second, third, fourth, fifth, pass, block, any, net, old, new, WANIF, LANIF

MCRule(n) == [name |-> n, act |-> pass, if |-> WANIF, src |-> <<any>>]
MCShipped == [rules |-> <<MCRule(first), MCRule(second), MCRule(third), MCRule(fourth)>>,
              ipsec |-> old, lan |-> old]
MCAdded == MCRule(fifth)
MCLists == {<<net>>}
MCSymmetry == Permutations(Requests) \cup Permutations(Addrs)
=============================================================================
