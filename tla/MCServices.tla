---------------------------- MODULE MCServices ----------------------------
EXTENDS Services, TLC

CONSTANTS guests, v1, v2, bad
MCTables == <<guests>>
MCInitially == [d \in Daemons |-> v1]
MCChanges == [d \in Daemons |-> CASE d = "dnsmasq" -> {v2}
                                 [] d = guests -> {bad, Gone}
                                 [] d \in {"dhcrelay", "dyndns"} -> {Off}
                                 [] d = "relayd" -> {v2}
                                 [] d = "bgpd" -> {v2, Off}
                                 [] OTHER -> {}]
MCSymmetry == Permutations(Requests)
=============================================================================
