----------------------------- MODULE MCPfRules -----------------------------
EXTENDS PfRules, TLC

L(t, n, x) == [type |-> t, num |-> n, text |-> x]
MCPassAll == L("filter", 1, 3)

\* Every rule reads as itself, but for the fifth text: "nat-to (em0)" is matched by
\* no pattern, least of all by itself, which matches "nat-to em0".
MCEre == [t \in 1..6 |-> IF t = 5 THEN 6 ELSE t]
MCValid == 1..5
\* One line pfctl rejects.
MCFewLines == {L("filter", NoNum, 1), L("nat", 1, 6)}
MCSymmetry == Permutations(Sessions)
=============================================================================
