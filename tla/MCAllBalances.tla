--------------------------- MODULE MCAllBalances ---------------------------
EXTENDS AllBalancesProperties
CONSTANTS a1, a2, none

Plain    == [restrictMap |-> {}, cutoffBlock |-> NoBlock, limit |-> NoLimit,
             detailed |-> FALSE, csv |-> FALSE]
Cutoff   == [Plain EXCEPT !.cutoffBlock = 2]
Richest  == [Cutoff EXCEPT !.limit = 1]
Detailed == [Plain EXCEPT !.detailed = TRUE]
One(a)   == [Detailed EXCEPT !.restrictMap = {a}, !.cutoffBlock = 2]
Csv      == [Plain EXCEPT !.csv = TRUE]

MCOptions  == {Csv, Richest, One(a1), One(a2)}
MCPlain    == {Plain}
MCCutoff   == {Cutoff}

Symmetry == Permutations({a1, a2})
=============================================================================
