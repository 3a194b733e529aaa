--------------------------- MODULE MCGovernedApi ---------------------------
EXTENDS GovernedApi, TLC

CONSTANTS r1, r2, ana, sam, t1, t2, a1, a2, n1

MCRequest == {r1, r2}
MCUser == {ana, sam}
MCReviewer == {ana}
MCUserOf == [u \in MCUser |-> u]
MCToken == {t1, t2}
MCAlert == {a1, a2}
MCQueued == {a1}
MCNote == {n1}

MCSymmetry == Permutations(MCRequest)
=============================================================================
