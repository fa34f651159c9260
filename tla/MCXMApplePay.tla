---------------------------- MODULE MCXMApplePay ----------------------------
EXTENDS XMApplePay

CONSTANTS t1, t2, p1, c1, l1, u1

MCTids == {t1, t2}
MCTids1 == {t1}
MCProducts == {p1}
MCCalls == {c1}
MCLookups == {l1}
MCQueries == {MCProducts}
MCAccepting == {TRUE}
MCVerdicts == {TRUE, FALSE}
MCUids == {u1}
MCLogins == MCUids \cup {NoUid, Nil}
MCLoginsWithUid == MCUids \cup {Nil}
MCBlocks == [route : {"pay", "direct"}, pid : MCProducts, uid : MCUids \cup {NoUid}]

MCSymmetry == Permutations(MCTids)
=============================================================================
