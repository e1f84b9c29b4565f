--------------------------- MODULE MCHeadRefresh ---------------------------
(* Block trees for TLC.  A tipset is a number: its height, plus 100 on the second branch. *)
EXTENDS HeadRefresh

CONSTANTS MainHeights, ForkHeights, ForkAt, Conflicts

TreeTipsets == MainHeights \cup {100 + h : h \in ForkHeights}

TreeHeight == [t \in TreeTipsets |-> t % 100]

(* The next lower tipset of the same branch; the fork leaves the main branch at ForkAt. *)
TreeParent ==
    [t \in TreeTipsets |->
        IF t = 0 THEN 0
        ELSE IF t < 100 THEN Max({s \in MainHeights : s < t})
        ELSE IF \E s \in ForkHeights : s + 100 < t THEN 100 + Max({s \in ForkHeights : s + 100 < t})
        ELSE ForkAt]

(* Message h is in the main branch at height h, unless its nonce is lost to another message
   there, and one height later on the fork. *)
TreeMsgs == MainHeights \ {0}

TreeIncludes ==
    [t \in TreeTipsets |->
        IF t < 100 THEN {t} \ ({0} \cup Conflicts)
        ELSE {m \in TreeMsgs : m > ForkAt /\ m + 1 = t - 100}]

TreeRivals == [t \in TreeTipsets |-> {t} \cap Conflicts]
=============================================================================
