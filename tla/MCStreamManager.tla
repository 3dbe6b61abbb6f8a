--------------------------- MODULE MCStreamManager ---------------------------
(* Instances of StreamManager for TLC: one peer-initiated stream with data *)
(* in both directions, and two streams with priorities and limits, of its *)
(* own, of its own and the peer's at once, or both of the peer's.          *)
EXTENDS StreamManager

MCOneId == {1}
MCOwnIds == {0, 4}
MCAllIds == {0, 4, 8}
MCReceiver == {[isClient |-> TRUE, ids |-> MCOneId]}
MCClient == {[isClient |-> TRUE, ids |-> MCOwnIds]}
MCServer == {[isClient |-> FALSE, ids |-> MCOwnIds]}
MCEndpoints == MCClient \cup {[isClient |-> FALSE, ids |-> {4, 8}]}
MCPlain == {[priority |-> 2, weight |-> 16, dependsOn |-> NoParent]}
MCTwoParents == {[priority |-> 2, weight |-> 16, dependsOn |-> p] : p \in MCOwnIds}
=============================================================================
