---------------------------- MODULE MCOVHCluster ----------------------------
(* Small instances of OVHCluster for TLC.                                   *)
EXTENDS OVHCluster, TLC

CONSTANTS l1, l2, n1, n2, user, adopted

\* Networks and load balancers that do not exist yet are interchangeable.
FreshSymmetry == Permutations(Nets \ {UserNet}) \union Permutations(OwnLBs)
=============================================================================
