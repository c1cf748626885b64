---------------------------- MODULE MCTokenRefresh ----------------------------
(* One user whose tokens live a few ticks, for TokenRefresh.               *)
EXTENDS TokenRefresh, TLC

CONSTANTS alice, g1, g2, g3, g4, g5

\* The case that StoredIsFresh is about.
ASSUME FreshAssumption == MarginCovers

AnyGrant == Permutations(Grant)
=============================================================================
