----------------------------- MODULE MCRepoSetup -----------------------------
(* A few calls and pushes for RepoSetup.                                   *)
EXTENDS RepoSetup, TLC

CONSTANTS c1, c2, c3, p1, p2, p3

AnyCall == Permutations(Call)
=============================================================================
