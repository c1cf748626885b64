---------------------------- MODULE MCRepoListing ----------------------------
(* One user and three repositories for RepoListing.                        *)
EXTENDS RepoListing, TLC

CONSTANTS alice, fork, api, web, s1, s2, pull, guest

ForkApiWeb == <<fork, api, web>>

\* A fork that is not of the organisation, and repositories that are.
PullsAll == {(alice :> [r \in {fork, api, web} |-> pull])}

\* One after the other, the latest first.
OneByOne == fork :> 3 @@ api :> 2 @@ web :> 1
=============================================================================
