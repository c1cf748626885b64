---------------------------- MODULE MCServerStart ----------------------------
(* The indexes of the secrets, for ServerStart: each key may be in the     *)
(* database under the name the server gives it or under MongoDB's own.     *)
EXTENDS ServerStart

SecretName ==
  {"repoId", "repoId_1", "repoId_name", "repoId_1_name_1", "name_repoId"}
SecretKey == {"{repoId}", "{repoId,name}", "{name,repoId}"}
SecretFields ==
  [k \in SecretKey |-> IF k = "{repoId}" THEN {"repoId"} ELSE {"repoId", "name"}]
SecretNamed ==
  [k \in SecretKey |-> CASE k = "{repoId}" -> {"repoId", "repoId_1"}
                         [] k = "{repoId,name}" -> {"repoId_name", "repoId_1_name_1"}
                         [] k = "{name,repoId}" -> {"name_repoId"}]
SecretSpec ==
  [n \in {"repoId", "repoId_name"} |->
     IF n = "repoId" THEN [key |-> "{repoId}", unique |-> FALSE]
                     ELSE [key |-> "{repoId,name}", unique |-> TRUE]]
=============================================================================
