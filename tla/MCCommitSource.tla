---------------------------- MODULE MCCommitSource ----------------------------
(* All three servers, a marker with its brackets escaped and one without;   *)
(* a marker in the body of a message only where the client reads it.        *)
EXTENDS CommitSource

Messages == {"", "test", "test [ci skip]", "test, [ci skip] below"}
FirstLine == [m \in Messages |-> IF m = "test, [ci skip] below" THEN "test" ELSE m]

\* Unescaped, `[ci skip]` matches each message that has one of its characters.
Patterns ==
  [escaped |-> {"test [ci skip]", "test, [ci skip] below"}, unescaped |-> Messages \ {""}]

Configured == {{"escaped"}, {"escaped", "unescaped"}}

AllServers ==
  [gitea |-> Messages, github |-> Messages, gitlab |-> Messages \ {"test, [ci skip] below"}]

ASSUME MarksAssumption == MarksSeen
=============================================================================
