---------------------------- MODULE MCPushEvents ----------------------------
(* PushEvents with two slices, two or three job rows and three commits.       *)
EXTENDS PushEvents
=============================================================================
