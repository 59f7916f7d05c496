---------------------------- MODULE MCRetrofitNode ----------------------------
(***************************************************************************)
(* A small instance of RetrofitNode.                                       *)
(***************************************************************************)
EXTENDS RetrofitNode

NodeMessages == [kind : {"event", "energy"}, id : 1 .. MaxMessages, count : {0}]
=============================================================================
