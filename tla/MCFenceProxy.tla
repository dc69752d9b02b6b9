---------------------------- MODULE MCFenceProxy ----------------------------
(* Instance of FenceProxy for TLC: the client Pod and one that is not.      *)
EXTENDS FenceProxy

CONSTANTS c1
Conns == {c1}
Identities == {<<"u1", "ip1">>, <<"u2", "ip2">>}
=============================================================================
