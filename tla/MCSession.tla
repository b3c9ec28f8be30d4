------------------------------ MODULE MCSession ------------------------------
(* Instances of Session: two migrations, orders that get filled.              *)
EXTENDS Session

MCVersions == {1, 2}
=============================================================================
