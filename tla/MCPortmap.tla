------------------------------ MODULE MCPortmap ------------------------------
(* Instances of Portmap for TLC. *)
EXTENDS Portmap

CONSTANTS k1, k2

None == {}
OneConn == {k1}
TwoConns == {k1, k2}
=============================================================================
