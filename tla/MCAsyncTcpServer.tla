-------------------------- MODULE MCAsyncTcpServer --------------------------
(* AsyncTcpServer for TLC: connections are interchangeable.                   *)
EXTENDS AsyncTcpServer, TLC

PeerSymmetry == Permutations(Peers)
=============================================================================
