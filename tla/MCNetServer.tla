----------------------------- MODULE MCNetServer -----------------------------
(* NetServer for TLC: connections are interchangeable.                        *)
EXTENDS NetServer, TLC

PeerSymmetry == Permutations(Peers)

(* A bound on what the environment does in the run netserver_close: a second  *)
(* connection arrives only if nothing is ever sent and Close is not called.   *)
Busy == closes > 0 \/ \E p \in Peers : sent[p] > 0
Crowded == \E p, q \in Peers : p # q /\ link[p] # "none" /\ link[q] # "none"
CrowdsAreSilent == ~(Busy' /\ Crowded')
=============================================================================
