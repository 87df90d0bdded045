---------------------------- MODULE MCRconClient ----------------------------
(* Instances of RconClient for TLC. *)
EXTENDS RconClient, TLC

CONSTANTS poller, handler, b1, b2, c1, c2, c3

\* The status poller has a deadline, a page that runs a command has none but
\* can be closed.
MCCallers == {poller, handler}
MCDeadlined == {poller}
MCCancellable == {handler}
OneReconnectorId == {b1}
TwoReconnectorIds == {b1, b2}
MCConns == {c1, c2, c3}
TwoConns == {c1, c2}

AllSizes == {"fits", "oversized"}
Fitting == {"fits"}
AllAuth == {"ok", "denied", "bad"}
AllExec == {"ok", "bad"}
Accepting == {"ok"}

ConnSymmetry == Permutations(TwoConns)
Symmetry == Permutations(MCConns) \cup Permutations(TwoReconnectorIds)
=============================================================================
