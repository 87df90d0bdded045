---------------------------- MODULE MCServerPage ----------------------------
(* Instances of ServerPage for TLC. *)
EXTENDS ServerPage, TLC

CONSTANTS s1, s2, p1, p2, t1, t2, here

MCServers == {s1, s2}
MCPlayers == {p1, p2}
MCTemplates == {t1, t2}
MCPlaces == {Blank, here}

MCSymmetry == Permutations(MCServers) \cup Permutations(MCPlayers)

\* Databases to begin with: a template of one server, and no unset coordinates.
MCInit ==
    /\ Init
    /\ owner[t1] # None /\ owner[t2] = None
    /\ settings = [s \in MCServers |-> [f \in Fields |-> here]]

MCSpec == MCInit /\ [][Next]_vars
=============================================================================
