--------------------------- MODULE MCRconProtocol ---------------------------
(* Instances of RconProtocol for TLC. *)
EXTENDS RconProtocol

MCIds == {-1, 257}

\* With MaxPacket = 12 the longest payload that fits has three bytes.
MCPayloads == {<<>>, <<65>>, <<65, 66, 67>>, <<65, 66, 67, 68>>}

\* A body too short for an id, one too short for a type, lengths beyond any limit.
MCGarbage == {LE32(3) \o <<1, 0, 0>>, LE32(7) \o <<1, 0, 0, 0, 2, 0, 0>>,
              <<13, 0, 0, 0>>, <<0, 0, 0, 255>>}
=============================================================================
