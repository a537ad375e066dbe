--------------------------- MODULE MCInputRouting ---------------------------
(* Standalone controllers as records, so that a key's transport can differ. *)
EXTENDS InputRouting, TLC

Pad(n) == [transport |-> "bt", peer |-> n]
Carrier == [transport |-> "companion", peer |-> 254]

MCPads == {Pad(1), Pad(2)}
MCPadsAndLink == {Pad(1), Pad(2), Carrier}
MCPadAndLink == {Pad(1), Carrier}
MCLink == {Carrier}
MCNoLink == {}
MCGroupOf == [k \in Key |-> 0]
=============================================================================
