--------------------------- MODULE MCPairingWindow ---------------------------
(* Two peers: a controller and a keyboard. *)
EXTENDS PairingWindow

CONSTANTS first, second

MCPeers == {first, second}
MCRoles == {[p \in MCPeers |-> IF p = first THEN "controller" ELSE "keyboard"]}
=============================================================================
