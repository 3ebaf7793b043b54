--------------------------- MODULE MCPeerRegistry ---------------------------
(***************************************************************************)
(* Small instances of PeerRegistry for TLC.                                *)
(***************************************************************************)
EXTENDS PeerRegistry, TLC

\* Connections, updaters and callers of Close are interchangeable.
RegistrySymmetry == Permutations(Conns) \cup Permutations(Updaters) \cup Permutations(Closers)
=============================================================================
